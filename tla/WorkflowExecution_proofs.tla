------------------------ MODULE WorkflowExecution_proofs ------------------------
(***************************************************************************)
(* Theorems about WorkflowExecution, for every value of its constants:     *)
(* type correctness, at most one grant of a claim each time a workflow was *)
(* made to wait for one, and exclusive execution.                          *)
(***************************************************************************)
EXTENDS WorkflowExecution, FiniteSetTheorems, TLAPS

\* i is no executor, or one that was granted a claim on w.
Known(w, i) == i = None \/ \E c \in Claimers(w) : IdOf[host[c]] = i

\* What a task's place in execute_workflow says about its claim.
Stages ==
  \A t \in Tasks :
    /\ pc[t] \in {"free", "read", "claim"} => ~claimed[t]
    /\ pc[t] \in {"reload", "done"} => claimed[t]
    /\ Live(t) \/ claimed[t] => host[t] \in Processes

\* Every executor named by a row, stored or read before, was once granted a claim.
ExecutorsKnown ==
  /\ \A w \in Workflows : Known(w, rows[w].executor)
  /\ \A t \in Tasks : Known(WorkflowOf(t), snap[t].executor)
  /\ \A p \in Processes : \A m \in moving[p] : Known(m[1], m[2].executor)
  /\ \A c \in Clients : call[c].of \in Workflows => Known(call[c].of, call[c].row.executor)

\* A holder that shares its executor id with a claimant: it may pass the gate.
Entitled(t) ==
  Holder(t) /\ \E c \in Claimers(WorkflowOf(t)) : IdOf[host[c]] = IdOf[host[t]]

\* Recovery starts only after a claim, and only the entitled pass the gate.
GateKept ==
  \A t \in Tasks :
    /\ Live(t) /\ recovered[t] => Claimers(WorkflowOf(t)) # {}
    /\ Running(t) => Entitled(t)

\* The strengthening of ExclusiveExecution that steps preserve.
OneEntitled ==
  \A w \in Workflows :
    opened[w] <= 1 /\ ~overlapped[w] =>
      \A t, u \in TasksOf(w) : Entitled(t) /\ Entitled(u) => t = u

Inv == TypeOK /\ Stages /\ GrantsBounded /\ ExecutorsKnown /\ GateKept /\ OneEntitled
-----------------------------------------------------------------------------
(* Shapes and types.                                                       *)

\* A task names a workflow and a uuid.
LEMMA TaskShape ==
  \A t \in Tasks : /\ WorkflowOf(t) \in Workflows
                   /\ ExecutionOf(t) \in Executions
                   /\ t \in TasksOf(WorkflowOf(t))
BY DEF Tasks, WorkflowOf, ExecutionOf, TasksOf

\* The absent value is none of the values it stands in for.
LEMMA NoneDistinct ==
  /\ None \notin Names /\ None \notin ExecutorIds /\ None \notin Executions
  /\ None \notin Queues /\ None \notin DedupIds /\ None \notin Time
  /\ None \notin Processes /\ None \notin Workflows
BY StoreAssumption, ExecutionAssumption

\* The absent row is a row.
LEMMA AbsentType == Absent \in Row
BY DEF Absent, Row

\* Changing the status of a row leaves it a row.
LEMMA StatusType ==
  ASSUME NEW row \in Row, NEW s \in Unfinished \cup Terminal
  PROVE  /\ [row EXCEPT !.status = s] \in Row
         /\ [row EXCEPT !.status = s].executor = row.executor
BY DEF Row

\* So does changing its delay.
LEMMA DelayType ==
  ASSUME NEW row \in Row, NEW d \in Time
  PROVE  /\ [row EXCEPT !.delay = d] \in Row
         /\ [row EXCEPT !.delay = d].executor = row.executor
BY DEF Row

\* The row a granted claim writes.
LEMMA ClaimedRowType ==
  ASSUME NEW row \in Row, NEW e \in ExecutorIds, NEW x \in Executions
  PROVE  /\ ClaimedRow(row, e, x) \in Row
         /\ ClaimedRow(row, e, x).executor = e
BY DEF Row, ClaimedRow, Unfinished

\* The row run_workflow_value inserts.
LEMMA NewRowType ==
  ASSUME NEW n \in Names, NEW q \in Queues \cup {None}, NEW d \in DedupIds \cup {None},
         NEW u \in Time \cup {None}
  PROVE  /\ NewRow(n, q, d, u) \in Row
         /\ NewRow(n, q, d, u).executor = None
BY DEF Row, NewRow, Unfinished

\* A write replaces one row and counts at most one more wait.
LEMMA SaveType ==
  ASSUME TypeOK, NEW w \in Workflows, NEW row \in Row, Save(w, row)
  PROVE  rows' \in [Workflows -> Row] /\ opened' \in [Workflows -> Nat]
BY DEF TypeOK, Save

\* A spawn takes free tasks of the workflows it is given.
LEMMA FreeTaskExists ==
  ASSUME NEW w, \E t \in TasksOf(w) : pc[t] = "free"
  PROVE  FreeTask(w) \in TasksOf(w) /\ pc[FreeTask(w)] = "free"
BY DEF FreeTask

\* A spawn keeps the types of the task variables.
LEMMA SpawnType ==
  ASSUME TypeOK, NEW p \in Processes, NEW ws, NEW again, Spawn(p, ws, again)
  PROVE  /\ pc' \in [Tasks -> PCs] /\ host' \in [Tasks -> Processes \cup {None}]
         /\ recovered' \in [Tasks -> BOOLEAN] /\ claimed' \in [Tasks -> BOOLEAN]
         /\ snap' \in [Tasks -> Row] /\ doomed' \in [Tasks -> BOOLEAN]
<1>1. pc' \in [Tasks -> PCs] /\ host' \in [Tasks -> Processes \cup {None}]
  BY DEF TypeOK, Spawn, PCs
<1>2. recovered' \in [Tasks -> BOOLEAN]
  <2> DEFINE new == {FreeTask(w) : w \in ws}
             r(t) == IF t \in new THEN WorkflowOf(t) \in again ELSE recovered[t]
  <2>1. ASSUME NEW t \in Tasks PROVE r(t) \in BOOLEAN
    <3>1. recovered[t] \in BOOLEAN
      BY DEF TypeOK
    <3>2. (WorkflowOf(t) \in again) \in BOOLEAN
      OBVIOUS
    <3>3. CASE t \in new
      BY <3>2, <3>3, Zenon
    <3>4. CASE t \notin new
      BY <3>1, <3>4, Zenon
    <3>5. QED
      BY <3>3, <3>4
  <2>2. recovered' = [t \in Tasks |-> r(t)]
    BY DEF Spawn
  <2> HIDE DEF r
  <2>3. QED
    BY <2>1, <2>2
<1>3. /\ claimed' \in [Tasks -> BOOLEAN] /\ snap' \in [Tasks -> Row]
      /\ doomed' \in [Tasks -> BOOLEAN]
  BY Zenon DEF TypeOK, Spawn
<1>4. QED
  BY <1>1, <1>2, <1>3

\* The end of tasks keeps the types of the task variables.
LEMMA EndType ==
  ASSUME TypeOK, NEW ts, End(ts)
  PROVE  /\ pc' \in [Tasks -> PCs] /\ host' \in [Tasks -> Processes \cup {None}]
         /\ recovered' \in [Tasks -> BOOLEAN] /\ claimed' \in [Tasks -> BOOLEAN]
         /\ snap' \in [Tasks -> Row] /\ doomed' \in [Tasks -> BOOLEAN]
BY AbsentType DEF TypeOK, End, PCs

\* What is left of the budget stays a natural number.
LEMMA SpendType ==
  ASSUME TypeOK, NEW k \in Kinds, Spend(k)
  PROVE  left' \in [Kinds -> Nat]
BY DEF TypeOK, Spend

\* TypeOK in four parts, as the actions change them.
TasksTyped ==
  /\ pc \in [Tasks -> PCs] /\ host \in [Tasks -> Processes \cup {None}]
  /\ recovered \in [Tasks -> BOOLEAN] /\ claimed \in [Tasks -> BOOLEAN]
  /\ snap \in [Tasks -> Row] /\ doomed \in [Tasks -> BOOLEAN]
TableTyped == rows \in [Workflows -> Row] /\ opened \in [Workflows -> Nat]
RestTyped ==
  /\ now \in Time
  /\ life \in [Processes -> {"dead", "idle", "launching", "launched", "stopping"}]
  /\ supervisor \in [Processes -> {"off", "list", "move"}]
  /\ moving \in [Processes -> SUBSET (Workflows \X Row)]
  /\ unpolled \in [Processes -> SUBSET Queues]
  /\ call \in [Clients -> Call]
  /\ left \in [Kinds -> Nat]
  /\ overlapped \in [Workflows -> BOOLEAN]
PromisesTyped == promised \in [Workflows -> Time \cup {None}]

\* The parts make up TypeOK, in this state and in the next.
LEMMA TypeParts ==
  /\ TypeOK <=> TasksTyped /\ TableTyped /\ RestTyped /\ PromisesTyped
  /\ TypeOK' <=> TasksTyped' /\ TableTyped' /\ RestTyped' /\ PromisesTyped'
BY DEF TypeOK, TasksTyped, TableTyped, RestTyped, PromisesTyped

\* The call a client returns from names a workflow and a process and holds a row.
LEMMA CallType ==
  ASSUME TypeOK, NEW c \in Clients, NEW kind, Return(c, kind), kind # "none"
  PROVE  /\ call' \in [Clients -> Call]
         /\ call[c].row \in Row /\ call[c].of \in Workflows /\ call[c].at \in Processes
BY DEF TypeOK, Return, Call, NoCall

\* The rows that resume and fork write are rows, and wait to be claimed.
LEMMA ReopenType ==
  ASSUME NEW row \in Row, NEW q \in Queues \cup {None}
  PROVE  /\ Reopened(row, q) \in Row
         /\ Reopened(row, q).executor = None /\ Reopened(row, q).status \in Unfinished
<1>1. /\ (IF q = None THEN "Pending" ELSE "Enqueued") \in Unfinished
      /\ (IF q = None THEN row.queue ELSE q) \in Queues \cup {None}
  BY DEF Row, Unfinished
<1>2. PICK s, k : /\ s = (IF q = None THEN "Pending" ELSE "Enqueued") /\ s \in Unfinished
                  /\ k = (IF q = None THEN row.queue ELSE q) /\ k \in Queues \cup {None}
  BY <1>1
<1>3. Reopened(row, q) =
        [row EXCEPT !.status = s, !.queue = k, !.executor = None, !.execution = None]
  BY <1>2 DEF Reopened
<1>4. Reopened(row, q) =
        [status |-> s, name |-> row.name, executor |-> None, execution |-> None,
         queue |-> k, dedup |-> row.dedup, delay |-> row.delay]
  BY <1>3 DEF Row
<1>5. row.name \in Names \cup {None} /\ row.dedup \in DedupIds \cup {None}
      /\ row.delay \in Time \cup {None}
  BY DEF Row
<1>6. QED
  BY <1>2, <1>4, <1>5 DEF Row

\* Recovery's bookkeeping of the workflows it overlaps.
LEMMA OverlapType ==
  ASSUME TypeOK, NEW p \in Processes, NEW ids, RecoverPending(p, ids)
  PROVE  overlapped' \in [Workflows -> BOOLEAN]
<1> DEFINE o(w) == \/ overlapped[w]
                   \/ /\ w \in ClaimedBy(ids)
                      /\ rows[w].executor = IdOf[p]
                      /\ \E t \in TasksOf(w) : Holder(t) /\ IdOf[host[t]] = IdOf[p]
<1>1. \A w \in Workflows : o(w) \in BOOLEAN
  OBVIOUS
<1>2. overlapped' = [w \in Workflows |-> o(w)]
  BY DEF RecoverPending
<1> HIDE DEF o
<1>3. QED
  BY <1>1, <1>2

\* The delay a submission asks for.
LEMMA SubmitDelay ==
  ASSUME TypeOK, NEW p, NEW w, NEW r \in Requests, Submit(p, w, r)
  PROVE  (IF r.wait = None THEN None ELSE now + r.wait) \in Time \cup {None}
<1>1. r.wait \in Time \cup {None}
  BY ExecutionAssumption
<1>2. CASE r.wait = None
  BY <1>2
<1>3. CASE r.wait # None
  <2>1. now + r.wait # None => now + r.wait <= MaxTime
    BY <1>3 DEF Submit
  <2>2. now \in Nat /\ r.wait \in Nat
    BY <1>1, <1>3 DEF TypeOK, Time
  <2>3. now + r.wait \in Nat /\ (now + r.wait <= MaxTime => now + r.wait \in Time)
    BY <2>2, StoreAssumption DEF Time
  <2>4. QED
    BY <1>3, <2>1, <2>3
<1>4. QED
  BY <1>2, <1>3

\* A step promises at most one workflow something else.
LEMMA PromiseSteps ==
  TypeOK /\ [Next]_vars =>
    UNCHANGED promised \/ \E w \in Workflows, d \in Time \cup {None} : Promise(w, d)
<1> SUFFICES ASSUME TypeOK, [Next]_vars
             PROVE  UNCHANGED promised \/ \E w \in Workflows, d \in Time \cup {None} : Promise(w, d)
  OBVIOUS
<1> DEFINE Goal == UNCHANGED promised \/ \E w \in Workflows, d \in Time \cup {None} : Promise(w, d)
<1> USE DEF historyVars
<1>1. ASSUME NEW t \in Tasks, Task(t) \/ TaskFail(t) \/ Abort(t) PROVE UNCHANGED promised
  BY <1>1 DEF Task, TaskRead, TaskClaim, TaskReload, TaskStart, TaskRun, TaskLatest,
     TaskFinish, TaskFail, Abort
<1>2. ASSUME NEW p \in Processes,
             \/ Boot(p) \/ Launch(p) \/ FinishLaunch(p) \/ Shutdown(p) \/ Crash(p)
             \/ AbortSupervisor(p) \/ FinishShutdown(p)
             \/ \E ids \in SUBSET ExecutorIds : Recovery(p, ids)
             \/ Supervise(p) \/ SupervisorFail(p)
             \/ \E w \in Workflows : Delete(p, w)
      PROVE  UNCHANGED promised
  BY <1>2 DEF Boot, Launch, FinishLaunch, Shutdown, Crash, AbortSupervisor, FinishShutdown,
     Recovery, Supervise, SupervisorList, SupervisorMove, SupervisorDequeue,
     SupervisorSleep, SupervisorFail, Delete
<1>3. ASSUME NEW p \in Processes, NEW w \in Workflows, NEW r \in Requests, Submit(p, w, r)
      PROVE  Goal
  BY <1>3, SubmitDelay DEF Submit
<1>4. ASSUME NEW p \in Processes, NEW c \in Clients, NEW w \in Workflows,
             NEW kind \in {"cancel", "resume", "postpone", "fork"}, Begin(c, p, w, kind)
      PROVE  UNCHANGED promised
  BY <1>4 DEF Begin
<1>5. ASSUME NEW c \in Clients, FinishCall(c) PROVE Goal
  <2>1. call[c].kind \in {"cancel", "resume", "postpone", "fork"} => call[c].of \in Workflows
    BY DEF TypeOK, Call, NoCall
  <2>2. CASE FinishCancel(c)
    BY <2>2 DEF FinishCancel
  <2>3. ASSUME NEW q, FinishResume(c, q) PROVE Goal
    BY <2>1, <2>3 DEF FinishResume, Return
  <2>4. ASSUME NEW d \in Time, FinishPostpone(c, d) PROVE Goal
    BY <2>1, <2>4 DEF FinishPostpone, Return
  <2>5. ASSUME NEW w \in Workflows, FinishFork(c, w) PROVE Goal
    BY <2>5 DEF FinishFork
  <2>6. QED
    BY <1>5, <2>2, <2>3, <2>4, <2>5 DEF FinishCall
<1>6. CASE Tick \/ UNCHANGED vars
  BY <1>6 DEF Tick, vars
<1>7. QED
  BY <1>1, <1>2, <1>3, <1>4, <1>5, <1>6 DEF Next

\* Every step of the system preserves the types.
LEMMA TypeStep == TypeOK /\ Stages /\ [Next]_vars => TypeOK'
<1> SUFFICES ASSUME TypeOK, Stages, [Next]_vars PROVE TypeOK'
  OBVIOUS
<1> TasksTyped /\ TableTyped /\ RestTyped
  BY TypeParts
<1> PromisesTyped'
  BY PromiseSteps DEF TypeOK, PromisesTyped, Promise
<1> USE NoneDistinct, AbsentType
<1> USE DEF processVars, supervisorVars, historyVars
<1>1. ASSUME NEW t \in Tasks, TaskRead(t) PROVE TypeOK'
  <2>0. WorkflowOf(t) \in Workflows /\ rows[WorkflowOf(t)] \in Row /\ snap[t] \in Row
    BY TaskShape DEF TypeOK
  <2>1. TasksTyped'
    <3>1. CASE End({t})
      BY <3>1, EndType DEF TasksTyped
    <3>2. CASE ~End({t})
      BY <1>1, <2>0, <3>2 DEF TaskRead, TasksTyped, PCs, Goto, Keep
    <3>3. QED
      BY <3>1, <3>2
  <2>2. TableTyped'
    BY <1>1 DEF TaskRead, TableTyped
  <2>3. RestTyped'
    BY <1>1 DEF TaskRead, RestTyped
  <2>4. QED
    BY <2>1, <2>2, <2>3, TypeParts
<1>2. ASSUME NEW t \in Tasks, TaskReload(t) PROVE TypeOK'
  <2>0. WorkflowOf(t) \in Workflows /\ rows[WorkflowOf(t)] \in Row /\ snap[t] \in Row
    BY TaskShape DEF TypeOK
  <2>1. TasksTyped'
    <3>1. CASE End({t})
      BY <3>1, EndType DEF TasksTyped
    <3>2. CASE ~End({t})
      BY <1>2, <2>0, <3>2 DEF TaskReload, TasksTyped, PCs, Goto, Keep
    <3>3. QED
      BY <3>1, <3>2
  <2>2. TableTyped'
    BY <1>2 DEF TaskReload, TableTyped
  <2>3. RestTyped'
    BY <1>2 DEF TaskReload, RestTyped
  <2>4. QED
    BY <2>1, <2>2, <2>3, TypeParts
<1>3. ASSUME NEW t \in Tasks, TaskLatest(t) PROVE TypeOK'
  <2>0. WorkflowOf(t) \in Workflows /\ rows[WorkflowOf(t)] \in Row /\ snap[t] \in Row
    BY TaskShape DEF TypeOK
  <2>1. TasksTyped'
    <3>1. CASE End({t})
      BY <3>1, EndType DEF TasksTyped
    <3>2. CASE ~End({t})
      BY <1>3, <2>0, <3>2 DEF TaskLatest, TasksTyped, PCs, Goto, Keep
    <3>3. QED
      BY <3>1, <3>2
  <2>2. TableTyped'
    BY <1>3 DEF TaskLatest, TableTyped
  <2>3. RestTyped'
    BY <1>3 DEF TaskLatest, RestTyped
  <2>4. QED
    BY <2>1, <2>2, <2>3, TypeParts
<1>4. ASSUME NEW t \in Tasks, TaskClaim(t) PROVE TypeOK'
  <2>0. WorkflowOf(t) \in Workflows /\ rows[WorkflowOf(t)] \in Row /\ snap[t] \in Row
    BY TaskShape DEF TypeOK
  <2>1. TasksTyped'
    <3>1. CASE End({t})
      BY <3>1, EndType DEF TasksTyped
    <3>2. CASE ~End({t})
      BY <1>4, <3>2 DEF TaskClaim, TasksTyped, PCs, Goto, Keep
    <3>3. QED
      BY <3>1, <3>2
  <2>2. TableTyped'
    <3>1. CASE UNCHANGED <<rows, opened>>
      BY <3>1 DEF TableTyped
    <3>2. CASE Save(WorkflowOf(t), ClaimedRow(rows[WorkflowOf(t)], IdOf[host[t]], ExecutionOf(t)))
      <4>1. host[t] \in Processes
        BY <1>4 DEF TaskClaim, Stages, Live
      <4>2. IdOf[host[t]] \in ExecutorIds /\ ExecutionOf(t) \in Executions
        BY <4>1, ExecutionAssumption, TaskShape
      <4>3. QED
        BY <2>0, <3>2, <4>2, ClaimedRowType, SaveType DEF TableTyped
    <3>3. QED
      BY <1>4, <3>1, <3>2 DEF TaskClaim
  <2>3. RestTyped'
    BY <1>4 DEF TaskClaim, RestTyped
  <2>4. QED
    BY <2>1, <2>2, <2>3, TypeParts
<1>5. ASSUME NEW t \in Tasks, TaskStart(t) PROVE TypeOK'
  <2>0. WorkflowOf(t) \in Workflows /\ rows[WorkflowOf(t)] \in Row /\ snap[t] \in Row
    BY TaskShape DEF TypeOK
  <2>1. TasksTyped'
    <3>1. CASE End({t})
      BY <3>1, EndType DEF TasksTyped
    <3>2. CASE ~End({t})
      BY <1>5, <3>2 DEF TaskStart, TasksTyped, PCs, Goto, Keep
    <3>3. QED
      BY <3>1, <3>2
  <2>2. TableTyped'
    <3>1. CASE UNCHANGED <<rows, opened>>
      BY <3>1 DEF TableTyped
    <3>2. CASE Save(WorkflowOf(t), [snap[t] EXCEPT !.status = "Pending"])
      BY <2>0, <3>2, StatusType, SaveType DEF TableTyped, Unfinished
    <3>3. QED
      BY <1>5, <3>1, <3>2 DEF TaskStart
  <2>3. RestTyped'
    BY <1>5 DEF TaskStart, RestTyped
  <2>4. QED
    BY <2>1, <2>2, <2>3, TypeParts
<1>6. ASSUME NEW t \in Tasks, TaskRun(t) PROVE TypeOK'
  <2>1. TasksTyped'
    BY <1>6 DEF TaskRun, TasksTyped, PCs, Goto, Keep
  <2>2. TableTyped'
    BY <1>6 DEF TaskRun, TableTyped
  <2>3. RestTyped'
    BY <1>6 DEF TaskRun, RestTyped
  <2>4. QED
    BY <2>1, <2>2, <2>3, TypeParts
<1>7. ASSUME NEW t \in Tasks, TaskFinish(t) PROVE TypeOK'
  <2>0. WorkflowOf(t) \in Workflows /\ rows[WorkflowOf(t)] \in Row /\ snap[t] \in Row
    BY TaskShape DEF TypeOK
  <2>1. TasksTyped'
    BY <1>7, EndType DEF TaskFinish, TasksTyped
  <2>2. TableTyped'
    <3>1. PICK r \in {"Success", "Error"} : Save(WorkflowOf(t), [snap[t] EXCEPT !.status = r])
      BY <1>7 DEF TaskFinish
    <3>2. [snap[t] EXCEPT !.status = r] \in Row
      BY <2>0, StatusType DEF Terminal
    <3>3. QED
      BY <2>0, <3>1, <3>2, SaveType DEF TableTyped
  <2>3. RestTyped'
    BY <1>7 DEF TaskFinish, RestTyped
  <2>4. QED
    BY <2>1, <2>2, <2>3, TypeParts
<1>8. ASSUME NEW t \in Tasks, TaskFail(t) PROVE TypeOK'
  <2>1. TasksTyped'
    BY <1>8, EndType DEF TaskFail, TasksTyped
  <2>2. TableTyped'
    BY <1>8 DEF TaskFail, TableTyped
  <2>3. RestTyped'
    BY <1>8, SpendType DEF TaskFail, RestTyped, Kinds
  <2>4. QED
    BY <2>1, <2>2, <2>3, TypeParts
<1>9. ASSUME NEW p \in Processes, Boot(p) PROVE TypeOK'
  <2>1. TasksTyped'
    BY <1>9 DEF Boot, TasksTyped, taskVars
  <2>2. TableTyped'
    BY <1>9 DEF Boot, TableTyped
  <2>3. RestTyped'
    BY <1>9 DEF Boot, RestTyped
  <2>4. QED
    BY <2>1, <2>2, <2>3, TypeParts
<1>10. ASSUME NEW p \in Processes, Launch(p) PROVE TypeOK'
  <2>1. TasksTyped'
    BY <1>10 DEF Launch, TasksTyped, taskVars
  <2>2. TableTyped'
    BY <1>10 DEF Launch, TableTyped
  <2>3. RestTyped'
    BY <1>10 DEF Launch, RestTyped
  <2>4. QED
    BY <2>1, <2>2, <2>3, TypeParts
<1>11. ASSUME NEW p \in Processes, FinishLaunch(p) PROVE TypeOK'
  <2>1. TasksTyped'
    BY <1>11, SpawnType DEF FinishLaunch, RecoverPending, TasksTyped
  <2>2. TableTyped'
    BY <1>11 DEF FinishLaunch, TableTyped
  <2>3. RestTyped'
    <3>1. overlapped' \in [Workflows -> BOOLEAN]
      BY <1>11, OverlapType DEF FinishLaunch
    <3>2. QED
      BY <1>11, <3>1 DEF FinishLaunch, RestTyped
  <2>4. QED
    BY <2>1, <2>2, <2>3, TypeParts
<1>12. ASSUME NEW p \in Processes, NEW ids \in SUBSET ExecutorIds, Recovery(p, ids) PROVE TypeOK'
  <2>1. TasksTyped'
    BY <1>12, SpawnType DEF Recovery, RecoverPending, TasksTyped
  <2>2. TableTyped'
    BY <1>12 DEF Recovery, TableTyped
  <2>3. RestTyped'
    <3>1. overlapped' \in [Workflows -> BOOLEAN]
      BY <1>12, OverlapType DEF Recovery
    <3>2. QED
      BY <1>12, <3>1, SpendType DEF Recovery, RestTyped, Kinds
  <2>4. QED
    BY <2>1, <2>2, <2>3, TypeParts
<1>13. ASSUME NEW p \in Processes, Shutdown(p) PROVE TypeOK'
  <2>1. doomed' \in [Tasks -> BOOLEAN]
    <3> DEFINE d(t) == doomed[t] \/ t \in TasksIn(p)
    <3>1. \A t \in Tasks : d(t) \in BOOLEAN
      OBVIOUS
    <3>2. doomed' = [t \in Tasks |-> d(t)]
      BY <1>13 DEF Shutdown
    <3> HIDE DEF d
    <3>3. QED
      BY <3>1, <3>2
  <2>2. TasksTyped'
    BY <1>13, <2>1 DEF Shutdown, TasksTyped
  <2>3. TableTyped'
    BY <1>13 DEF Shutdown, TableTyped
  <2>4. RestTyped'
    BY <1>13, SpendType DEF Shutdown, RestTyped, Kinds
  <2>5. QED
    BY <2>2, <2>3, <2>4, TypeParts
<1>14. ASSUME NEW t \in Tasks, Abort(t) PROVE TypeOK'
  <2>1. TasksTyped'
    BY <1>14, EndType DEF Abort, TasksTyped
  <2>2. TableTyped'
    BY <1>14 DEF Abort, TableTyped
  <2>3. RestTyped'
    BY <1>14 DEF Abort, RestTyped
  <2>4. QED
    BY <2>1, <2>2, <2>3, TypeParts
<1>15. ASSUME NEW p \in Processes, AbortSupervisor(p) PROVE TypeOK'
  <2>1. TasksTyped'
    BY <1>15 DEF AbortSupervisor, TasksTyped, taskVars
  <2>2. TableTyped'
    BY <1>15 DEF AbortSupervisor, TableTyped
  <2>3. RestTyped'
    BY <1>15 DEF AbortSupervisor, SupervisorStops, RestTyped
  <2>4. QED
    BY <2>1, <2>2, <2>3, TypeParts
<1>16. ASSUME NEW p \in Processes, FinishShutdown(p) PROVE TypeOK'
  <2>1. TasksTyped'
    BY <1>16 DEF FinishShutdown, TasksTyped, taskVars
  <2>2. TableTyped'
    BY <1>16 DEF FinishShutdown, TableTyped
  <2>3. RestTyped'
    BY <1>16 DEF FinishShutdown, RestTyped
  <2>4. QED
    BY <2>1, <2>2, <2>3, TypeParts
<1>17. ASSUME NEW p \in Processes, Crash(p) PROVE TypeOK'
  <2>1. TasksTyped'
    BY <1>17, EndType DEF Crash, SupervisorStops, TasksTyped
  <2>2. TableTyped'
    BY <1>17 DEF Crash, TableTyped
  <2>3. RestTyped'
    <3>1. call' \in [Clients -> Call]
      BY <1>17 DEF Crash, RestTyped, Call, NoCall
    <3>2. QED
      BY <1>17, <3>1, SpendType DEF Crash, SupervisorStops, RestTyped, Kinds
  <2>4. QED
    BY <2>1, <2>2, <2>3, TypeParts
<1>18. ASSUME NEW p \in Processes, SupervisorList(p) PROVE TypeOK'
  <2>1. TasksTyped'
    BY <1>18 DEF SupervisorList, TasksTyped, taskVars
  <2>2. TableTyped'
    BY <1>18 DEF SupervisorList, TableTyped
  <2>3. RestTyped'
    <3>1. Polled[p] \in SUBSET Queues
      BY ExecutionAssumption
    <3>2. unpolled' \in [Processes -> SUBSET Queues]
      BY <1>18, <3>1 DEF SupervisorList, RestTyped
    <3>3. moving' \in [Processes -> SUBSET (Workflows \X Row)]
      BY <1>18 DEF SupervisorList, RestTyped, TableTyped
    <3>4. QED
      BY <1>18, <3>2, <3>3 DEF SupervisorList, RestTyped
  <2>4. QED
    BY <2>1, <2>2, <2>3, TypeParts
<1>19. ASSUME NEW p \in Processes, SupervisorMove(p) PROVE TypeOK'
  <2>1. TasksTyped'
    BY <1>19 DEF SupervisorMove, TasksTyped, taskVars
  <2>2. TableTyped'
    <3>1. PICK m \in moving[p] : Save(m[1], [m[2] EXCEPT !.status = "Enqueued"])
      BY <1>19 DEF SupervisorMove
    <3>2. m[1] \in Workflows /\ m[2] \in Row
      BY <3>1 DEF RestTyped
    <3>3. QED
      BY <3>1, <3>2, StatusType, SaveType DEF TableTyped, Unfinished
  <2>3. RestTyped'
    BY <1>19 DEF SupervisorMove, RestTyped
  <2>4. QED
    BY <2>1, <2>2, <2>3, TypeParts
<1>20. ASSUME NEW p \in Processes, SupervisorDequeue(p) PROVE TypeOK'
  <2>1. TasksTyped'
    BY <1>20, SpawnType DEF SupervisorDequeue, TasksTyped
  <2>2. TableTyped'
    BY <1>20 DEF SupervisorDequeue, TableTyped
  <2>3. RestTyped'
    BY <1>20 DEF SupervisorDequeue, RestTyped
  <2>4. QED
    BY <2>1, <2>2, <2>3, TypeParts
<1>21. ASSUME NEW p \in Processes, SupervisorSleep(p) PROVE TypeOK'
  <2>1. TasksTyped'
    BY <1>21 DEF SupervisorSleep, TasksTyped, taskVars
  <2>2. TableTyped'
    BY <1>21 DEF SupervisorSleep, TableTyped
  <2>3. RestTyped'
    BY <1>21 DEF SupervisorSleep, RestTyped
  <2>4. QED
    BY <2>1, <2>2, <2>3, TypeParts
<1>22. ASSUME NEW p \in Processes, SupervisorFail(p) PROVE TypeOK'
  <2>1. TasksTyped'
    BY <1>22 DEF SupervisorFail, TasksTyped, taskVars
  <2>2. TableTyped'
    BY <1>22 DEF SupervisorFail, TableTyped
  <2>3. RestTyped'
    BY <1>22, SpendType DEF SupervisorFail, RestTyped, Kinds
  <2>4. QED
    BY <2>1, <2>2, <2>3, TypeParts
<1>23. ASSUME NEW p \in Processes, NEW w \in Workflows, Delete(p, w) PROVE TypeOK'
  <2>1. TasksTyped'
    BY <1>23 DEF Delete, TasksTyped, taskVars
  <2>2. TableTyped'
    BY <1>23, SaveType DEF Delete, TableTyped
  <2>3. RestTyped'
    BY <1>23, SpendType DEF Delete, RestTyped, Kinds
  <2>4. QED
    BY <2>1, <2>2, <2>3, TypeParts
<1>24. ASSUME NEW p \in Processes, NEW w \in Workflows, NEW r \in Requests, Submit(p, w, r) PROVE TypeOK'
  <2>1. TasksTyped'
    <3>1. CASE UNCHANGED taskVars
      BY <3>1 DEF TasksTyped, taskVars
    <3>2. CASE Spawn(p, {w}, {})
      BY <3>2, SpawnType DEF TasksTyped
    <3>3. QED
      BY <1>24, <3>1, <3>2 DEF Submit
  <2>2. TableTyped'
    <3> DEFINE delay == IF r.wait = None THEN None ELSE now + r.wait
               row == NewRow(r.name, r.queue, r.dedup, delay)
    <3>1. /\ r.name \in Names /\ r.queue \in Queues \cup {None}
          /\ r.dedup \in DedupIds \cup {None} /\ r.wait \in Time \cup {None}
      BY ExecutionAssumption
    <3>2. delay \in Time \cup {None}
      BY <1>24, <3>1, StoreAssumption DEF Submit, RestTyped, Time
    <3>3. row \in Row
      BY <3>1, <3>2, NewRowType
    <3>4. Save(w, row) \/ UNCHANGED <<rows, opened>>
      BY <1>24 DEF Submit
    <3>5. QED
      BY <3>3, <3>4, SaveType DEF TableTyped
  <2>3. RestTyped'
    BY <1>24, SpendType DEF Submit, RestTyped, Kinds
  <2>4. QED
    BY <2>1, <2>2, <2>3, TypeParts
<1>25. ASSUME NEW p \in Processes, NEW c \in Clients, NEW w \in Workflows,
             NEW kind \in {"cancel", "resume", "postpone", "fork"}, Begin(c, p, w, kind) PROVE TypeOK'
  <2>1. TasksTyped'
    BY <1>25 DEF Begin, TasksTyped, taskVars
  <2>2. TableTyped'
    BY <1>25 DEF Begin, TableTyped
  <2>3. RestTyped'
    <3>1. left' \in [Kinds -> Nat]
      BY <1>25, SpendType DEF Begin, Kinds
    <3>2. [kind |-> kind, at |-> p, of |-> w, row |-> rows[w]] \in Call
      BY DEF Call, TableTyped
    <3>3. call' \in [Clients -> Call]
      BY <1>25, <3>2 DEF Begin, RestTyped
    <3>4. QED
      BY <1>25, <3>1, <3>3 DEF Begin, RestTyped
  <2>4. QED
    BY <2>1, <2>2, <2>3, TypeParts
<1>26. ASSUME NEW c \in Clients, FinishCancel(c) PROVE TypeOK'
  <2>0. /\ call' \in [Clients -> Call] /\ call[c].row \in Row
        /\ call[c].of \in Workflows /\ call[c].at \in Processes
    <3>1. Return(c, "cancel")
      BY <1>26 DEF FinishCancel
    <3>2. QED
      BY <3>1, CallType
  <2>1. TasksTyped'
    BY <1>26 DEF FinishCancel, TasksTyped, taskVars
  <2>2. TableTyped'
    BY <1>26, <2>0, StatusType, SaveType DEF FinishCancel, TableTyped, Terminal
  <2>3. RestTyped'
    BY <1>26, <2>0 DEF FinishCancel, RestTyped
  <2>4. QED
    BY <2>1, <2>2, <2>3, TypeParts
<1>27. ASSUME NEW c \in Clients, NEW q \in Queues \cup {None}, FinishResume(c, q) PROVE TypeOK'
  <2>0. /\ call' \in [Clients -> Call] /\ call[c].row \in Row
        /\ call[c].of \in Workflows /\ call[c].at \in Processes
    <3>1. Return(c, "resume")
      BY <1>27 DEF FinishResume
    <3>2. QED
      BY <3>1, CallType
  <2>1. TasksTyped'
    <3>1. CASE UNCHANGED taskVars
      BY <3>1 DEF TasksTyped, taskVars
    <3>2. CASE Spawn(call[c].at, {call[c].of}, {})
      BY <2>0, <3>2, SpawnType DEF TasksTyped
    <3>3. QED
      BY <1>27, <3>1, <3>2 DEF FinishResume
  <2>2. TableTyped'
    BY <1>27, <2>0, ReopenType, SaveType DEF FinishResume, TableTyped
  <2>3. RestTyped'
    BY <1>27, <2>0 DEF FinishResume, RestTyped
  <2>4. QED
    BY <2>1, <2>2, <2>3, TypeParts
<1>28. ASSUME NEW c \in Clients, NEW d \in Time, FinishPostpone(c, d) PROVE TypeOK'
  <2>0. /\ call' \in [Clients -> Call] /\ call[c].row \in Row
        /\ call[c].of \in Workflows /\ call[c].at \in Processes
    <3>1. Return(c, "postpone")
      BY <1>28 DEF FinishPostpone
    <3>2. QED
      BY <3>1, CallType
  <2>1. TasksTyped'
    BY <1>28 DEF FinishPostpone, TasksTyped, taskVars
  <2>2. TableTyped'
    <3>1. [call[c].row EXCEPT !.delay = d] \in Row
      BY <2>0, DelayType
    <3>2. QED
      BY <1>28, <2>0, <3>1, SaveType DEF FinishPostpone, TableTyped
  <2>3. RestTyped'
    BY <1>28, <2>0 DEF FinishPostpone, RestTyped
  <2>4. QED
    BY <2>1, <2>2, <2>3, TypeParts
<1>29. ASSUME NEW c \in Clients, NEW w \in Workflows, FinishFork(c, w) PROVE TypeOK'
  <2>0. /\ call' \in [Clients -> Call] /\ call[c].row \in Row
        /\ call[c].of \in Workflows /\ call[c].at \in Processes
    <3>1. Return(c, "fork")
      BY <1>29 DEF FinishFork
    <3>2. QED
      BY <3>1, CallType
  <2>1. TasksTyped'
    <3>1. CASE UNCHANGED taskVars
      BY <3>1 DEF TasksTyped, taskVars
    <3>2. CASE Spawn(call[c].at, {w}, {})
      BY <2>0, <3>2, SpawnType DEF TasksTyped
    <3>3. QED
      BY <1>29, <3>1, <3>2 DEF FinishFork
  <2>2. TableTyped'
    BY <1>29, <2>0, ReopenType, SaveType DEF FinishFork, TableTyped
  <2>3. RestTyped'
    BY <1>29, <2>0 DEF FinishFork, RestTyped
  <2>4. QED
    BY <2>1, <2>2, <2>3, TypeParts
<1>30. ASSUME Tick PROVE TypeOK'
  <2>1. TasksTyped'
    BY <1>30 DEF Tick, TasksTyped, taskVars
  <2>2. TableTyped'
    BY <1>30 DEF Tick, TableTyped
  <2>3. RestTyped'
    BY <1>30, StoreAssumption DEF Tick, RestTyped, Time
  <2>4. QED
    BY <2>1, <2>2, <2>3, TypeParts
<1>31. CASE UNCHANGED vars
  BY <1>31 DEF vars, TypeOK
<1>32. QED
  BY <1>1, <1>2, <1>3, <1>4, <1>5, <1>6, <1>7, <1>8, <1>9, <1>10, <1>11,
     <1>12, <1>13, <1>14, <1>15, <1>16, <1>17, <1>18, <1>19, <1>20, <1>21,
     <1>22, <1>23, <1>24, <1>25, <1>26, <1>27, <1>28, <1>29, <1>30, <1>31
     DEF Next, Task, Supervise, FinishCall
-----------------------------------------------------------------------------
(* What a step may do, in the terms of the invariants.                     *)

\* The store grants t the claim it asks for.
Grant(t) ==
  /\ Claimable(rows[WorkflowOf(t)])
  /\ Save(WorkflowOf(t), ClaimedRow(rows[WorkflowOf(t)], IdOf[host[t]], ExecutionOf(t)))
  /\ claimed' = [claimed EXCEPT ![t] = TRUE]
  /\ Goto(t, "claim", "reload")
  /\ UNCHANGED <<host, recovered, overlapped>>

\* t goes on: to the claim, through the gate by taking over, or after the gate.
Advance(t) ==
  /\ \/ Goto(t, "read", "claim")
     \/ Goto(t, "read", "start") /\ TakesOver(t, rows[WorkflowOf(t)])
     \/ Goto(t, "reload", "start") \/ Goto(t, "start", "run")
     \/ Goto(t, "run", "latest") \/ Goto(t, "latest", "finish")
  /\ UNCHANGED <<host, recovered, claimed>>

\* Tasks move without a claim or a recovery, and the table is written.
Quiet ==
  /\ \/ UNCHANGED <<pc, host, recovered, claimed>>
     \/ \E ts : End(ts)
     \/ \E p \in Processes : \E ws : Spawn(p, ws, {})
     \/ \E t \in Tasks : Advance(t)
  /\ \/ UNCHANGED <<rows, opened>>
     \/ \E w \in Workflows, row \in Row : Save(w, row) /\ Known(w, row.executor)
  /\ UNCHANGED overlapped

Recover ==
  /\ \E p \in Processes, ids \in SUBSET ExecutorIds : RecoverPending(p, ids)
  /\ UNCHANGED <<rows, opened>>

\* Rows held by tasks, supervisors and calls are copies of rows in the table.
Copies ==
  /\ \A t \in Tasks : snap'[t] \in {snap[t], Absent, rows[WorkflowOf(t)]}
  /\ \A p \in Processes :
        moving'[p] \subseteq moving[p] \cup {<<w, rows[w]>> : w \in Workflows}
  /\ \A c \in Clients :
        \/ call'[c] \in {call[c], NoCall}
        \/ \E w \in Workflows : call'[c].of = w /\ call'[c].row = rows[w]

Shaped == Copies /\ ((\E t \in Tasks : Grant(t)) \/ Recover \/ Quiet)

\* A task that reads its row, keeps what it has, or ends holds only copies.
LEMMA TaskCopies ==
  ASSUME TypeOK, NEW t \in Tasks, UNCHANGED <<moving, call>>,
         snap' = snap \/ Keep(t, rows[WorkflowOf(t)]) \/ End({t})
  PROVE  Copies
<1>1. snap \in [Tasks -> Row]
  BY DEF TypeOK
<1>2. ASSUME NEW u \in Tasks PROVE snap'[u] \in {snap[u], Absent, rows[WorkflowOf(u)]}
  <2>1. CASE snap' = snap
    BY <2>1
  <2>2. CASE Keep(t, rows[WorkflowOf(t)])
    BY <1>1, <2>2 DEF Keep
  <2>3. CASE End({t})
    BY <2>3 DEF End
  <2>4. QED
    BY <2>1, <2>2, <2>3
<1>3. QED
  BY <1>2 DEF Copies

\* Every step is a grant, a recovery, or a quiet step, and holds only copies.
LEMMA StepShape == TypeOK /\ ExecutorsKnown /\ [Next]_vars => Shaped
<1> SUFFICES ASSUME TypeOK, ExecutorsKnown, [Next]_vars PROVE Shaped
  OBVIOUS
<1> USE AbsentType, TaskShape
<1> USE DEF processVars, supervisorVars, historyVars, taskVars
<1>1. ASSUME NEW t \in Tasks, TaskRead(t) PROVE Shaped
  <2>1. Quiet
    BY <1>1 DEF TaskRead, Quiet, Advance
  <2>2. Copies
    <3>1. /\ UNCHANGED <<moving, call>>
          /\ snap' = snap \/ Keep(t, rows[WorkflowOf(t)]) \/ End({t})
      BY <1>1 DEF TaskRead
    <3>2. QED
      BY <3>1, TaskCopies
  <2>3. QED
    BY <2>1, <2>2 DEF Shaped
<1>2. ASSUME NEW t \in Tasks, TaskReload(t) PROVE Shaped
  <2>1. Quiet
    BY <1>2 DEF TaskReload, Quiet, Advance
  <2>2. Copies
    <3>1. /\ UNCHANGED <<moving, call>>
          /\ snap' = snap \/ Keep(t, rows[WorkflowOf(t)]) \/ End({t})
      BY <1>2 DEF TaskReload
    <3>2. QED
      BY <3>1, TaskCopies
  <2>3. QED
    BY <2>1, <2>2 DEF Shaped
<1>3. ASSUME NEW t \in Tasks, TaskLatest(t) PROVE Shaped
  <2>1. Quiet
    BY <1>3 DEF TaskLatest, Quiet, Advance
  <2>2. Copies
    <3>1. /\ UNCHANGED <<moving, call>>
          /\ snap' = snap \/ Keep(t, rows[WorkflowOf(t)]) \/ End({t})
      BY <1>3 DEF TaskLatest
    <3>2. QED
      BY <3>1, TaskCopies
  <2>3. QED
    BY <2>1, <2>2 DEF Shaped
<1>4. ASSUME NEW t \in Tasks, TaskClaim(t) PROVE Shaped
  <2>1. Grant(t) \/ Quiet
    BY <1>4 DEF TaskClaim, Quiet, Grant
  <2>2. Copies
    <3>1. /\ UNCHANGED <<moving, call>>
          /\ snap' = snap \/ Keep(t, rows[WorkflowOf(t)]) \/ End({t})
      BY <1>4 DEF TaskClaim
    <3>2. QED
      BY <3>1, TaskCopies
  <2>3. QED
    BY <2>1, <2>2 DEF Shaped
<1>5. ASSUME NEW t \in Tasks, TaskStart(t) PROVE Shaped
  <2>1. Quiet
    <3>1. [snap[t] EXCEPT !.status = "Pending"] \in Row
      /\ [snap[t] EXCEPT !.status = "Pending"].executor = snap[t].executor
      BY StatusType DEF TypeOK, Unfinished
    <3>2. Known(WorkflowOf(t), snap[t].executor)
      BY DEF ExecutorsKnown
    <3>3. CASE snap[t].name \in Handles[host[t]]
      <4>1. /\ Save(WorkflowOf(t), [snap[t] EXCEPT !.status = "Pending"])
            /\ Advance(t)
            /\ UNCHANGED overlapped
        BY <1>5, <3>3 DEF TaskStart, Advance
      <4>2. QED
        BY <3>1, <3>2, <4>1 DEF Quiet
    <3>4. CASE snap[t].name \notin Handles[host[t]]
      <4>1. End({t}) /\ UNCHANGED <<rows, opened, overlapped>>
        BY <1>5, <3>4 DEF TaskStart
      <4>2. QED
        BY <4>1, Zenon DEF Quiet
    <3>5. QED
      BY <3>3, <3>4
  <2>2. Copies
    <3>1. /\ UNCHANGED <<moving, call>>
          /\ snap' = snap \/ Keep(t, rows[WorkflowOf(t)]) \/ End({t})
      BY <1>5 DEF TaskStart
    <3>2. QED
      BY <3>1, TaskCopies
  <2>3. QED
    BY <2>1, <2>2 DEF Shaped
<1>6. ASSUME NEW t \in Tasks, TaskRun(t) PROVE Shaped
  <2>1. Quiet
    BY <1>6 DEF TaskRun, Quiet, Advance
  <2>2. Copies
    BY <1>6 DEF TaskRun, Copies, TypeOK
  <2>3. QED
    BY <2>1, <2>2 DEF Shaped
<1>7. ASSUME NEW t \in Tasks, TaskFinish(t) PROVE Shaped
  <2>1. Quiet
    <3>1. PICK r \in {"Success", "Error"} :
              Save(WorkflowOf(t), [snap[t] EXCEPT !.status = r])
      BY <1>7 DEF TaskFinish
    <3>2. [snap[t] EXCEPT !.status = r] \in Row
      /\ [snap[t] EXCEPT !.status = r].executor = snap[t].executor
      BY StatusType DEF TypeOK, Terminal
    <3>3. Known(WorkflowOf(t), snap[t].executor)
      BY DEF ExecutorsKnown
    <3>4. QED
      BY <1>7, <3>1, <3>2, <3>3 DEF TaskFinish, Quiet
  <2>2. Copies
    BY <1>7 DEF TaskFinish, Copies, TypeOK, End
  <2>3. QED
    BY <2>1, <2>2 DEF Shaped
<1>8. ASSUME NEW t \in Tasks, TaskFail(t) PROVE Shaped
  <2>1. Quiet
    BY <1>8 DEF TaskFail, Quiet
  <2>2. Copies
    BY <1>8 DEF TaskFail, Copies, TypeOK, End
  <2>3. QED
    BY <2>1, <2>2 DEF Shaped
<1>9. ASSUME NEW p \in Processes, Boot(p) PROVE Shaped
  <2>1. Quiet
    BY <1>9 DEF Boot, Quiet
  <2>2. Copies
    BY <1>9 DEF Boot, Copies, TypeOK
  <2>3. QED
    BY <2>1, <2>2 DEF Shaped
<1>10. ASSUME NEW p \in Processes, Launch(p) PROVE Shaped
  <2>1. Quiet
    BY <1>10 DEF Launch, Quiet
  <2>2. Copies
    BY <1>10 DEF Launch, Copies, TypeOK
  <2>3. QED
    BY <2>1, <2>2 DEF Shaped
<1>11. ASSUME NEW p \in Processes, FinishLaunch(p) PROVE Shaped
  <2>1. Recover
    <3>1. {IdOf[p]} \in SUBSET ExecutorIds
      BY ExecutionAssumption
    <3>2. QED
      BY <1>11, <3>1 DEF FinishLaunch, Recover
  <2>2. Copies
    BY <1>11 DEF FinishLaunch, Copies, TypeOK, RecoverPending, Spawn
  <2>3. QED
    BY <2>1, <2>2 DEF Shaped
<1>12. ASSUME NEW p \in Processes, NEW ids \in SUBSET ExecutorIds, Recovery(p, ids) PROVE Shaped
  <2>1. Recover
    BY <1>12 DEF Recovery, Recover
  <2>2. Copies
    BY <1>12 DEF Recovery, Copies, TypeOK, RecoverPending, Spawn
  <2>3. QED
    BY <2>1, <2>2 DEF Shaped
<1>13. ASSUME NEW p \in Processes, Shutdown(p) PROVE Shaped
  <2>1. Quiet
    BY <1>13 DEF Shutdown, Quiet
  <2>2. Copies
    BY <1>13 DEF Shutdown, Copies, TypeOK
  <2>3. QED
    BY <2>1, <2>2 DEF Shaped
<1>14. ASSUME NEW t \in Tasks, Abort(t) PROVE Shaped
  <2>1. Quiet
    BY <1>14 DEF Abort, Quiet
  <2>2. Copies
    BY <1>14 DEF Abort, Copies, TypeOK, End
  <2>3. QED
    BY <2>1, <2>2 DEF Shaped
<1>15. ASSUME NEW p \in Processes, AbortSupervisor(p) PROVE Shaped
  <2>1. Quiet
    BY <1>15 DEF AbortSupervisor, Quiet
  <2>2. Copies
    BY <1>15 DEF AbortSupervisor, Copies, TypeOK, SupervisorStops
  <2>3. QED
    BY <2>1, <2>2 DEF Shaped
<1>16. ASSUME NEW p \in Processes, FinishShutdown(p) PROVE Shaped
  <2>1. Quiet
    BY <1>16 DEF FinishShutdown, Quiet
  <2>2. Copies
    BY <1>16 DEF FinishShutdown, Copies, TypeOK
  <2>3. QED
    BY <2>1, <2>2 DEF Shaped
<1>17. ASSUME NEW p \in Processes, Crash(p) PROVE Shaped
  <2>1. Quiet
    BY <1>17 DEF Crash, SupervisorStops, Quiet
  <2>2. Copies
    BY <1>17 DEF Crash, Copies, TypeOK, SupervisorStops, End
  <2>3. QED
    BY <2>1, <2>2 DEF Shaped
<1>18. ASSUME NEW p \in Processes, SupervisorList(p) PROVE Shaped
  <2>1. Quiet
    BY <1>18 DEF SupervisorList, Quiet
  <2>2. Copies
    BY <1>18 DEF SupervisorList, Copies, TypeOK
  <2>3. QED
    BY <2>1, <2>2 DEF Shaped
<1>19. ASSUME NEW p \in Processes, SupervisorMove(p) PROVE Shaped
  <2>1. Quiet
    <3>1. PICK m \in moving[p] : Save(m[1], [m[2] EXCEPT !.status = "Enqueued"])
      BY <1>19 DEF SupervisorMove
    <3>2. m[1] \in Workflows /\ m[2] \in Row
      BY <3>1 DEF TypeOK
    <3>3. [m[2] EXCEPT !.status = "Enqueued"] \in Row
      /\ [m[2] EXCEPT !.status = "Enqueued"].executor = m[2].executor
      BY <3>2, StatusType DEF Unfinished
    <3>4. Known(m[1], m[2].executor)
      BY <3>1 DEF ExecutorsKnown
    <3>5. QED
      BY <1>19, <3>1, <3>2, <3>3, <3>4 DEF SupervisorMove, Quiet
  <2>2. Copies
    BY <1>19 DEF SupervisorMove, Copies, TypeOK
  <2>3. QED
    BY <2>1, <2>2 DEF Shaped
<1>20. ASSUME NEW p \in Processes, SupervisorDequeue(p) PROVE Shaped
  <2>1. Quiet
    BY <1>20 DEF SupervisorDequeue, Quiet
  <2>2. Copies
    BY <1>20 DEF SupervisorDequeue, Copies, TypeOK, Spawn
  <2>3. QED
    BY <2>1, <2>2 DEF Shaped
<1>21. ASSUME NEW p \in Processes, SupervisorSleep(p) PROVE Shaped
  <2>1. Quiet
    BY <1>21 DEF SupervisorSleep, Quiet
  <2>2. Copies
    BY <1>21 DEF SupervisorSleep, Copies, TypeOK
  <2>3. QED
    BY <2>1, <2>2 DEF Shaped
<1>22. ASSUME NEW p \in Processes, SupervisorFail(p) PROVE Shaped
  <2>1. Quiet
    BY <1>22 DEF SupervisorFail, Quiet
  <2>2. Copies
    BY <1>22 DEF SupervisorFail, Copies, TypeOK
  <2>3. QED
    BY <2>1, <2>2 DEF Shaped
<1>23. ASSUME NEW p \in Processes, NEW w \in Workflows, Delete(p, w) PROVE Shaped
  <2>1. Quiet
    BY <1>23 DEF Delete, Quiet, Known, Absent
  <2>2. Copies
    BY <1>23 DEF Delete, Copies, TypeOK
  <2>3. QED
    BY <2>1, <2>2 DEF Shaped
<1>24. ASSUME NEW p \in Processes, NEW w \in Workflows, NEW r \in Requests, Submit(p, w, r) PROVE Shaped
  <2>1. Quiet
    <3> DEFINE delay == IF r.wait = None THEN None ELSE now + r.wait
               row == NewRow(r.name, r.queue, r.dedup, delay)
    <3>1. /\ r.name \in Names /\ r.queue \in Queues \cup {None}
          /\ r.dedup \in DedupIds \cup {None} /\ r.wait \in Time \cup {None}
      BY ExecutionAssumption
    <3>2. delay \in Time \cup {None}
      BY <1>24, <3>1, StoreAssumption DEF Submit, TypeOK, Time
    <3>3. row \in Row /\ row.executor = None
      BY <3>1, <3>2, NewRowType
    <3>4. Save(w, row) \/ UNCHANGED <<rows, opened>>
      BY <1>24 DEF Submit
    <3>5. Spawn(p, {w}, {}) \/ UNCHANGED taskVars
      BY <1>24 DEF Submit
    <3>6. UNCHANGED overlapped
      BY <1>24 DEF Submit
    <3> HIDE DEF row
    <3>7. Known(w, row.executor)
      BY <3>3 DEF Known
    <3>8. QED
      BY <3>3, <3>4, <3>5, <3>6, <3>7 DEF Quiet
  <2>2. Copies
    <3>1. UNCHANGED <<snap, moving, call>>
      BY <1>24 DEF Submit, Spawn
    <3>2. QED
      BY <3>1 DEF Copies
  <2>3. QED
    BY <2>1, <2>2 DEF Shaped
<1>25. ASSUME NEW p \in Processes, NEW c \in Clients, NEW w \in Workflows,
             NEW kind \in {"cancel", "resume", "postpone", "fork"}, Begin(c, p, w, kind) PROVE Shaped
  <2>1. Quiet
    BY <1>25 DEF Begin, Quiet
  <2>2. Copies
    BY <1>25 DEF Begin, Copies, TypeOK
  <2>3. QED
    BY <2>1, <2>2 DEF Shaped
<1>26. ASSUME NEW c \in Clients, FinishCancel(c) PROVE Shaped
  <2>1. Quiet
    <3>1. Return(c, "cancel")
      BY <1>26 DEF FinishCancel
    <3>2. call[c].row \in Row /\ call[c].of \in Workflows /\ call[c].at \in Processes
      BY <3>1, CallType
    <3>3. [call[c].row EXCEPT !.status = "Cancelled"] \in Row
      /\ [call[c].row EXCEPT !.status = "Cancelled"].executor \in {call[c].row.executor, None}
      BY <3>2, StatusType DEF Terminal
    <3>4. Known(call[c].of, call[c].row.executor)
      BY <3>2 DEF ExecutorsKnown
    <3>5. Known(call[c].of, [call[c].row EXCEPT !.status = "Cancelled"].executor)
      BY <3>3, <3>4 DEF Known
    <3>6. QED
      BY <1>26, <3>2, <3>3, <3>5 DEF FinishCancel, Quiet
  <2>2. Copies
    BY <1>26 DEF FinishCancel, Copies, TypeOK, Return
  <2>3. QED
    BY <2>1, <2>2 DEF Shaped
<1>27. ASSUME NEW c \in Clients, NEW q \in Queues \cup {None}, FinishResume(c, q) PROVE Shaped
  <2>1. Quiet
    <3>1. Return(c, "resume")
      BY <1>27 DEF FinishResume
    <3>2. call[c].row \in Row /\ call[c].of \in Workflows /\ call[c].at \in Processes
      BY <3>1, CallType
    <3>3. Reopened(call[c].row, q) \in Row
      /\ Reopened(call[c].row, q).executor \in {call[c].row.executor, None}
      BY <3>2, ReopenType
    <3>4. Known(call[c].of, call[c].row.executor)
      BY <3>2 DEF ExecutorsKnown
    <3>5. Known(call[c].of, Reopened(call[c].row, q).executor)
      BY <3>3, <3>4 DEF Known
    <3>6. QED
      BY <1>27, <3>2, <3>3, <3>5 DEF FinishResume, Quiet
  <2>2. Copies
    BY <1>27 DEF FinishResume, Copies, TypeOK, Return, Spawn
  <2>3. QED
    BY <2>1, <2>2 DEF Shaped
<1>28. ASSUME NEW c \in Clients, NEW d \in Time, FinishPostpone(c, d) PROVE Shaped
  <2>1. Quiet
    <3>1. Return(c, "postpone")
      BY <1>28 DEF FinishPostpone
    <3>2. call[c].row \in Row /\ call[c].of \in Workflows /\ call[c].at \in Processes
      BY <3>1, CallType
    <3>3. [call[c].row EXCEPT !.delay = d] \in Row
      /\ [call[c].row EXCEPT !.delay = d].executor \in {call[c].row.executor, None}
      BY <3>2, DelayType
    <3>4. Known(call[c].of, call[c].row.executor)
      BY <3>2 DEF ExecutorsKnown
    <3>5. Known(call[c].of, [call[c].row EXCEPT !.delay = d].executor)
      BY <3>3, <3>4 DEF Known
    <3>6. QED
      BY <1>28, <3>2, <3>3, <3>5 DEF FinishPostpone, Quiet
  <2>2. Copies
    BY <1>28 DEF FinishPostpone, Copies, TypeOK, Return
  <2>3. QED
    BY <2>1, <2>2 DEF Shaped
<1>29. ASSUME NEW c \in Clients, NEW w \in Workflows, FinishFork(c, w) PROVE Shaped
  <2>1. Quiet
    <3>1. Return(c, "fork")
      BY <1>29 DEF FinishFork
    <3>2. call[c].row \in Row /\ call[c].at \in Processes
      BY <3>1, CallType
    <3>3. /\ Reopened(call[c].row, None) \in Row
          /\ Known(w, Reopened(call[c].row, None).executor)
      BY <3>2, ReopenType DEF Known
    <3>4. QED
      BY <1>29, <3>2, <3>3 DEF FinishFork, Quiet
  <2>2. Copies
    BY <1>29 DEF FinishFork, Copies, TypeOK, Return, Spawn
  <2>3. QED
    BY <2>1, <2>2 DEF Shaped
<1>30. ASSUME Tick PROVE Shaped
  <2>1. Quiet
    BY <1>30 DEF Tick, Quiet
  <2>2. Copies
    BY <1>30 DEF Tick, Copies, TypeOK
  <2>3. QED
    BY <2>1, <2>2 DEF Shaped
<1>31. ASSUME UNCHANGED vars PROVE Shaped
  <2>1. Quiet
    BY <1>31 DEF vars, Quiet
  <2>2. Copies
    BY <1>31 DEF vars, Copies
  <2>3. QED
    BY <2>1, <2>2 DEF Shaped
<1>32. QED
  BY <1>1, <1>2, <1>3, <1>4, <1>5, <1>6, <1>7, <1>8, <1>9, <1>10, <1>11,
     <1>12, <1>13, <1>14, <1>15, <1>16, <1>17, <1>18, <1>19, <1>20, <1>21,
     <1>22, <1>23, <1>24, <1>25, <1>26, <1>27, <1>28, <1>29, <1>30, <1>31
     DEF Next, Task, Supervise, FinishCall

-----------------------------------------------------------------------------
(* Claims are granted and never taken back.                                *)

\* A spawn takes only free tasks, of the workflows it is given, one for each.
LEMMA SpawnTakes ==
  ASSUME NEW p \in Processes, NEW ws, NEW again, Spawn(p, ws, again),
         NEW t \in Tasks, t \in {FreeTask(w) : w \in ws}
  PROVE  /\ pc[t] = "free" /\ t = FreeTask(WorkflowOf(t)) /\ WorkflowOf(t) \in ws
         /\ host'[t] = p /\ (recovered'[t] <=> WorkflowOf(t) \in again)
<1>1. PICK w \in ws : t = FreeTask(w)
  OBVIOUS
<1>2. t \in TasksOf(w) /\ pc[t] = "free"
  BY <1>1, FreeTaskExists DEF Spawn
<1>3. WorkflowOf(t) = w
  BY <1>2 DEF TasksOf
<1>4. host'[t] = p /\ (recovered'[t] <=> WorkflowOf(t) \in again)
  BY Zenon DEF Spawn
<1>5. QED
  BY <1>1, <1>2, <1>3, <1>4

\* A claimed task stays claimed, by the same process.
LEMMA ClaimsKept ==
  ASSUME TypeOK, Stages, Shaped, NEW t \in Tasks, claimed[t]
  PROVE  claimed'[t] /\ host'[t] = host[t]
<1>1. ASSUME NEW u \in Tasks, Grant(u) PROVE claimed'[t] /\ host'[t] = host[t]
  BY <1>1 DEF Grant, TypeOK
<1>2. ASSUME NEW ts, End(ts) PROVE claimed'[t] /\ host'[t] = host[t]
  BY <1>2 DEF End, TypeOK
<1>3. ASSUME NEW p \in Processes, NEW ws, NEW again, Spawn(p, ws, again)
      PROVE  claimed'[t] /\ host'[t] = host[t]
  <2>1. t \notin {FreeTask(w) : w \in ws}
    BY <1>3, SpawnTakes DEF Stages
  <2>2. QED
    BY <1>3, <2>1 DEF Spawn
<1>4. ASSUME NEW u \in Tasks, Advance(u) PROVE claimed'[t] /\ host'[t] = host[t]
  BY <1>4 DEF Advance
<1>5. QED
  BY <1>1, <1>2, <1>3, <1>4 DEF Shaped, Quiet, Recover, RecoverPending

\* Without a grant nobody becomes a claimant.
LEMMA ClaimersSame ==
  ASSUME Shaped, Recover \/ Quiet
  PROVE  claimed' = claimed /\ \A w : Claimers(w)' = Claimers(w)
<1>1. claimed' = claimed
  BY DEF Quiet, Recover, RecoverPending, Spawn, End, Advance
<1>2. QED
  BY <1>1 DEF Claimers, TasksOf

\* Known in the next state, of an executor named in either state.
KnownNext(w, i) ==
  i = None \/ \E c \in TasksOf(w) : claimed'[c] /\ IdOf[host'[c]] = i

\* Who was known as an executor of a workflow stays known.
LEMMA KnownKept ==
  ASSUME TypeOK, Stages, Shaped, NEW w \in Workflows, NEW i, Known(w, i)
  PROVE  KnownNext(w, i)
<1>1. CASE i = None
  BY <1>1 DEF KnownNext
<1>2. CASE i # None
  <2>1. PICK c \in Claimers(w) : IdOf[host[c]] = i
    BY <1>2 DEF Known
  <2>2. c \in Tasks /\ WorkflowOf(c) = w /\ claimed[c]
    BY DEF Claimers, TasksOf
  <2>3. claimed'[c] /\ host'[c] = host[c]
    BY <2>2, ClaimsKept
  <2>4. QED
    BY <2>1, <2>2, <2>3 DEF KnownNext, TasksOf
<1>3. QED
  BY <1>1, <1>2

\* A step keeps what a place in execute_workflow says about the claim.
LEMMA StagesStep ==
  ASSUME TypeOK, Stages, Shaped
  PROVE  Stages'
<1> SUFFICES ASSUME NEW t \in Tasks
             PROVE /\ pc'[t] \in {"free", "read", "claim"} => ~claimed'[t]
                   /\ pc'[t] \in {"reload", "done"} => claimed'[t]
                   /\ Live(t)' \/ claimed'[t] => host'[t] \in Processes
  BY DEF Stages
<1>0. /\ pc[t] \in {"free", "read", "claim"} => ~claimed[t]
      /\ pc[t] \in {"reload", "done"} => claimed[t]
      /\ Live(t) \/ claimed[t] => host[t] \in Processes
  BY DEF Stages
<1> DEFINE Goal == /\ pc'[t] \in {"free", "read", "claim"} => ~claimed'[t]
                   /\ pc'[t] \in {"reload", "done"} => claimed'[t]
                   /\ Live(t)' \/ claimed'[t] => host'[t] \in Processes
<1>1. ASSUME NEW u \in Tasks, Grant(u) PROVE Goal
  BY <1>0, <1>1 DEF Grant, Goto, TypeOK, Live
<1>2. ASSUME NEW ts, End(ts) PROVE Goal
  BY <1>0, <1>2 DEF End, Live
<1>3. ASSUME NEW p \in Processes, NEW ws, NEW again, Spawn(p, ws, again) PROVE Goal
  <2>1. CASE t \in {FreeTask(w) : w \in ws}
    <3>1. pc[t] = "free" /\ host'[t] = p
      BY <1>3, <2>1, SpawnTakes
    <3>2. pc'[t] = "read" /\ claimed'[t] = claimed[t]
      BY <1>3, <2>1 DEF Spawn
    <3>3. QED
      BY <1>0, <3>1, <3>2
  <2>2. CASE t \notin {FreeTask(w) : w \in ws}
    BY <1>0, <1>3, <2>2 DEF Spawn, Live
  <2>3. QED
    BY <2>1, <2>2
<1>4. ASSUME NEW u \in Tasks, Advance(u) PROVE Goal
  BY <1>0, <1>4 DEF Advance, Goto, TypeOK, Live
<1>5. CASE UNCHANGED <<pc, host, recovered, claimed>>
  BY <1>0, <1>5 DEF Live
<1>6. QED
  BY <1>1, <1>2, <1>3, <1>4, <1>5 DEF Shaped, Quiet, Recover, RecoverPending

\* A step names no executor that was never granted a claim.
LEMMA ExecutorsKnownStep ==
  ASSUME TypeOK, Stages, ExecutorsKnown, Shaped
  PROVE  ExecutorsKnown'
<1>1. ASSUME NEW w \in Workflows PROVE KnownNext(w, rows'[w].executor)
  <2>0. Known(w, rows[w].executor)
    BY DEF ExecutorsKnown
  <2>1. CASE rows'[w] = rows[w]
    BY <2>0, <2>1, KnownKept
  <2>2. ASSUME NEW row \in Row, Save(w, row), Known(w, row.executor)
        PROVE  KnownNext(w, rows'[w].executor)
    <3>1. rows'[w] = row
      BY <2>2 DEF Save, TypeOK
    <3>2. QED
      BY <2>2, <3>1, KnownKept
  <2>3. ASSUME NEW t \in Tasks, Grant(t), WorkflowOf(t) = w
        PROVE  KnownNext(w, rows'[w].executor)
    <3>1. rows'[w].executor = IdOf[host[t]]
      BY <2>3 DEF Grant, Save, TypeOK, Row, ClaimedRow
    <3>2. claimed'[t] /\ host'[t] = host[t]
      BY <2>3 DEF Grant, TypeOK
    <3>3. QED
      BY <2>3, <3>1, <3>2 DEF KnownNext, TasksOf
  <2>4. ASSUME NEW t \in Tasks, Grant(t), WorkflowOf(t) # w PROVE rows'[w] = rows[w]
    BY <2>4, TaskShape DEF Grant, Save, TypeOK
  <2>5. CASE Quiet
    BY <2>1, <2>2, <2>5 DEF Quiet, Save, TypeOK
  <2>6. QED
    BY <2>1, <2>3, <2>4, <2>5 DEF Shaped, Recover
<1>2. ASSUME NEW t \in Tasks PROVE KnownNext(WorkflowOf(t), snap'[t].executor)
  <2>1. /\ Known(WorkflowOf(t), snap[t].executor)
        /\ Known(WorkflowOf(t), rows[WorkflowOf(t)].executor)
        /\ Known(WorkflowOf(t), Absent.executor)
    BY TaskShape DEF ExecutorsKnown, Known, Absent
  <2>2. snap'[t] \in {snap[t], Absent, rows[WorkflowOf(t)]}
    BY DEF Shaped, Copies
  <2>3. QED
    BY <2>1, <2>2, TaskShape, KnownKept
<1>3. ASSUME NEW p \in Processes, NEW m \in moving'[p] PROVE KnownNext(m[1], m[2].executor)
  <2>1. m \in moving[p] \/ \E w \in Workflows : m = <<w, rows[w]>>
    BY DEF Shaped, Copies
  <2>2. m[1] \in Workflows /\ Known(m[1], m[2].executor)
    BY <2>1 DEF ExecutorsKnown, TypeOK
  <2>3. QED
    BY <2>2, KnownKept
<1>4. ASSUME NEW c \in Clients, call'[c].of \in Workflows
      PROVE  KnownNext(call'[c].of, call'[c].row.executor)
  <2>1. call'[c] # NoCall
    BY <1>4, NoneDistinct DEF NoCall
  <2>2. Known(call'[c].of, call'[c].row.executor)
    BY <1>4, <2>1 DEF Shaped, Copies, ExecutorsKnown
  <2>3. QED
    BY <1>4, <2>2, KnownKept
<1>5. QED
  BY <1>1, <1>2, <1>3, <1>4 DEF ExecutorsKnown, Known, KnownNext, Claimers, TasksOf

-----------------------------------------------------------------------------
(* Grants are bounded.                                                     *)

\* There are finitely many tasks, so claimants can be counted.
LEMMA ClaimersFinite ==
  \A w : IsFiniteSet(Claimers(w)) /\ Cardinality(Claimers(w)) \in Nat
<1>1. IsFiniteSet(Tasks)
  BY ExecutionAssumption, FS_Product DEF Tasks
<1>2. \A w : Claimers(w) \in SUBSET Tasks
  BY DEF Claimers, TasksOf
<1>3. QED
  BY <1>1, <1>2, FS_Subset, FS_CardinalityType

\* The grant adds its task to the claimants of the workflow, and takes the place
\* of the wait that the claim ended.
LEMMA GrantEffect ==
  ASSUME TypeOK, Stages, NEW t \in Tasks, Grant(t)
  PROVE  LET w == WorkflowOf(t)
         IN  /\ Claimers(w)' = Claimers(w) \cup {t} /\ t \notin Claimers(w)
             /\ Unclaimed(rows[w]) /\ ~Unclaimed(rows'[w])
             /\ opened' = opened
             /\ \A v \in Workflows \ {w} : rows'[v] = rows[v] /\ Claimers(v)' = Claimers(v)
<1> DEFINE w == WorkflowOf(t)
           e == IdOf[host[t]]
           x == ExecutionOf(t)
<1>1. w \in Workflows /\ x \in Executions /\ rows[w] \in Row
  BY TaskShape DEF TypeOK
<1>2. pc[t] = "claim" /\ ~claimed[t] /\ host[t] \in Processes
  BY DEF Grant, Goto, Stages, Live
<1>3. e \in ExecutorIds
  BY <1>2, ExecutionAssumption
<1>4. rows'[w] = ClaimedRow(rows[w], e, x)
  BY <1>1 DEF Grant, Save, TypeOK
<1>5. Unclaimed(rows[w]) /\ ~Unclaimed(rows'[w])
  BY <1>1, <1>3, <1>4, ClaimedRowType, NoneDistinct DEF Grant, Claimable, Unclaimed, Unfinished
<1>6. opened' = opened
  <2>1. opened' = [opened EXCEPT ![w] =
                     IF Unclaimed(rows'[w]) /\ ~Unclaimed(rows[w]) THEN @ + 1 ELSE @]
    BY <1>4 DEF Grant, Save
  <2>2. opened' = [opened EXCEPT ![w] = @]
    BY <1>5, <2>1
  <2>3. QED
    BY <2>2 DEF TypeOK
<1>7. \A v \in Workflows \ {w} : rows'[v] = rows[v]
  BY DEF Grant, Save, TypeOK
<1>8. \A v : Claimers(v)' = {u \in TasksOf(v) : u = t \/ claimed[u]}
  BY DEF Grant, TypeOK, Claimers, TasksOf
<1>9. Claimers(w)' = Claimers(w) \cup {t} /\ t \notin Claimers(w)
  BY <1>2, <1>8, TaskShape DEF Claimers
<1>10. \A v \in Workflows \ {w} : Claimers(v)' = Claimers(v)
  BY <1>8 DEF Claimers, TasksOf
<1>11. QED
  BY <1>5, <1>6, <1>7, <1>9, <1>10

\* opened never decreases; a write that makes the row wait anew increases it.
LEMMA OpenedGrows ==
  ASSUME TypeOK, Stages, Shaped, NEW w \in Workflows
  PROVE  /\ opened[w] \in Nat /\ opened'[w] \in Nat
         /\ opened[w] <= opened'[w]
         /\ Unclaimed(rows'[w]) /\ ~Unclaimed(rows[w]) => opened[w] + 1 <= opened'[w]
<1>0. opened[w] \in Nat
  BY DEF TypeOK
<1>1. ASSUME NEW t \in Tasks, Grant(t)
      PROVE  opened' = opened /\ (Unclaimed(rows'[w]) => Unclaimed(rows[w]))
  BY <1>1, GrantEffect, TaskShape
<1>2. ASSUME NEW v \in Workflows, NEW row \in Row, Save(v, row)
      PROVE  /\ opened'[w] \in {opened[w], opened[w] + 1}
             /\ Unclaimed(rows'[w]) /\ ~Unclaimed(rows[w]) => opened'[w] = opened[w] + 1
  <2>1. CASE v = w
    BY <1>2, <2>1 DEF Save, TypeOK
  <2>2. CASE v # w
    BY <1>2, <2>2 DEF Save, TypeOK
  <2>3. QED
    BY <2>1, <2>2
<1>3. CASE UNCHANGED <<rows, opened>>
  BY <1>0, <1>3
<1>4. CASE Quiet
  BY <1>0, <1>2, <1>3, <1>4 DEF Quiet
<1>5. CASE Recover
  BY <1>3, <1>5 DEF Recover
<1>6. QED
  BY <1>0, <1>1, <1>4, <1>5 DEF Shaped

\* A step keeps the number of grants within the number of waits.
LEMMA GrantsStep ==
  ASSUME TypeOK, Stages, GrantsBounded, Shaped
  PROVE  GrantsBounded'
<1> SUFFICES ASSUME NEW w \in Workflows
             PROVE  Cardinality(Claimers(w)') + (IF Unclaimed(rows'[w]) THEN 1 ELSE 0)
                      <= opened'[w]
  BY DEF GrantsBounded, Claimers, TasksOf
<1>1. /\ Cardinality(Claimers(w)) + (IF Unclaimed(rows[w]) THEN 1 ELSE 0) <= opened[w]
      /\ IsFiniteSet(Claimers(w)) /\ Cardinality(Claimers(w)) \in Nat
  BY ClaimersFinite DEF GrantsBounded
<1>2. /\ opened[w] \in Nat /\ opened'[w] \in Nat /\ opened[w] <= opened'[w]
      /\ Unclaimed(rows'[w]) /\ ~Unclaimed(rows[w]) => opened[w] + 1 <= opened'[w]
  BY OpenedGrows
<1>3. CASE Recover \/ Quiet
  <2>1. Claimers(w)' = Claimers(w)
    BY <1>3, ClaimersSame
  <2>2. QED
    BY <1>1, <1>2, <2>1
<1>4. ASSUME NEW t \in Tasks, Grant(t)
      PROVE  Cardinality(Claimers(w)') + (IF Unclaimed(rows'[w]) THEN 1 ELSE 0) <= opened'[w]
  <2>1. CASE w = WorkflowOf(t)
    <3>1. /\ Claimers(w)' = Claimers(w) \cup {t} /\ t \notin Claimers(w)
          /\ Unclaimed(rows[w]) /\ ~Unclaimed(rows'[w])
      BY <1>4, <2>1, GrantEffect
    <3>2. Cardinality(Claimers(w)') = Cardinality(Claimers(w)) + 1
      BY <1>1, <3>1, FS_AddElement
    <3>3. QED
      BY <1>1, <1>2, <3>1, <3>2
  <2>2. CASE w # WorkflowOf(t)
    <3>1. rows'[w] = rows[w] /\ Claimers(w)' = Claimers(w)
      BY <1>4, <2>2, GrantEffect
    <3>2. QED
      BY <1>1, <1>2, <3>1
  <2>3. QED
    BY <2>1, <2>2
<1>5. QED
  BY <1>3, <1>4 DEF Shaped

\* A workflow opened at most once has at most one claimant, and none while it waits.
LEMMA OneClaimer ==
  ASSUME TypeOK, GrantsBounded, NEW w \in Workflows, opened[w] <= 1
  PROVE  /\ \A a, b \in Claimers(w) : a = b
         /\ Unclaimed(rows[w]) => Claimers(w) = {}
<1>1. /\ Cardinality(Claimers(w)) + (IF Unclaimed(rows[w]) THEN 1 ELSE 0) <= opened[w]
      /\ IsFiniteSet(Claimers(w)) /\ Cardinality(Claimers(w)) \in Nat /\ opened[w] \in Nat
  BY ClaimersFinite DEF GrantsBounded, TypeOK
<1>2. ASSUME NEW a \in Claimers(w), NEW b \in Claimers(w), a # b PROVE FALSE
  <2>1. IsFiniteSet({a}) /\ Cardinality({a}) = 1
    BY FS_Singleton
  <2>2. Cardinality({a} \cup {b}) = 2
    <3> DEFINE A == {a}
    <3>1. IsFiniteSet(A) /\ Cardinality(A) = 1 /\ b \notin A
      BY <1>2, <2>1
    <3> HIDE DEF A
    <3>2. Cardinality(A \cup {b}) = Cardinality(A) + 1
      BY <3>1, FS_AddElement
    <3>3. QED
      BY <3>1, <3>2 DEF A
  <2>3. Cardinality({a} \cup {b}) <= Cardinality(Claimers(w))
    BY <1>1, <1>2, FS_Subset
  <2>4. QED
    BY <1>1, <2>2, <2>3
<1>3. ASSUME Unclaimed(rows[w]) PROVE Claimers(w) = {}
  <2>1. Cardinality(Claimers(w)) = 0
    BY <1>1, <1>3
  <2>2. QED
    BY <1>1, <2>1, FS_EmptySet
<1>4. QED
  BY <1>2, <1>3

-----------------------------------------------------------------------------
(* The gate, and exclusive execution.                                      *)

\* Entitled in the next state.
EntitledNext(t) ==
  /\ Live(t)' /\ (claimed'[t] \/ recovered'[t])
  /\ \E c \in TasksOf(WorkflowOf(t)) : claimed'[c] /\ IdOf[host'[c]] = IdOf[host'[t]]

\* EntitledNext is Entitled in the next state.
LEMMA EntitledPrime == \A t : Entitled(t)' <=> EntitledNext(t)
BY DEF Entitled, EntitledNext, Holder, Live, Claimers, TasksOf, WorkflowOf

\* A claimant that entitled a task entitles it still, wherever the task is by now.
LEMMA EntitledKept ==
  ASSUME TypeOK, Stages, Shaped, NEW t \in Tasks, Entitled(t),
         Live(t)', host'[t] = host[t], claimed'[t] \/ recovered'[t]
  PROVE  EntitledNext(t)
<1>1. PICK c \in Claimers(WorkflowOf(t)) : IdOf[host[c]] = IdOf[host[t]]
  BY DEF Entitled
<1>2. c \in Tasks /\ c \in TasksOf(WorkflowOf(t)) /\ claimed[c]
  BY DEF Claimers, TasksOf
<1>3. claimed'[c] /\ host'[c] = host[c]
  BY <1>2, ClaimsKept
<1>4. QED
  BY <1>1, <1>2, <1>3 DEF EntitledNext

\* A step lets only entitled tasks past the gate.
LEMMA GateKeptStep ==
  ASSUME TypeOK, Stages, ExecutorsKnown, GateKept, Shaped
  PROVE  GateKept'
<1> SUFFICES ASSUME NEW t \in Tasks
             PROVE  /\ Live(t)' /\ recovered'[t] =>
                         \E c \in TasksOf(WorkflowOf(t)) : claimed'[c]
                    /\ Running(t)' => EntitledNext(t)
  BY EntitledPrime DEF GateKept, Claimers, TasksOf, WorkflowOf
<1> DEFINE w == WorkflowOf(t)
           Goal == /\ Live(t)' /\ recovered'[t] => \E c \in TasksOf(w) : claimed'[c]
                   /\ Running(t)' => EntitledNext(t)
<1>0. /\ w \in Workflows /\ t \in TasksOf(w)
      /\ Live(t) /\ recovered[t] => Claimers(w) # {}
      /\ Running(t) => Entitled(t)
  BY TaskShape DEF GateKept
<1>1. Claimers(w) # {} => \E c \in TasksOf(w) : claimed'[c]
  BY ClaimsKept DEF Claimers, TasksOf
\* A step that leaves t as it is, or takes it further behind the gate.
<1>2. ASSUME host'[t] = host[t], claimed'[t] = claimed[t], recovered'[t] = recovered[t],
             Live(t)' => Live(t), Running(t)' => Running(t)
      PROVE  Goal
  <2>1. Running(t)' => Live(t)'
    BY DEF Running, Live
  <2>2. QED
    BY <1>0, <1>1, <1>2, <2>1, EntitledKept DEF Entitled, Holder
<1>3. ASSUME NEW u \in Tasks, Grant(u) PROVE Goal
  <2>1. CASE u = t
    <3>1. claimed'[t]
      BY <1>3, <2>1 DEF Grant, TypeOK
    <3>2. Running(t)' => Live(t)'
      BY DEF Running, Live
    <3>3. QED
      BY <1>0, <3>1, <3>2 DEF EntitledNext
  <2>2. CASE u # t
    BY <1>2, <1>3, <2>2 DEF Grant, Goto, TypeOK, Live, Running
  <2>3. QED
    BY <2>1, <2>2
<1>4. ASSUME NEW ts, End(ts) PROVE Goal
  <2>1. CASE t \in ts
    BY <1>4, <2>1 DEF End, Live, Running
  <2>2. CASE t \notin ts
    BY <1>2, <1>4, <2>2 DEF End, Live, Running
  <2>3. QED
    BY <2>1, <2>2
<1>5. ASSUME NEW p \in Processes, NEW ws, NEW again, Spawn(p, ws, again),
             \A v \in again : v \in Workflows => Claimers(v) # {}
      PROVE  Goal
  <2>1. CASE t \in {FreeTask(v) : v \in ws}
    <3>1. recovered'[t] <=> w \in again
      BY <1>5, <2>1, SpawnTakes
    <3>2. pc'[t] = "read"
      BY <1>5, <2>1 DEF Spawn
    <3>3. QED
      BY <1>0, <1>1, <1>5, <3>1, <3>2 DEF Running
  <2>2. CASE t \notin {FreeTask(v) : v \in ws}
    BY <1>2, <1>5, <2>2 DEF Spawn, Live, Running
  <2>3. QED
    BY <2>1, <2>2
<1>6. ASSUME NEW u \in Tasks, Advance(u) PROVE Goal
  <2>1. CASE u # t
    BY <1>2, <1>6, <2>1 DEF Advance, Goto, TypeOK, Live, Running
  <2>2. CASE u = t /\ ~Goto(t, "read", "start")
    BY <1>2, <1>6, <2>2 DEF Advance, Goto, TypeOK, Live, Running
  <2>3. CASE u = t /\ Goto(t, "read", "start")
    <3>1. /\ recovered[t] /\ rows[w].executor = IdOf[host[t]]
          /\ pc[t] = "read" /\ pc'[t] = "start"
          /\ UNCHANGED <<host, recovered, claimed>>
      BY <1>6, <2>3 DEF Advance, Goto, TakesOver, TypeOK
    <3>2. IdOf[host[t]] \in ExecutorIds
      BY <3>1, ExecutionAssumption DEF Stages, Live
    <3>3. PICK c \in Claimers(w) : IdOf[host[c]] = rows[w].executor
      BY <1>0, <3>1, <3>2, NoneDistinct DEF ExecutorsKnown, Known
    <3>4. c \in TasksOf(w) /\ claimed'[c] /\ IdOf[host'[c]] = IdOf[host'[t]]
      BY <3>1, <3>3 DEF Claimers
    <3>5. QED
      BY <3>1, <3>4 DEF EntitledNext, Live
  <2>4. QED
    BY <2>1, <2>2, <2>3
<1>7. CASE UNCHANGED <<pc, host, recovered, claimed>>
  BY <1>2, <1>7 DEF Live, Running
<1>8. ASSUME NEW p \in Processes, NEW ids \in SUBSET ExecutorIds, RecoverPending(p, ids)
      PROVE  Goal
  <2>1. \A v \in ClaimedBy(ids) : Claimers(v) # {}
    BY NoneDistinct DEF ClaimedBy, ExecutorsKnown, Known
  <2>2. QED
    BY <1>5, <1>8, <2>1 DEF RecoverPending
<1>9. QED
  BY <1>3, <1>4, <1>5, <1>6, <1>7, <1>8 DEF Shaped, Quiet, Recover

\* Outside recovery and grants nobody becomes entitled.
LEMMA QuietEntitles ==
  ASSUME TypeOK, Stages, Shaped, Quiet, NEW t \in Tasks, EntitledNext(t)
  PROVE  Entitled(t)
<1>1. /\ Live(t)' /\ (claimed'[t] \/ recovered'[t])
      /\ \E c \in TasksOf(WorkflowOf(t)) : claimed'[c] /\ IdOf[host'[c]] = IdOf[host'[t]]
  BY DEF EntitledNext
<1>2. claimed' = claimed
  BY ClaimersSame
<1>3. PICK c \in Claimers(WorkflowOf(t)) : IdOf[host[c]] = IdOf[host'[t]]
  <2>1. PICK c \in TasksOf(WorkflowOf(t)) : claimed'[c] /\ IdOf[host'[c]] = IdOf[host'[t]]
    BY <1>1
  <2>2. host'[c] = host[c]
    BY <1>2, <2>1, ClaimsKept DEF TasksOf
  <2>3. QED
    BY <1>2, <2>1, <2>2 DEF Claimers
<1>4. SUFFICES Holder(t) /\ host'[t] = host[t]
  BY <1>3 DEF Entitled
<1>5. ASSUME NEW ts, End(ts) PROVE Holder(t) /\ host'[t] = host[t]
  BY <1>1, <1>2, <1>5 DEF End, Live, Holder
<1>6. ASSUME NEW p \in Processes, NEW ws, Spawn(p, ws, {})
      PROVE  Holder(t) /\ host'[t] = host[t]
  <2>1. t \notin {FreeTask(v) : v \in ws}
    BY <1>1, <1>2, <1>6, SpawnTakes DEF Stages
  <2>2. QED
    BY <1>1, <1>2, <1>6, <2>1 DEF Spawn, Live, Holder
<1>7. ASSUME NEW u \in Tasks, Advance(u) PROVE Holder(t) /\ host'[t] = host[t]
  BY <1>1, <1>7 DEF Advance, Goto, TypeOK, Live, Holder
<1>8. CASE UNCHANGED <<pc, host, recovered, claimed>>
  BY <1>1, <1>8 DEF Live, Holder
<1>9. QED
  BY <1>5, <1>6, <1>7, <1>8 DEF Quiet

\* A step entitles no second task of a workflow that was made to wait once.
LEMMA OneEntitledStep ==
  ASSUME TypeOK, Stages, GrantsBounded, ExecutorsKnown, GateKept, OneEntitled, Shaped
  PROVE  OneEntitled'
<1> SUFFICES ASSUME NEW w \in Workflows, opened'[w] <= 1, ~overlapped'[w],
                    NEW t \in TasksOf(w), NEW u \in TasksOf(w),
                    EntitledNext(t), EntitledNext(u)
             PROVE  t = u
  BY EntitledPrime DEF OneEntitled, TasksOf, WorkflowOf
<1>0. /\ t \in Tasks /\ u \in Tasks /\ WorkflowOf(t) = w /\ WorkflowOf(u) = w
      /\ opened[w] <= 1
  BY OpenedGrows DEF TasksOf
<1>1. ~overlapped[w]
  BY DEF Shaped, Quiet, Recover, RecoverPending, Grant
<1>2. Entitled(t) /\ Entitled(u) => t = u
  BY <1>0, <1>1 DEF OneEntitled
<1>3. CASE Quiet
  BY <1>0, <1>2, <1>3, QuietEntitles
<1>4. ASSUME NEW g \in Tasks, Grant(g) PROVE t = u
  <2>1. CASE WorkflowOf(g) = w
    <3>1. Claimers(w) = {}
      BY <1>0, <1>4, <2>1, GrantEffect, OneClaimer
    <3>2. ASSUME NEW v \in TasksOf(w), EntitledNext(v) PROVE v = g
      <4>1. v \in Tasks /\ WorkflowOf(v) = w /\ ~claimed[v]
        BY <3>1 DEF Claimers, TasksOf
      <4>2. CASE v # g
        <5>1. claimed'[v] = claimed[v] /\ recovered'[v] = recovered[v] /\ pc'[v] = pc[v]
          BY <1>4, <4>1, <4>2 DEF Grant, Goto, TypeOK
        <5>2. Live(v) /\ recovered[v]
          BY <3>2, <4>1, <5>1 DEF EntitledNext, Live
        <5>3. QED
          BY <3>1, <4>1, <5>2 DEF GateKept
      <4>3. QED
        BY <4>2
    <3>3. QED
      BY <3>2
  <2>2. CASE WorkflowOf(g) # w
    <3>1. ASSUME NEW v \in TasksOf(w), EntitledNext(v) PROVE Entitled(v)
      <4>1. /\ v \in Tasks /\ WorkflowOf(v) = w /\ claimed'[v] = claimed[v]
            /\ recovered'[v] = recovered[v] /\ pc'[v] = pc[v] /\ host' = host
        BY <1>4, <2>2 DEF Grant, Goto, TypeOK, TasksOf
      <4>2. \A c \in TasksOf(w) : claimed'[c] = claimed[c]
        BY <1>4, <2>2 DEF Grant, TypeOK, TasksOf
      <4>3. QED
        BY <3>1, <4>1, <4>2 DEF EntitledNext, Entitled, Holder, Live, Claimers
    <3>2. QED
      BY <1>2, <3>1
  <2>3. QED
    BY <2>1, <2>2
<1>5. ASSUME NEW p \in Processes, NEW ids \in SUBSET ExecutorIds, RecoverPending(p, ids),
             Recover
      PROVE  t = u
  <2> DEFINE ours == ClaimedBy(ids)
             new == {FreeTask(v) : v \in Startable \cup ours}
  <2>1. claimed' = claimed /\ Claimers(w)' = Claimers(w)
    BY <1>5, ClaimersSame
  <2>2. Spawn(p, Startable \cup ours, ours)
    BY <1>5 DEF RecoverPending
  \* An entitled task is new for a claimant in p, or was entitled before.
  <2>3. ASSUME NEW v \in TasksOf(w), EntitledNext(v), v \notin new
        PROVE  Entitled(v) /\ host'[v] = host[v]
    <3>1. /\ v \in Tasks /\ WorkflowOf(v) = w /\ pc'[v] = pc[v] /\ host'[v] = host[v]
          /\ recovered'[v] = recovered[v]
      BY <2>2, <2>3 DEF Spawn, TasksOf
    <3>2. \A c \in TasksOf(w) : claimed'[c] => claimed[c] /\ host'[c] = host[c]
      BY <2>1, ClaimsKept DEF TasksOf
    <3>3. QED
      BY <2>1, <2>3, <3>1, <3>2 DEF EntitledNext, Entitled, Holder, Live, Claimers
  <2>4. ASSUME NEW v \in TasksOf(w), EntitledNext(v), v \in new
        PROVE  /\ v = FreeTask(w)
               /\ \E c \in Claimers(w) : IdOf[host[c]] = IdOf[p]
               /\ \A h \in TasksOf(w) : Holder(h) => IdOf[host[h]] # IdOf[p]
    <3>1. /\ v \in Tasks /\ WorkflowOf(v) = w
      BY DEF TasksOf
    <3>2. /\ pc[v] = "free" /\ v = FreeTask(w) /\ host'[v] = p
          /\ (recovered'[v] <=> w \in ours)
      BY <2>2, <2>4, <3>1, SpawnTakes
    <3>3. w \in ours
      BY <2>1, <2>4, <3>1, <3>2 DEF EntitledNext, Stages
    <3>4. PICK c \in Claimers(w) : IdOf[host[c]] = IdOf[p]
      <4>1. PICK c \in TasksOf(w) : claimed'[c] /\ IdOf[host'[c]] = IdOf[p]
        BY <2>4, <3>1, <3>2 DEF EntitledNext
      <4>2. claimed[c] /\ host'[c] = host[c]
        BY <2>1, <4>1, ClaimsKept DEF TasksOf
      <4>3. QED
        BY <4>1, <4>2 DEF Claimers
    <3>5. PICK d \in Claimers(w) : IdOf[host[d]] = rows[w].executor
      BY <3>3, NoneDistinct DEF ClaimedBy, ExecutorsKnown, Known
    <3>6. rows[w].executor = IdOf[p]
      BY <1>0, <3>4, <3>5, OneClaimer
    <3>7. overlapped'[w] <=>
             \/ overlapped[w]
             \/ /\ w \in ours /\ rows[w].executor = IdOf[p]
                /\ \E h \in TasksOf(w) : Holder(h) /\ IdOf[host[h]] = IdOf[p]
      BY <1>5, Zenon DEF RecoverPending
    <3>8. QED
      BY <3>2, <3>3, <3>4, <3>6, <3>7
  <2>5. ASSUME NEW a \in TasksOf(w), NEW b \in TasksOf(w), EntitledNext(a), EntitledNext(b),
               a \in new, b \notin new
        PROVE  FALSE
    <3>1. PICK c \in Claimers(w) : IdOf[host[c]] = IdOf[p]
      BY <2>4, <2>5
    <3>2. Entitled(b) /\ WorkflowOf(b) = w
      BY <2>3, <2>5 DEF TasksOf
    <3>3. PICK d \in Claimers(w) : IdOf[host[d]] = IdOf[host[b]]
      BY <3>2 DEF Entitled
    <3>4. IdOf[host[b]] = IdOf[p] /\ Holder(b)
      BY <1>0, <3>1, <3>2, <3>3, OneClaimer DEF Entitled
    <3>5. QED
      BY <2>4, <2>5, <3>4
  <2>6. QED
    BY <1>2, <2>3, <2>4, <2>5
<1>6. QED
  BY <1>3, <1>4, <1>5 DEF Shaped, Recover
-----------------------------------------------------------------------------
(* The theorems.                                                           *)

\* The invariant holds at the start.
LEMMA InvInit == Init => Inv
<1> SUFFICES ASSUME Init PROVE Inv
  OBVIOUS
<1>1. TypeOK
  BY AbsentType, StoreAssumption, ExecutionAssumption DEF Init, TypeOK, PCs, Call, Time
<1>2. Stages /\ ExecutorsKnown /\ GateKept
  BY TaskShape DEF Init, Stages, Live, Running, ExecutorsKnown, Known, GateKept, Absent, NoCall
<1>3. OneEntitled
  BY DEF Init, OneEntitled, Entitled, Holder, Live, TasksOf
<1>4. GrantsBounded
  <2>1. \A w : Claimers(w) = {}
    BY DEF Init, Claimers, TasksOf
  <2>2. \A w \in Workflows : ~Unclaimed(rows[w]) /\ opened[w] = 0
    BY DEF Init, Unclaimed, Absent, Unfinished
  <2>3. QED
    BY <2>1, <2>2, FS_EmptySet DEF GrantsBounded
<1>5. QED
  BY <1>1, <1>2, <1>3, <1>4 DEF Inv

\* Every step preserves the invariant.
LEMMA InvStep == Inv /\ [Next]_vars => Inv'
<1> SUFFICES ASSUME Inv, [Next]_vars PROVE Inv'
  OBVIOUS
<1>1. TypeOK /\ Stages /\ GrantsBounded /\ ExecutorsKnown /\ GateKept /\ OneEntitled
  BY DEF Inv
<1>2. Shaped
  BY <1>1, StepShape
<1>3. TypeOK'
  BY <1>1, TypeStep
<1>4. QED
  BY <1>1, <1>2, <1>3, StagesStep, GrantsStep, ExecutorsKnownStep, GateKeptStep,
     OneEntitledStep DEF Inv

\* The inductive invariant holds in every execution.
THEOREM Invariance == Spec => []Inv
BY InvInit, InvStep, PTL DEF Spec

\* Every reachable state of execute_workflow, recovery, supervisors and calls
\* is one of the shapes TypeOK describes.
THEOREM TypeCorrect == Spec => []TypeOK
<1>1. Inv => TypeOK
  BY DEF Inv
<1>2. QED
  BY <1>1, Invariance, PTL

\* claim_workflow_execution grants a claim at most once for each time the workflow
\* was made to wait for one, whatever stale rows other calls save.
THEOREM AtMostOneGrant == Spec => []GrantsBounded
<1>1. Inv => GrantsBounded
  BY DEF Inv
<1>2. QED
  BY <1>1, Invariance, PTL

\* The gate of execute_workflow lets one task at a time execute a workflow that was
\* made to wait once and never recovered for an executor still at it.
THEOREM Exclusion == Spec => []ExclusiveExecution
<1>1. Inv => ExclusiveExecution
  BY DEF Inv, GateKept, OneEntitled, ExclusiveExecution, TasksOf
<1>2. QED
  BY <1>1, Invariance, PTL
=============================================================================
