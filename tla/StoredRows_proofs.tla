--------------------------- MODULE StoredRows_proofs ---------------------------
(***************************************************************************)
(* Theorems about the rows of WorkflowExecution, for every value of its    *)
(* constants: no claim is forgotten, a promised delay is kept, and no two     *)
(* unfinished workflows of a queue share a deduplication id.               *)
(***************************************************************************)
EXTENDS WorkflowExecution_proofs

\* w is stored as row, or somebody holds that copy of it.
Seen(w, row) ==
  /\ row.status # "absent"
  /\ \/ row = rows[w]
     \/ \E t \in TasksOf(w) : row = snap[t]
     \/ \E p \in Processes : <<w, row>> \in moving[p]
     \/ \E c \in Clients : call[c].of = w /\ call[c].row = row

\* What is never spent grows not again, and a call under way was paid for.
Spent ==
  /\ \A k \in Kinds : left[k] <= Budget[k]
  /\ \A c \in Clients : call[c] # NoCall => left[call[c].kind] < Budget[call[c].kind]

\* Which rows are held to be saved.
HeldRows ==
  /\ \A w \in Workflows : \A row \in Row : Seen(w, row) /\ row.status = "Delayed" => row.executor = None
  /\ \A t \in Tasks : /\ pc[t] = "start" => snap[t].status \in Unfinished
                      /\ pc[t] = "finish" => snap[t].status \notin {"absent", "Cancelled"}
  /\ \A p \in Processes : \A m \in moving[p] :
        m[2].status = "Delayed" /\ m[2].delay # None /\ m[2].delay <= now
  /\ \A c \in Clients :
        /\ call[c] # NoCall => call[c].row.status # "absent"
        /\ call[c].kind = "postpone" => call[c].row.status = "Delayed"

\* A workflow made to wait once is known by the name, deduplication id and queue it was
\* inserted with.
OneOrigin ==
  \A w \in Workflows : \A x, y \in Row :
    /\ Seen(w, x) => opened[w] >= 1
    /\ Seen(w, x) /\ Seen(w, y) /\ opened[w] <= 1 =>
         /\ x.name = y.name /\ x.dedup = y.dedup
         /\ Unused({"resume"}) => x.queue = y.queue

\* Of a workflow made to wait once: recovery takes over, it does not claim, and who starts
\* has read the claim of its own executor.
OwnClaim ==
  \A t \in Tasks :
    opened[WorkflowOf(t)] <= 1 =>
      /\ pc[t] = "claim" => ~recovered[t]
      /\ pc[t] = "start" => snap[t].executor = IdOf[host[t]]

\* Only a process that is stopping has tasks to abort.
DoomedStops == \A t \in Tasks : doomed[t] => Live(t) /\ life[host[t]] = "stopping"

\* The promised delay is the one that is stored while the workflow waits for it, and it is
\* over when a task or a supervisor is going to save a workflow made to wait once.
DueCopies ==
  /\ \A w \in Workflows : rows[w].status = "Delayed" => promised[w] \in {None, rows[w].delay}
  /\ \A t \in Tasks :
        /\ opened[WorkflowOf(t)] <= 1 /\ promised[WorkflowOf(t)] # None
        /\ pc[t] \in {"start", "finish"}
        => promised[WorkflowOf(t)] <= now
  /\ \A w \in Workflows : opened[w] <= 1 /\ promised[w] # None /\ Copied(w) => promised[w] <= now

\* What is started is unfinished.
StartsUnfinished ==
  \A t \in Tasks :
    /\ opened[WorkflowOf(t)] <= 1 /\ ~overlapped[WorkflowOf(t)]
    /\ Unused({"cancel", "delete", "resume"})
    /\ pc[t] = "start"
    => rows[WorkflowOf(t)].status \in Unfinished

RowsInv ==
  /\ Spent /\ HeldRows /\ OneOrigin /\ OwnClaim /\ DoomedStops /\ DueCopies /\ StartsUnfinished
  /\ NoForgottenClaim /\ NotBeforeDue /\ DedupUnique
-----------------------------------------------------------------------------
(* What a step does, in the terms of the invariants.                       *)

\* Nothing of these kinds has happened after the step either.
StillUnused(kinds) == \A k \in kinds : left'[k] = Budget[k]

\* The task is what it was.
Stays(t) ==
  /\ pc'[t] = pc[t] /\ host'[t] = host[t] /\ recovered'[t] = recovered[t]
  /\ claimed'[t] = claimed[t] /\ snap'[t] = snap[t]

\* The task is taken into service.
Spawned(t) == pc[t] = "free" /\ pc'[t] = "read" /\ doomed'[t] = doomed[t]

\* The task goes on, and has looked at the row where execute_workflow does.
Proceeds(t) ==
  LET row == rows[WorkflowOf(t)]
      Fetches == snap'[t] = row /\ UNCHANGED rows
  IN  /\ host'[t] = host[t] /\ recovered'[t] = recovered[t] /\ doomed'[t] = doomed[t]
      /\ claimed[t] => claimed'[t]
      /\ \/ pc[t] = "read" /\ pc'[t] = "claim" /\ Unclaimed(row) /\ UNCHANGED rows
         \/ /\ pc[t] = "read" /\ pc'[t] = "start" /\ Fetches
            /\ TakesOver(t, row) /\ row.status \in Unfinished
         \/ pc[t] = "claim" /\ pc'[t] = "reload"
         \/ pc[t] = "reload" /\ pc'[t] = "start" /\ Fetches /\ row.status \in Unfinished
         \/ pc[t] = "start" /\ pc'[t] = "run"
         \/ pc[t] = "run" /\ pc'[t] = "latest"
         \/ /\ pc[t] = "latest" /\ pc'[t] = "finish" /\ Fetches
            /\ row.status \notin {"absent", "Cancelled"}

\* t saves the start, or the end, of the workflow.
StartSaved(t) ==
  /\ pc[t] = "start" /\ pc'[t] = "run"
  /\ Save(WorkflowOf(t), [snap[t] EXCEPT !.status = "Pending"])
  /\ UNCHANGED <<host, recovered, claimed>>
FinishSaved(t) ==
  /\ pc[t] = "finish"
  /\ \E result \in {"Success", "Error"} :
        Save(WorkflowOf(t), [snap[t] EXCEPT !.status = result])

\* The task ends, and why.
Ends(t) ==
  LET row == rows[WorkflowOf(t)]
  IN  /\ pc'[t] \in {"free", "done"} /\ ~doomed'[t]
      /\ \/ /\ pc[t] = "read"
            /\ row.status \notin Unfinished \/ (row.executor # None /\ ~TakesOver(t, row))
         \/ pc[t] = "claim"
         \/ pc[t] = "reload" /\ row.status \notin Unfinished
         \/ pc[t] = "start" /\ snap[t].name \notin Handles[host[t]]
         \/ pc[t] = "latest" /\ row.status \in {"absent", "Cancelled"}
         \/ FinishSaved(t)
         \/ left'["fault"] < left["fault"]
         \/ doomed[t] /\ UNCHANGED life
         \/ life'[host[t]] = "dead"

Fate(t) == Stays(t) \/ Spawned(t) \/ Proceeds(t) \/ Ends(t)
Fates == \A t \in Tasks : Fate(t)

\* What supervisors and calls save of w.
Moved(w, row) ==
  \E p \in Processes : \E m \in moving[p] :
     m[1] = w /\ row = [m[2] EXCEPT !.status = "Enqueued"]
CallSaved(w, row) ==
  \E c \in Clients :
     /\ call[c].of = w /\ call[c].row \in Row
     /\ \/ call[c].kind = "cancel" /\ row = [call[c].row EXCEPT !.status = "Cancelled"]
        \/ /\ call[c].kind = "resume"
           /\ \E q \in Queues \cup {None} : row = Reopened(call[c].row, q)
        \/ /\ call[c].kind = "postpone"
           /\ \E d \in Time : row = [call[c].row EXCEPT !.delay = d]
Inserted(w, row) ==
  rows[w] = Absent /\ ~Duplicate(rows, row) /\ Unclaimed(row)
Deleted(row) == row = Absent /\ left'["delete"] < left["delete"]

\* The table is as it was, or one row of it is saved, by one of these.
TableStep ==
  \/ UNCHANGED <<rows, opened>>
  \/ \E t \in Tasks : Grant(t) \/ StartSaved(t) \/ FinishSaved(t)
  \/ \E w \in Workflows : \E row \in Row :
        /\ Save(w, row)
        /\ Moved(w, row) \/ CallSaved(w, row) \/ Inserted(w, row) \/ Deleted(row)

\* A call that begins keeps the row it has read, and is paid for.
Begun(c) ==
  LET new == call'[c]
  IN  /\ new.of \in Workflows /\ new.row = rows[new.of] /\ new.row.status # "absent"
      /\ new.kind = "postpone" => new.row.status = "Delayed"
      /\ new.kind \in Kinds /\ left'[new.kind] < left[new.kind]
      /\ UNCHANGED rows

\* p, whose launch ends, takes over the unfinished workflows claimed in its name.
TakenOver(p) ==
  /\ UNCHANGED rows
  /\ \A w \in ClaimedBy({IdOf[p]}) :
       \E t \in TasksOf(w) : pc'[t] = "read" /\ host'[t] = p /\ recovered'[t]

\* What happens to the rest of the state.
RestStep ==
  /\ \A k \in Kinds : left'[k] <= left[k]
  /\ \A c \in Clients : call'[c] \in {call[c], NoCall} \/ Begun(c)
  /\ \A p \in Processes : \A m \in moving'[p] :
        m \in moving[p] \/ \E w \in Workflows : Due(w) /\ m = <<w, rows[w]>>
  /\ now <= now'
  /\ \A w \in Workflows : overlapped[w] => overlapped'[w]

\* A row that is saved over one that was due, or that never starts.
Resaved(w, row) ==
  /\ row.status # "Delayed"
  /\ \/ rows[w].status \in {"Pending", "Enqueued"}
     \/ \E t \in TasksOf(w) : pc[t] \in {"start", "finish"}
     \/ Copied(w)
     \/ row.status \in {"Cancelled", "absent"}

\* What happens to the delay of w that was promised: it is kept, given up, or set anew
\* with the row, when nobody holds a copy of the row to save.
DelayStep(w) ==
  \/ promised'[w] = promised[w] /\ (rows'[w] = rows[w] \/ Resaved(w, rows'[w]))
  \/ promised'[w] = None
  \/ /\ promised'[w] = rows'[w].delay /\ rows'[w].status = "Delayed"
     /\ UNCHANGED <<moving, pc, snap>>
     /\ rows[w] = Absent \/ ~Copied(w)

\* What happens to the processes.
LifeStep ==
  /\ \A p \in Processes : life'[p] = "launched" => life[p] = "launched" \/ TakenOver(p)
  /\ \A p \in Processes : life[p] = "stopping" =>
        life'[p] = "stopping" \/ \A t \in TasksIn(p) : ~doomed'[t]
  /\ \A t \in Tasks : doomed'[t] =>
        doomed[t] \/ (Live(t) /\ Stays(t) /\ life'[host[t]] = "stopping")
-----------------------------------------------------------------------------
(* Fates of tasks.                                                         *)

\* Where nobody touches the tasks, they stay.
LEMMA StayFates ==
  ASSUME UNCHANGED <<pc, host, recovered, claimed, snap>>
  PROVE  Fates
BY DEF Fates, Fate, Stays

\* A spawn takes free tasks into service.
LEMMA SpawnFates ==
  ASSUME TypeOK, NEW p \in Processes, NEW ws, NEW again, Spawn(p, ws, again)
  PROVE  Fates
<1> SUFFICES ASSUME NEW t \in Tasks PROVE Fate(t)
  BY DEF Fates
<1>1. CASE t \in {FreeTask(w) : w \in ws}
  <2>1. pc[t] = "free"
    BY <1>1, SpawnTakes
  <2>2. pc'[t] = "read" /\ doomed'[t] = doomed[t]
    BY <1>1 DEF Spawn
  <2>3. QED
    BY <2>1, <2>2 DEF Fate, Spawned
<1>2. CASE t \notin {FreeTask(w) : w \in ws}
  <2>1. pc'[t] = pc[t] /\ host'[t] = host[t]
    BY <1>2 DEF Spawn
  <2>2. recovered'[t] = recovered[t]
    BY <1>2, Zenon DEF Spawn
  <2>3. claimed'[t] = claimed[t] /\ snap'[t] = snap[t]
    BY DEF Spawn
  <2>4. QED
    BY <2>1, <2>2, <2>3 DEF Fate, Stays
<1>3. QED
  BY <1>1, <1>2

\* The tasks that end do, the others stay.
LEMMA EndFates ==
  ASSUME TypeOK, NEW ts, End(ts), \A t \in Tasks : t \in ts => Ends(t)
  PROVE  Fates
<1> SUFFICES ASSUME NEW t \in Tasks PROVE Fate(t)
  BY DEF Fates
<1>1. CASE t \in ts
  BY <1>1 DEF Fate
<1>2. CASE t \notin ts
  BY <1>2 DEF End, TypeOK, Fate, Stays
<1>3. QED
  BY <1>1, <1>2

\* A task that ends is free or done, and aborted no more.
LEMMA EndPlace ==
  ASSUME TypeOK, NEW ts, End(ts), NEW t \in Tasks, t \in ts
  PROVE  pc'[t] \in {"free", "done"} /\ ~doomed'[t]
BY DEF End, TypeOK

\* The task that goes on does, the others stay.
LEMMA AdvanceFates ==
  ASSUME TypeOK, NEW t \in Tasks, NEW from, NEW to, Goto(t, from, to),
         UNCHANGED <<host, recovered>>,
         \A u \in Tasks \ {t} : claimed'[u] = claimed[u] /\ snap'[u] = snap[u],
         Proceeds(t)
  PROVE  Fates
<1> SUFFICES ASSUME NEW u \in Tasks PROVE Fate(u)
  BY DEF Fates
<1>1. CASE u = t
  BY <1>1 DEF Fate
<1>2. CASE u # t
  BY <1>2 DEF Goto, TypeOK, Fate, Stays
<1>3. QED
  BY <1>1, <1>2

\* Every task has one of these fates in a step.
LEMMA FateStep == TypeOK /\ [Next]_vars => Fates
<1> SUFFICES ASSUME TypeOK, [Next]_vars PROVE Fates
  OBVIOUS
<1> USE TaskShape
<1> USE DEF processVars, supervisorVars, historyVars, taskVars
<1>1. ASSUME NEW t \in Tasks, TaskRead(t) PROVE Fates
  <2>1. CASE Goto(t, "read", "claim")
    <3>1. /\ Unclaimed(rows[WorkflowOf(t)])
          /\ UNCHANGED <<rows, host, recovered, claimed, snap, doomed>>
      BY <1>1, <2>1, EndPlace DEF TaskRead, Goto, TypeOK, PCs
    <3>2. Proceeds(t)
      BY <2>1, <3>1 DEF Goto, TypeOK, Proceeds
    <3>3. QED
      BY <2>1, <3>1, <3>2, AdvanceFates
  <2>2. CASE Goto(t, "read", "start")
    <3>1. /\ rows[WorkflowOf(t)].status \in Unfinished /\ TakesOver(t, rows[WorkflowOf(t)])
          /\ Keep(t, rows[WorkflowOf(t)])
          /\ UNCHANGED <<rows, host, recovered, claimed, doomed>>
      BY <1>1, <2>2, EndPlace DEF TaskRead, Goto, TypeOK, PCs
    <3>2. Proceeds(t)
      BY <2>2, <3>1 DEF Goto, Keep, TypeOK, Proceeds
    <3>3. \A u \in Tasks \ {t} : snap'[u] = snap[u]
      BY <3>1 DEF Keep, TypeOK
    <3>4. QED
      BY <2>2, <3>1, <3>2, <3>3, AdvanceFates
  <2>3. CASE End({t})
    <3>1. pc[t] = "read" /\ pc'[t] \in {"free", "done"} /\ ~doomed'[t]
      BY <1>1, <2>3, EndPlace DEF TaskRead
    <3>2. \/ rows[WorkflowOf(t)].status \notin Unfinished
          \/ (rows[WorkflowOf(t)].executor # None /\ ~TakesOver(t, rows[WorkflowOf(t)]))
      BY <1>1, <3>1 DEF TaskRead, Goto, TypeOK
    <3>3. Ends(t)
      BY <3>1, <3>2 DEF Ends
    <3>4. QED
      BY <2>3, <3>3, EndFates
  <2>4. QED
    BY <1>1, <2>1, <2>2, <2>3 DEF TaskRead
<1>2. ASSUME NEW t \in Tasks, TaskReload(t) PROVE Fates
  <2>1. CASE Goto(t, "reload", "start")
    <3>1. /\ rows[WorkflowOf(t)].status \in Unfinished /\ Keep(t, rows[WorkflowOf(t)])
          /\ UNCHANGED <<rows, host, recovered, claimed, doomed>>
      BY <1>2, <2>1, EndPlace DEF TaskReload, Goto, TypeOK, PCs
    <3>2. Proceeds(t)
      BY <2>1, <3>1 DEF Goto, Keep, TypeOK, Proceeds
    <3>3. \A u \in Tasks \ {t} : snap'[u] = snap[u]
      BY <3>1 DEF Keep, TypeOK
    <3>4. QED
      BY <2>1, <3>1, <3>2, <3>3, AdvanceFates
  <2>2. CASE rows[WorkflowOf(t)].status \notin Unfinished /\ End({t})
    <3>1. Ends(t)
      BY <1>2, <2>2, EndPlace DEF TaskReload, Ends
    <3>2. QED
      BY <2>2, <3>1, EndFates
  <2>3. QED
    BY <1>2, <2>1, <2>2 DEF TaskReload
<1>3. ASSUME NEW t \in Tasks, TaskLatest(t) PROVE Fates
  <2>1. CASE Goto(t, "latest", "finish")
    <3>1. /\ rows[WorkflowOf(t)].status \notin {"absent", "Cancelled"}
          /\ Keep(t, rows[WorkflowOf(t)])
          /\ UNCHANGED <<rows, host, recovered, claimed, doomed>>
      BY <1>3, <2>1, EndPlace DEF TaskLatest, Goto, TypeOK, PCs
    <3>2. Proceeds(t)
      BY <2>1, <3>1 DEF Goto, Keep, TypeOK, Proceeds
    <3>3. \A u \in Tasks \ {t} : snap'[u] = snap[u]
      BY <3>1 DEF Keep, TypeOK
    <3>4. QED
      BY <2>1, <3>1, <3>2, <3>3, AdvanceFates
  <2>2. CASE rows[WorkflowOf(t)].status \in {"absent", "Cancelled"} /\ End({t})
    <3>1. Ends(t)
      BY <1>3, <2>2, EndPlace DEF TaskLatest, Ends
    <3>2. QED
      BY <2>2, <3>1, EndFates
  <2>3. QED
    BY <1>3, <2>1, <2>2 DEF TaskLatest
<1>4. ASSUME NEW t \in Tasks, TaskClaim(t) PROVE Fates
  <2>1. CASE Goto(t, "claim", "reload")
    <3>1. /\ claimed' = [claimed EXCEPT ![t] = TRUE]
          /\ UNCHANGED <<host, recovered, snap, doomed>>
      BY <1>4, <2>1, EndPlace DEF TaskClaim, Goto, TypeOK, PCs
    <3>2. Proceeds(t)
      BY <2>1, <3>1 DEF Goto, TypeOK, Proceeds
    <3>3. \A u \in Tasks \ {t} : claimed'[u] = claimed[u]
      BY <3>1 DEF TypeOK
    <3>4. QED
      BY <2>1, <3>1, <3>2, <3>3, AdvanceFates
  <2>2. CASE End({t})
    <3>1. Ends(t)
      BY <1>4, <2>2, EndPlace DEF TaskClaim, Ends
    <3>2. QED
      BY <2>2, <3>1, EndFates
  <2>3. QED
    BY <1>4, <2>1, <2>2 DEF TaskClaim
<1>5. ASSUME NEW t \in Tasks, TaskStart(t) PROVE Fates
  <2>1. CASE Goto(t, "start", "run")
    <3>1. UNCHANGED <<host, recovered, claimed, snap, doomed>>
      BY <1>5, <2>1, EndPlace DEF TaskStart, Goto, TypeOK, PCs
    <3>2. Proceeds(t)
      BY <2>1, <3>1 DEF Goto, TypeOK, Proceeds
    <3>3. QED
      BY <2>1, <3>1, <3>2, AdvanceFates
  <2>2. CASE snap[t].name \notin Handles[host[t]] /\ End({t})
    <3>1. Ends(t)
      BY <1>5, <2>2, EndPlace DEF TaskStart, Ends
    <3>2. QED
      BY <2>2, <3>1, EndFates
  <2>3. QED
    BY <1>5, <2>1, <2>2 DEF TaskStart
<1>6. ASSUME NEW t \in Tasks, TaskRun(t) PROVE Fates
  <2>1. /\ Goto(t, "run", "latest") /\ UNCHANGED <<host, recovered, claimed, snap, doomed>>
    BY <1>6 DEF TaskRun
  <2>2. Proceeds(t)
    BY <2>1 DEF Goto, TypeOK, Proceeds
  <2>3. QED
    BY <2>1, <2>2, AdvanceFates
<1>7. ASSUME NEW t \in Tasks, TaskFinish(t) PROVE Fates
  <2>1. FinishSaved(t) /\ End({t})
    BY <1>7 DEF TaskFinish, FinishSaved
  <2>2. Ends(t)
    BY <2>1, EndPlace DEF Ends
  <2>3. QED
    BY <2>1, <2>2, EndFates
<1>8. ASSUME NEW t \in Tasks, TaskFail(t) PROVE Fates
  <2>1. left'["fault"] < left["fault"] /\ End({t})
    BY <1>8 DEF TaskFail, Spend, TypeOK, Kinds
  <2>2. Ends(t)
    BY <2>1, EndPlace DEF Ends
  <2>3. QED
    BY <2>1, <2>2, EndFates
<1>9. ASSUME NEW t \in Tasks, Abort(t) PROVE Fates
  <2>1. Ends(t)
    BY <1>9, EndPlace DEF Abort, Ends
  <2>2. QED
    BY <1>9, <2>1, EndFates DEF Abort
<1>10. ASSUME NEW p \in Processes, Crash(p) PROVE Fates
  <2>1. End(TasksIn(p)) /\ life'[p] = "dead"
    BY <1>10 DEF Crash, TypeOK
  <2>2. \A t \in TasksIn(p) : Ends(t)
    BY <2>1, EndPlace DEF Ends, TasksIn
  <2>3. QED
    BY <2>1, <2>2, EndFates
<1>11. ASSUME NEW p \in Processes,
              FinishLaunch(p) \/ \E ids \in SUBSET ExecutorIds : Recovery(p, ids)
       PROVE  Fates
  BY <1>11, SpawnFates DEF FinishLaunch, Recovery, RecoverPending
<1>12. ASSUME NEW p \in Processes, SupervisorDequeue(p) PROVE Fates
  BY <1>12, SpawnFates DEF SupervisorDequeue
<1>13. ASSUME NEW p \in Processes, NEW w \in Workflows, NEW r \in Requests, Submit(p, w, r)
       PROVE  Fates
  <2>1. Spawn(p, {w}, {}) \/ UNCHANGED taskVars
    BY <1>13 DEF Submit
  <2>2. QED
    BY <2>1, SpawnFates, StayFates
<1>14. ASSUME NEW c \in Clients, FinishCall(c) PROVE Fates
  <2>1. ASSUME NEW q \in Queues \cup {None}, FinishResume(c, q) PROVE Fates
    <3>1. call[c].at \in Processes
      BY <2>1, CallType DEF FinishResume
    <3>2. Spawn(call[c].at, {call[c].of}, {}) \/ UNCHANGED taskVars
      BY <2>1 DEF FinishResume
    <3>3. QED
      BY <3>1, <3>2, SpawnFates, StayFates
  <2>2. ASSUME NEW w \in Workflows, FinishFork(c, w) PROVE Fates
    <3>1. call[c].at \in Processes
      BY <2>2, CallType DEF FinishFork
    <3>2. Spawn(call[c].at, {w}, {}) \/ UNCHANGED taskVars
      BY <2>2 DEF FinishFork
    <3>3. QED
      BY <3>1, <3>2, SpawnFates, StayFates
  <2>3. QED
    BY <1>14, <2>1, <2>2, StayFates DEF FinishCall, FinishCancel, FinishPostpone
<1>15. ASSUME NEW p \in Processes, Boot(p) \/ Launch(p) \/ Shutdown(p) \/ FinishShutdown(p)
       PROVE  Fates
  BY <1>15, StayFates DEF Boot, Launch, Shutdown, FinishShutdown
<1>16. ASSUME NEW p \in Processes, AbortSupervisor(p) \/ SupervisorFail(p) \/ SupervisorList(p)
                                   \/ SupervisorMove(p) \/ SupervisorSleep(p)
       PROVE  Fates
  BY <1>16, StayFates
     DEF AbortSupervisor, SupervisorFail, SupervisorList, SupervisorMove, SupervisorSleep
<1>17. ASSUME NEW p \in Processes, NEW w \in Workflows, Delete(p, w) PROVE Fates
  BY <1>17, StayFates DEF Delete
<1>18. ASSUME NEW p \in Processes, NEW c \in Clients, NEW w \in Workflows,
              NEW kind \in {"cancel", "resume", "postpone", "fork"}, Begin(c, p, w, kind)
       PROVE  Fates
  BY <1>18, StayFates DEF Begin
<1>19. CASE Tick \/ UNCHANGED vars
  BY <1>19, StayFates DEF Tick, vars
<1>20. QED
  BY <1>1, <1>2, <1>3, <1>4, <1>5, <1>6, <1>7, <1>8, <1>9, <1>10, <1>11, <1>12, <1>13,
     <1>14, <1>15, <1>16, <1>17, <1>18, <1>19
     DEF Next, Task, Supervise
-----------------------------------------------------------------------------
(* What is saved, and what happens to the rest.                            *)

\* The table is changed by one save, of one of the named kinds.
LEMMA TableSteps == TypeOK /\ [Next]_vars => TableStep
<1> SUFFICES ASSUME TypeOK, [Next]_vars PROVE TableStep
  OBVIOUS
<1> USE TaskShape
<1> USE DEF historyVars
<1>1. ASSUME NEW t \in Tasks, TaskRead(t) \/ TaskReload(t) \/ TaskLatest(t) \/ TaskRun(t)
                              \/ TaskFail(t) \/ Abort(t)
      PROVE  TableStep
  BY <1>1 DEF TaskRead, TaskReload, TaskLatest, TaskRun, TaskFail, Abort, TableStep
<1>2. ASSUME NEW t \in Tasks, TaskClaim(t) PROVE TableStep
  BY <1>2 DEF TaskClaim, Grant, TableStep
<1>3. ASSUME NEW t \in Tasks, TaskStart(t) PROVE TableStep
  <2>1. StartSaved(t) \/ UNCHANGED <<rows, opened>>
    BY <1>3 DEF TaskStart, StartSaved, Goto, TypeOK
  <2>2. QED
    BY <2>1 DEF TableStep
<1>4. ASSUME NEW t \in Tasks, TaskFinish(t) PROVE TableStep
  <2>1. FinishSaved(t)
    BY <1>4 DEF TaskFinish, FinishSaved
  <2>2. QED
    BY <2>1 DEF TableStep
<1>5. ASSUME NEW p \in Processes,
             Boot(p) \/ Launch(p) \/ FinishLaunch(p) \/ Crash(p) \/ Shutdown(p)
             \/ AbortSupervisor(p) \/ FinishShutdown(p)
             \/ (\E ids \in SUBSET ExecutorIds : Recovery(p, ids))
             \/ SupervisorList(p) \/ SupervisorDequeue(p) \/ SupervisorSleep(p)
             \/ SupervisorFail(p)
      PROVE  TableStep
  BY <1>5 DEF Boot, Launch, FinishLaunch, Crash, Shutdown, AbortSupervisor, FinishShutdown,
     Recovery, SupervisorList, SupervisorDequeue, SupervisorSleep, SupervisorFail, TableStep
<1>6. ASSUME NEW p \in Processes, SupervisorMove(p) PROVE TableStep
  <2>1. PICK m \in moving[p] : Save(m[1], [m[2] EXCEPT !.status = "Enqueued"])
    BY <1>6 DEF SupervisorMove
  <2>2. m[1] \in Workflows /\ m[2] \in Row
    BY <2>1 DEF TypeOK
  <2>3. [m[2] EXCEPT !.status = "Enqueued"] \in Row
    BY <2>2, StatusType DEF Unfinished
  <2>4. Moved(m[1], [m[2] EXCEPT !.status = "Enqueued"])
    BY <2>1 DEF Moved
  <2>5. QED
    BY <2>1, <2>2, <2>3, <2>4 DEF TableStep
<1>7. ASSUME NEW p \in Processes, NEW w \in Workflows, Delete(p, w) PROVE TableStep
  <2>1. Save(w, Absent) /\ Deleted(Absent)
    BY <1>7 DEF Delete, Deleted, Spend, TypeOK, Kinds
  <2>2. QED
    BY <2>1, AbsentType DEF TableStep
<1>8. ASSUME NEW p \in Processes, NEW w \in Workflows, NEW r \in Requests, Submit(p, w, r)
      PROVE  TableStep
  <2>1. PICK delay \in {IF r.wait = None THEN None ELSE now + r.wait} : TRUE
    OBVIOUS
  <2>2. PICK row \in {NewRow(r.name, r.queue, r.dedup, delay)} : TRUE
    OBVIOUS
  <2>3. /\ r.name \in Names /\ r.queue \in Queues \cup {None}
        /\ r.dedup \in DedupIds \cup {None} /\ r.wait \in Time \cup {None}
    BY ExecutionAssumption
  <2>4. delay # None => delay <= MaxTime
    BY <1>8, <2>1 DEF Submit
  <2>5. delay \in Time \cup {None}
    BY <2>1, <2>3, <2>4, StoreAssumption DEF TypeOK, Time
  <2>6. row \in Row /\ row.executor = None
    BY <2>2, <2>3, <2>5, NewRowType
  <2>7. row.status \in Unfinished
    BY <2>2 DEF NewRow, Unfinished
  <2>8. (InsertResult(rows, w, row) = "Inserted" /\ Save(w, row)) \/ UNCHANGED <<rows, opened>>
    BY <1>8, <2>1, <2>2 DEF Submit
  <2>9. InsertResult(rows, w, row) = "Inserted" => rows[w] = Absent /\ ~Duplicate(rows, row)
    BY DEF InsertResult
  <2>10. InsertResult(rows, w, row) = "Inserted" => Inserted(w, row)
    BY <2>6, <2>7, <2>9 DEF Inserted, Unclaimed
  <2>11. QED
    BY <2>6, <2>8, <2>10 DEF TableStep
<1>9. ASSUME NEW p \in Processes, NEW c \in Clients, NEW w \in Workflows,
             NEW kind \in {"cancel", "resume", "postpone", "fork"}, Begin(c, p, w, kind)
      PROVE  TableStep
  BY <1>9 DEF Begin, TableStep
<1>10. ASSUME NEW c \in Clients, FinishCancel(c) PROVE TableStep
  <2>1. call[c].kind = "cancel" /\ call[c].row \in Row /\ call[c].of \in Workflows
    BY <1>10, CallType DEF FinishCancel, Return
  <2>2. /\ Save(call[c].of, [call[c].row EXCEPT !.status = "Cancelled"])
        /\ [call[c].row EXCEPT !.status = "Cancelled"] \in Row
    BY <1>10, <2>1, StatusType DEF FinishCancel, Terminal
  <2>3. CallSaved(call[c].of, [call[c].row EXCEPT !.status = "Cancelled"])
    BY <2>1 DEF CallSaved
  <2>4. QED
    BY <2>1, <2>2, <2>3 DEF TableStep
<1>11. ASSUME NEW c \in Clients, NEW q \in Queues \cup {None}, FinishResume(c, q)
       PROVE  TableStep
  <2>1. call[c].kind = "resume" /\ call[c].row \in Row /\ call[c].of \in Workflows
    BY <1>11, CallType DEF FinishResume, Return
  <2>2. Save(call[c].of, Reopened(call[c].row, q)) /\ Reopened(call[c].row, q) \in Row
    BY <1>11, <2>1, ReopenType DEF FinishResume
  <2>3. CallSaved(call[c].of, Reopened(call[c].row, q))
    BY <2>1 DEF CallSaved
  <2>4. QED
    BY <2>1, <2>2, <2>3 DEF TableStep
<1>12. ASSUME NEW c \in Clients, NEW d \in Time, FinishPostpone(c, d) PROVE TableStep
  <2>1. call[c].kind = "postpone" /\ call[c].row \in Row /\ call[c].of \in Workflows
    BY <1>12, CallType DEF FinishPostpone, Return
  <2>2. /\ Save(call[c].of, [call[c].row EXCEPT !.delay = d])
        /\ [call[c].row EXCEPT !.delay = d] \in Row
    BY <1>12, <2>1, DelayType DEF FinishPostpone
  <2>3. CallSaved(call[c].of, [call[c].row EXCEPT !.delay = d])
    BY <2>1 DEF CallSaved
  <2>4. QED
    BY <2>1, <2>2, <2>3 DEF TableStep
<1>13. ASSUME NEW c \in Clients, NEW w \in Workflows, FinishFork(c, w) PROVE TableStep
  <2>1. call[c].kind = "fork" /\ call[c].row \in Row
    BY <1>13, CallType DEF FinishFork, Return
  <2>2. PICK row \in {Reopened(call[c].row, None)} : TRUE
    OBVIOUS
  <2>3. row \in Row /\ row.executor = None /\ row.status \in Unfinished
    BY <2>1, <2>2, ReopenType
  <2>4. (InsertResult(rows, w, row) = "Inserted" /\ Save(w, row)) \/ UNCHANGED <<rows, opened>>
    BY <1>13, <2>2 DEF FinishFork
  <2>5. InsertResult(rows, w, row) = "Inserted" => rows[w] = Absent /\ ~Duplicate(rows, row)
    BY DEF InsertResult
  <2>6. InsertResult(rows, w, row) = "Inserted" => Inserted(w, row)
    BY <2>1, <2>3, <2>5 DEF Inserted, Unclaimed
  <2>7. QED
    BY <2>3, <2>4, <2>6 DEF TableStep
<1>14. CASE Tick \/ UNCHANGED vars
  BY <1>14 DEF Tick, vars, TableStep
<1>15. QED
  BY <1>1, <1>2, <1>3, <1>4, <1>5, <1>6, <1>7, <1>8, <1>9, <1>10, <1>11, <1>12, <1>13, <1>14
     DEF Next, Task, Supervise, FinishCall

\* Spending takes from one kind and leaves the others.
LEMMA Spends ==
  ASSUME TypeOK, NEW k \in Kinds, Spend(k)
  PROVE  left'[k] < left[k] /\ \A j \in Kinds : left'[j] <= left[j]
BY DEF TypeOK, Spend

\* The budget, the calls, the rows on the move, the clock and the history go on like this.
LEMMA RestSteps == TypeOK /\ [Next]_vars => RestStep
<1> SUFFICES ASSUME TypeOK, [Next]_vars PROVE RestStep
  OBVIOUS
<1> DEFINE Budgets == \A k \in Kinds : left'[k] <= left[k]
           Calls == \A c \in Clients : call'[c] \in {call[c], NoCall} \/ Begun(c)
           Moves == \A p \in Processes : \A m \in moving'[p] :
                      m \in moving[p] \/ \E w \in Workflows : Due(w) /\ m = <<w, rows[w]>>
           Clock == now <= now'
           History == \A w \in Workflows : overlapped[w] => overlapped'[w]
<1> USE DEF processVars, supervisorVars, historyVars, taskVars
<1>1. Budgets
  <2>1. UNCHANGED left \/ \E k \in Kinds : Spend(k)
    <3>1. ASSUME NEW t \in Tasks, Task(t) \/ TaskFail(t) \/ Abort(t)
          PROVE  UNCHANGED left \/ Spend("fault")
      BY <3>1 DEF Task, TaskRead, TaskClaim, TaskReload, TaskStart, TaskRun, TaskLatest,
         TaskFinish, TaskFail, Abort
    <3>2. ASSUME NEW p \in Processes,
                 \/ Boot(p) \/ Launch(p) \/ FinishLaunch(p) \/ Shutdown(p) \/ Crash(p)
                 \/ AbortSupervisor(p) \/ FinishShutdown(p)
                 \/ \E ids \in SUBSET ExecutorIds : Recovery(p, ids)
                 \/ Supervise(p) \/ SupervisorFail(p)
          PROVE  \/ UNCHANGED left
                 \/ \E k \in {"crash", "shutdown", "recovery", "fault"} : Spend(k)
      BY <3>2 DEF Boot, Launch, FinishLaunch, Shutdown, Crash, AbortSupervisor, FinishShutdown,
         Recovery, Supervise, SupervisorList, SupervisorMove, SupervisorDequeue,
         SupervisorSleep, SupervisorFail
    <3>3. ASSUME NEW p \in Processes, NEW w \in Workflows,
                 Delete(p, w) \/ \E r \in Requests : Submit(p, w, r)
          PROVE  Spend("delete") \/ Spend("submit")
      BY <3>3 DEF Delete, Submit
    <3>4. ASSUME NEW c \in Clients, FinishCall(c) PROVE UNCHANGED left
      BY <3>4 DEF FinishCall, FinishCancel, FinishResume, FinishPostpone, FinishFork
    <3>5. ASSUME NEW p \in Processes, NEW c \in Clients, NEW w \in Workflows,
                 NEW kind \in {"cancel", "resume", "postpone", "fork"}, Begin(c, p, w, kind)
          PROVE  Spend(kind)
      BY <3>5 DEF Begin
    <3>6. QED
      BY <3>1, <3>2, <3>3, <3>4, <3>5 DEF Next, Tick, vars, Kinds
  <2>2. CASE UNCHANGED left
    BY <2>2 DEF TypeOK
  <2>3. QED
    BY <2>1, <2>2, Spends
<1>2. Calls
  <2>1. ASSUME NEW p \in Processes, NEW c \in Clients, NEW w \in Workflows,
               NEW kind \in {"cancel", "resume", "postpone", "fork"}, Begin(c, p, w, kind)
        PROVE  Calls
    <3>1. \A d \in Clients \ {c} : call'[d] = call[d]
      BY <2>1 DEF Begin, TypeOK
    <3>2. call'[c] = [kind |-> kind, at |-> p, of |-> w, row |-> rows[w]]
      BY <2>1 DEF Begin, TypeOK
    <3>3. left'[kind] < left[kind] /\ kind \in Kinds
      BY <2>1, Spends DEF Begin, Kinds
    <3>4. Begun(c)
      BY <2>1, <3>2, <3>3 DEF Begin, Begun
    <3>5. QED
      BY <3>1, <3>4
  <2>2. ASSUME NEW p \in Processes, Crash(p) PROVE Calls
    BY <2>2 DEF Crash
  <2>3. ASSUME NEW c \in Clients, NEW kind, Return(c, kind) PROVE Calls
    BY <2>3 DEF Return, TypeOK
  <2>4. CASE UNCHANGED call
    BY <2>4
  <2>5. \/ UNCHANGED call
        \/ \E p \in Processes : Crash(p)
        \/ \E c \in Clients : \E kind \in {"cancel", "resume", "postpone", "fork"} : Return(c, kind)
        \/ \E p \in Processes : \E c \in Clients, w \in Workflows,
              kind \in {"cancel", "resume", "postpone", "fork"} : Begin(c, p, w, kind)
    <3>1. ASSUME NEW c \in Clients, FinishCall(c)
          PROVE  \E kind \in {"cancel", "resume", "postpone", "fork"} : Return(c, kind)
      BY <3>1 DEF FinishCall, FinishCancel, FinishResume, FinishPostpone, FinishFork
    <3>2. ASSUME NEW t \in Tasks, Task(t) \/ TaskFail(t) \/ Abort(t) PROVE UNCHANGED call
      BY <3>2 DEF Task, TaskRead, TaskClaim, TaskReload, TaskStart, TaskRun, TaskLatest,
         TaskFinish, TaskFail, Abort
    <3>3. ASSUME NEW p \in Processes,
                 \/ Boot(p) \/ Launch(p) \/ FinishLaunch(p) \/ Shutdown(p)
                 \/ AbortSupervisor(p) \/ FinishShutdown(p)
                 \/ \E ids \in SUBSET ExecutorIds : Recovery(p, ids)
                 \/ Supervise(p) \/ SupervisorFail(p)
                 \/ \E w \in Workflows : Delete(p, w) \/ \E r \in Requests : Submit(p, w, r)
          PROVE  UNCHANGED call
      BY <3>3 DEF Boot, Launch, FinishLaunch, Shutdown, AbortSupervisor, FinishShutdown,
         Recovery, Supervise, SupervisorList, SupervisorMove, SupervisorDequeue,
         SupervisorSleep, SupervisorFail, Delete, Submit
    <3>4. QED
      BY <3>1, <3>2, <3>3 DEF Next, Tick, vars
  <2> HIDE DEF Calls
  <2>6. QED
    BY <2>1, <2>2, <2>3, <2>4, <2>5
<1>3. Moves
  <2>1. ASSUME NEW p \in Processes, SupervisorList(p) PROVE Moves
    BY <2>1 DEF SupervisorList, TypeOK
  <2>2. ASSUME NEW p \in Processes, SupervisorMove(p) PROVE Moves
    BY <2>2 DEF SupervisorMove, TypeOK
  <2>3. ASSUME NEW p \in Processes, moving' = [moving EXCEPT ![p] = {}] PROVE Moves
    BY <2>3 DEF TypeOK
  <2>4. CASE UNCHANGED moving
    BY <2>4
  <2>5. \/ UNCHANGED moving
        \/ \E p \in Processes : \/ SupervisorList(p) \/ SupervisorMove(p)
                                \/ moving' = [moving EXCEPT ![p] = {}]
    <3>1. ASSUME NEW t \in Tasks, Task(t) \/ TaskFail(t) \/ Abort(t) PROVE UNCHANGED moving
      BY <3>1 DEF Task, TaskRead, TaskClaim, TaskReload, TaskStart, TaskRun, TaskLatest,
         TaskFinish, TaskFail, Abort
    <3>2. ASSUME NEW p \in Processes,
                 \/ Boot(p) \/ Launch(p) \/ FinishLaunch(p) \/ Shutdown(p) \/ Crash(p)
                 \/ AbortSupervisor(p) \/ FinishShutdown(p)
                 \/ \E ids \in SUBSET ExecutorIds : Recovery(p, ids)
                 \/ Supervise(p) \/ SupervisorFail(p)
          PROVE  \/ UNCHANGED moving
                 \/ \E q \in Processes : \/ SupervisorList(q) \/ SupervisorMove(q)
                                         \/ moving' = [moving EXCEPT ![q] = {}]
      BY <3>2 DEF Boot, Launch, FinishLaunch, Shutdown, Crash, AbortSupervisor, FinishShutdown,
         Recovery, Supervise, SupervisorStops, SupervisorDequeue, SupervisorSleep, SupervisorFail
    <3>3. ASSUME NEW p \in Processes, NEW w \in Workflows,
                 Delete(p, w) \/ \E r \in Requests : Submit(p, w, r)
          PROVE  UNCHANGED moving
      BY <3>3 DEF Delete, Submit
    <3>4. ASSUME NEW c \in Clients, FinishCall(c) PROVE UNCHANGED moving
      BY <3>4 DEF FinishCall, FinishCancel, FinishResume, FinishPostpone, FinishFork
    <3>5. ASSUME NEW p \in Processes, NEW c \in Clients, NEW w \in Workflows,
                 NEW kind \in {"cancel", "resume", "postpone", "fork"}, Begin(c, p, w, kind)
          PROVE  UNCHANGED moving
      BY <3>5 DEF Begin
    <3>6. QED
      BY <3>1, <3>2, <3>3, <3>4, <3>5 DEF Next, Tick, vars
  <2> HIDE DEF Moves
  <2>6. QED
    BY <2>1, <2>2, <2>3, <2>4, <2>5
<1>4. Clock
  <2>1. now \in Int
    BY StoreAssumption DEF TypeOK, Time
  <2>2. now' \in {now, now + 1}
    <3>1. ASSUME NEW t \in Tasks, Task(t) \/ TaskFail(t) \/ Abort(t) PROVE UNCHANGED now
      BY <3>1 DEF Task, TaskRead, TaskClaim, TaskReload, TaskStart, TaskRun, TaskLatest,
         TaskFinish, TaskFail, Abort
    <3>2. ASSUME NEW p \in Processes,
                 \/ Boot(p) \/ Launch(p) \/ FinishLaunch(p) \/ Shutdown(p) \/ Crash(p)
                 \/ AbortSupervisor(p) \/ FinishShutdown(p)
                 \/ \E ids \in SUBSET ExecutorIds : Recovery(p, ids)
                 \/ Supervise(p) \/ SupervisorFail(p)
          PROVE  UNCHANGED now
      BY <3>2 DEF Boot, Launch, FinishLaunch, Shutdown, Crash, AbortSupervisor, FinishShutdown,
         Recovery, Supervise, SupervisorList, SupervisorMove, SupervisorDequeue,
         SupervisorSleep, SupervisorFail
    <3>3. ASSUME NEW p \in Processes, NEW w \in Workflows,
                 Delete(p, w) \/ \E r \in Requests : Submit(p, w, r)
          PROVE  UNCHANGED now
      BY <3>3 DEF Delete, Submit
    <3>4. ASSUME NEW c \in Clients, FinishCall(c) PROVE UNCHANGED now
      BY <3>4 DEF FinishCall, FinishCancel, FinishResume, FinishPostpone, FinishFork
    <3>5. ASSUME NEW p \in Processes, NEW c \in Clients, NEW w \in Workflows,
                 NEW kind \in {"cancel", "resume", "postpone", "fork"}, Begin(c, p, w, kind)
          PROVE  UNCHANGED now
      BY <3>5 DEF Begin
    <3>6. QED
      BY <2>1, <3>1, <3>2, <3>3, <3>4, <3>5 DEF Next, Tick, vars
  <2>3. QED
    BY <2>1, <2>2
<1>5. History
  <2>1. \/ UNCHANGED overlapped
        \/ \E p \in Processes : \E ids \in SUBSET ExecutorIds : RecoverPending(p, ids)
    <3>1. \A p \in Processes : {IdOf[p]} \in SUBSET ExecutorIds
      BY ExecutionAssumption
    <3>2. ASSUME NEW t \in Tasks, Task(t) \/ TaskFail(t) \/ Abort(t) PROVE UNCHANGED overlapped
      BY <3>2 DEF Task, TaskRead, TaskClaim, TaskReload, TaskStart, TaskRun, TaskLatest,
         TaskFinish, TaskFail, Abort
    <3>3. ASSUME NEW p \in Processes,
                 \/ Boot(p) \/ Launch(p) \/ FinishLaunch(p) \/ Shutdown(p) \/ Crash(p)
                 \/ AbortSupervisor(p) \/ FinishShutdown(p)
                 \/ \E ids \in SUBSET ExecutorIds : Recovery(p, ids)
                 \/ Supervise(p) \/ SupervisorFail(p)
          PROVE  \/ UNCHANGED overlapped
                 \/ \E q \in Processes : \E ids \in SUBSET ExecutorIds : RecoverPending(q, ids)
      BY <3>1, <3>3 DEF Boot, Launch, FinishLaunch, Shutdown, Crash, AbortSupervisor, FinishShutdown,
         Recovery, Supervise, SupervisorList, SupervisorMove, SupervisorDequeue,
         SupervisorSleep, SupervisorFail
    <3>4. ASSUME NEW p \in Processes, NEW w \in Workflows,
                 Delete(p, w) \/ \E r \in Requests : Submit(p, w, r)
          PROVE  UNCHANGED overlapped
      BY <3>4 DEF Delete, Submit
    <3>5. ASSUME NEW c \in Clients, FinishCall(c) PROVE UNCHANGED overlapped
      BY <3>5 DEF FinishCall, FinishCancel, FinishResume, FinishPostpone, FinishFork
    <3>6. ASSUME NEW p \in Processes, NEW c \in Clients, NEW w \in Workflows,
                 NEW kind \in {"cancel", "resume", "postpone", "fork"}, Begin(c, p, w, kind)
          PROVE  UNCHANGED overlapped
      BY <3>6 DEF Begin
    <3>7. QED
      BY <3>2, <3>3, <3>4, <3>5, <3>6 DEF Next, Tick, vars
  <2>2. ASSUME NEW p \in Processes, NEW ids \in SUBSET ExecutorIds, RecoverPending(p, ids)
        PROVE  History
    BY <2>2, Zenon DEF RecoverPending
  <2>3. QED
    BY <2>1, <2>2
<1>6. QED
  BY <1>1, <1>2, <1>3, <1>4, <1>5 DEF RestStep

\* The processes start, launch, stop and die like this.
LEMMA LifeSteps == TypeOK /\ Stages /\ [Next]_vars => LifeStep
<1> SUFFICES ASSUME TypeOK, Stages, [Next]_vars PROVE LifeStep
  OBVIOUS
<1> USE DEF processVars, supervisorVars, historyVars, taskVars
<1>0. \A t \in Tasks : doomed[t] \in BOOLEAN
  BY DEF TypeOK
<1>1. CASE UNCHANGED <<life, doomed>>
  BY <1>0, <1>1, Zenon DEF LifeStep, TypeOK
<1>2. ASSUME NEW ts, End(ts), UNCHANGED life PROVE LifeStep
  BY <1>2 DEF LifeStep, TypeOK, End
<1>3. ASSUME NEW p \in Processes, Boot(p) \/ Launch(p) PROVE LifeStep
  BY <1>3 DEF Boot, Launch, LifeStep, TypeOK
<1>4. ASSUME NEW p \in Processes, FinishLaunch(p) PROVE LifeStep
  <2>1. life[p] = "launching" /\ life' = [life EXCEPT ![p] = "launched"] /\ UNCHANGED doomed
    BY <1>4 DEF FinishLaunch, RecoverPending, Spawn
  <2>2. TakenOver(p)
    <3>1. PICK ours \in {ClaimedBy({IdOf[p]})} : TRUE
      OBVIOUS
    <3>2. Spawn(p, Startable \cup ours, ours) /\ UNCHANGED rows
      BY <1>4, <3>1 DEF FinishLaunch, RecoverPending
    <3>3. ASSUME NEW w \in ours
          PROVE  \E t \in TasksOf(w) : pc'[t] = "read" /\ host'[t] = p /\ recovered'[t]
      <4>1. FreeTask(w) \in TasksOf(w)
        BY <3>2, FreeTaskExists DEF Spawn
      <4>2. FreeTask(w) \in Tasks /\ WorkflowOf(FreeTask(w)) = w
        BY <4>1 DEF TasksOf
      <4>3. FreeTask(w) \in {FreeTask(v) : v \in Startable \cup ours}
        OBVIOUS
      <4>4. host'[FreeTask(w)] = p /\ (recovered'[FreeTask(w)] <=> w \in ours)
        BY <3>2, <4>2, <4>3, SpawnTakes
      <4>5. pc'[FreeTask(w)] = "read"
        BY <3>2, <4>2, <4>3 DEF Spawn
      <4>6. QED
        BY <4>1, <4>4, <4>5
    <3>4. QED
      BY <3>1, <3>2, <3>3 DEF TakenOver
  <2>3. QED
    BY <2>1, <2>2 DEF LifeStep, TypeOK
<1>5. ASSUME NEW p \in Processes, Shutdown(p) PROVE LifeStep
  <2>1. /\ life' = [life EXCEPT ![p] = "stopping"] /\ life[p] # "stopping"
        /\ UNCHANGED <<pc, host, recovered, claimed, snap>>
    BY <1>5 DEF Shutdown
  <2>2. \A t \in Tasks : doomed'[t] = (doomed[t] \/ t \in TasksIn(p))
    BY <1>5, Zenon DEF Shutdown
  <2>3. \A t \in Tasks : Stays(t)
    BY <2>1 DEF Stays
  <2>4. \A t \in TasksIn(p) : Live(t) /\ host[t] = p /\ life'[p] = "stopping"
    BY <2>1 DEF TasksIn, TypeOK
  <2>5. \A q \in Processes : /\ life'[q] = "launched" => life[q] = "launched"
                             /\ life[q] = "stopping" => life'[q] = "stopping"
    BY <2>1 DEF TypeOK
  <2>6. QED
    BY <2>2, <2>3, <2>4, <2>5 DEF LifeStep
<1>6. ASSUME NEW p \in Processes, FinishShutdown(p) PROVE LifeStep
  BY <1>6 DEF FinishShutdown, LifeStep, TypeOK
<1>7. ASSUME NEW p \in Processes, Crash(p) PROVE LifeStep
  <2>1. life' = [life EXCEPT ![p] = "dead"] /\ End(TasksIn(p))
    BY <1>7 DEF Crash
  <2>2. \A t \in Tasks : doomed'[t] => doomed[t]
    BY <2>1 DEF End
  <2>3. \A t \in TasksIn(p) : ~doomed'[t]
    BY <2>1 DEF End, TasksIn
  <2>4. QED
    BY <2>1, <2>2, <2>3 DEF LifeStep, TypeOK
<1>8. \/ UNCHANGED <<life, doomed>>
      \/ (\E ts : End(ts)) /\ UNCHANGED life
      \/ \E p \in Processes : \/ Boot(p) \/ Launch(p) \/ FinishLaunch(p) \/ Shutdown(p)
                              \/ FinishShutdown(p) \/ Crash(p)
  <2>1. ASSUME NEW t \in Tasks, Task(t) \/ TaskFail(t) \/ Abort(t)
        PROVE  UNCHANGED life /\ (UNCHANGED doomed \/ \E ts : End(ts))
    BY <2>1 DEF Task, TaskRead, TaskClaim, TaskReload, TaskStart, TaskRun, TaskLatest,
       TaskFinish, TaskFail, Abort
  <2>2. ASSUME NEW p \in Processes,
               \/ AbortSupervisor(p)
               \/ \E ids \in SUBSET ExecutorIds : Recovery(p, ids)
               \/ Supervise(p) \/ SupervisorFail(p)
               \/ \E w \in Workflows : Delete(p, w) \/ \E r \in Requests : Submit(p, w, r)
        PROVE  UNCHANGED <<life, doomed>>
    BY <2>2 DEF AbortSupervisor, Recovery, RecoverPending, Spawn, Supervise, SupervisorList,
       SupervisorMove, SupervisorDequeue, SupervisorSleep, SupervisorFail, Delete, Submit
  <2>3. ASSUME NEW c \in Clients, FinishCall(c) PROVE UNCHANGED <<life, doomed>>
    BY <2>3 DEF FinishCall, FinishCancel, FinishResume, FinishPostpone, FinishFork, Spawn
  <2>4. ASSUME NEW p \in Processes, NEW c \in Clients, NEW w \in Workflows,
               NEW kind \in {"cancel", "resume", "postpone", "fork"}, Begin(c, p, w, kind)
        PROVE  UNCHANGED <<life, doomed>>
    BY <2>4 DEF Begin
  <2>5. QED
    BY <2>1, <2>2, <2>3, <2>4 DEF Next, Tick, vars
<1>9. QED
  BY <1>1, <1>2, <1>3, <1>4, <1>5, <1>6, <1>7, <1>8
-----------------------------------------------------------------------------
(* Rows that are saved.                                                    *)

\* The fields that a change of the status leaves alone.
LEMMA StatusFields ==
  ASSUME NEW x \in Row, NEW s
  PROVE  LET row == [x EXCEPT !.status = s]
         IN  /\ row.status = s /\ row.name = x.name /\ row.executor = x.executor
             /\ row.queue = x.queue /\ row.dedup = x.dedup /\ row.delay = x.delay
BY DEF Row

\* Those that a change of the delay leaves alone.
LEMMA DelayFields ==
  ASSUME NEW x \in Row, NEW d
  PROVE  LET row == [x EXCEPT !.delay = d]
         IN  /\ row.status = x.status /\ row.name = x.name /\ row.executor = x.executor
             /\ row.queue = x.queue /\ row.dedup = x.dedup
BY DEF Row

\* Those that a claim sets, and leaves alone.
LEMMA ClaimFields ==
  ASSUME NEW x \in Row, NEW e, NEW i
  PROVE  LET row == ClaimedRow(x, e, i)
         IN  /\ row.status = "Pending" /\ row.name = x.name /\ row.executor = e
             /\ row.queue = x.queue /\ row.dedup = x.dedup /\ row.delay = x.delay
BY DEF Row, ClaimedRow

\* Those that resume and fork leave alone.
LEMMA ReopenFields ==
  ASSUME NEW x \in Row, NEW q
  PROVE  LET row == Reopened(x, q)
         IN  /\ row.status \in {"Pending", "Enqueued"} /\ row.executor = None
             /\ row.name = x.name /\ row.dedup = x.dedup
BY DEF Row, Reopened

\* A save replaces one row; it counts when it makes the row wait anew.
LEMMA SaveEffect ==
  ASSUME TypeOK, NEW w \in Workflows, NEW row, Save(w, row)
  PROVE  /\ rows'[w] = row /\ \A v \in Workflows \ {w} : rows'[v] = rows[v] /\ opened'[v] = opened[v]
         /\ opened[w] \in Nat /\ opened'[w] \in Nat /\ opened[w] <= opened'[w]
         /\ Unclaimed(row) /\ ~Unclaimed(rows[w]) => opened'[w] = opened[w] + 1
BY DEF Save, TypeOK

\* A row that a task has read is seen.
LEMMA SeenTask ==
  ASSUME NEW t \in Tasks, snap[t].status # "absent"
  PROVE  Seen(WorkflowOf(t), snap[t])
BY TaskShape DEF Seen

\* The stored row is seen.
LEMMA SeenRow ==
  ASSUME NEW w \in Workflows, rows[w].status # "absent"
  PROVE  Seen(w, rows[w])
BY DEF Seen

\* A row that a supervisor will save is seen.
LEMMA SeenMove ==
  ASSUME TypeOK, HeldRows, NEW p \in Processes, NEW m \in moving[p]
  PROVE  m[1] \in Workflows /\ m[2] \in Row /\ Seen(m[1], m[2])
<1>1. m \in Workflows \X Row
  BY DEF TypeOK
<1>2. m = <<m[1], m[2]>> /\ m[1] \in Workflows /\ m[2] \in Row
  BY <1>1
<1>3. m[2].status # "absent"
  BY DEF HeldRows
<1>4. QED
  BY <1>2, <1>3 DEF Seen

\* A row that a call will save is seen.
LEMMA SeenCall ==
  ASSUME TypeOK, HeldRows, NEW c \in Clients, call[c].of \in Workflows
  PROVE  call[c].row \in Row /\ Seen(call[c].of, call[c].row) /\ call[c] # NoCall
<1>1. call[c] # NoCall
  BY NoneDistinct DEF NoCall
<1>2. call[c].row \in Row
  BY <1>1 DEF TypeOK, Call
<1>3. call[c].row.status # "absent"
  BY <1>1 DEF HeldRows
<1>4. QED
  BY <1>1, <1>2, <1>3 DEF Seen

\* Who is being called has been paid for, and its kind is not unused any more.
LEMMA CallPaid ==
  ASSUME TypeOK, Spent, RestStep, NEW c \in Clients, NEW kinds, kinds \subseteq Kinds,
         call[c] # NoCall, call[c].kind \in kinds
  PROVE  ~StillUnused(kinds)
<1>1. left[call[c].kind] < Budget[call[c].kind] /\ left'[call[c].kind] <= left[call[c].kind]
  BY DEF Spent, RestStep
<1>2. StillUnused(kinds) => left'[call[c].kind] = Budget[call[c].kind]
  BY DEF StillUnused
<1>3. Budget[call[c].kind] \in Nat /\ left[call[c].kind] \in Nat
  BY ExecutionAssumption DEF TypeOK
<1>4. QED
  BY <1>1, <1>2, <1>3

\* What is still unused after a step was unused before it.
LEMMA UnusedBefore ==
  ASSUME TypeOK, TypeOK', Spent, RestStep, NEW kinds, kinds \subseteq Kinds, StillUnused(kinds)
  PROVE  Unused(kinds)
<1> SUFFICES ASSUME NEW k \in kinds PROVE left[k] = Budget[k]
  BY DEF Unused
<1>1. left'[k] = Budget[k] /\ left'[k] <= left[k] /\ left[k] <= Budget[k]
  BY DEF StillUnused, RestStep, Spent
<1>2. left[k] \in Nat /\ Budget[k] \in Nat
  BY ExecutionAssumption DEF TypeOK
<1>3. QED
  BY <1>1, <1>2

\* One save does to the delays what it does to the delay of its row.
LEMMA OneDelay ==
  ASSUME TypeOK, NEW v \in Workflows, NEW row, Save(v, row),
         \A w \in Workflows \ {v} : promised'[w] = promised[w],
         rows'[v] = row => DelayStep(v)
  PROVE  \A w \in Workflows : DelayStep(w)
<1>1. rows'[v] = row /\ \A w \in Workflows \ {v} : rows'[w] = rows[w]
  BY SaveEffect
<1>2. QED
  BY <1>1 DEF DelayStep

\* Every step does one of these to the delay that was promised.
LEMMA DelaySteps == TypeOK /\ HeldRows /\ [Next]_vars => \A w \in Workflows : DelayStep(w)
<1> DEFINE Delays == \A w \in Workflows : DelayStep(w)
<1> SUFFICES ASSUME TypeOK, HeldRows, [Next]_vars PROVE Delays
  OBVIOUS
<1> USE TaskShape
<1> USE DEF historyVars
<1>0. ASSUME UNCHANGED <<rows, promised>> PROVE Delays
  BY <1>0 DEF DelayStep
<1>1. ASSUME NEW v \in Workflows, NEW row, Save(v, row), UNCHANGED promised, Resaved(v, row)
      PROVE  Delays
  BY <1>1, OneDelay DEF DelayStep
<1>2. ASSUME NEW v \in Workflows, NEW row, Save(v, row), Promise(v, None)
      PROVE  Delays
  <2>1. promised'[v] = None /\ \A w \in Workflows \ {v} : promised'[w] = promised[w]
    BY <1>2 DEF Promise, TypeOK
  <2>2. QED
    BY <1>2, <2>1, OneDelay DEF DelayStep
<1>3. ASSUME NEW v \in Workflows, NEW row, Save(v, row), Promise(v, row.delay),
             row.status = "Delayed", UNCHANGED <<moving, pc, snap>>,
             rows[v] = Absent \/ ~Copied(v)
      PROVE  Delays
  <2>1. promised'[v] = row.delay /\ \A w \in Workflows \ {v} : promised'[w] = promised[w]
    BY <1>3 DEF Promise, TypeOK
  <2>2. QED
    BY <1>3, <2>1, OneDelay DEF DelayStep
<1> HIDE DEF Delays
<1>4. ASSUME NEW t \in Tasks, TaskClaim(t) PROVE Delays
  <2>1. PICK w \in Workflows, row \in {ClaimedRow(rows[WorkflowOf(t)], IdOf[host[t]], ExecutionOf(t))} :
          w = WorkflowOf(t)
    OBVIOUS
  <2>2. CASE Claimable(rows[w]) /\ Save(w, row) /\ UNCHANGED promised
    <3>1. rows[w] \in Row
      BY DEF TypeOK
    <3>2. row.status = "Pending"
      BY <2>1, <3>1, ClaimFields
    <3>3. Resaved(w, row)
      BY <2>2, <3>2 DEF Resaved, Claimable
    <3>4. QED
      BY <1>1, <2>2, <3>3
  <2>3. QED
    BY <1>0, <1>4, <2>1, <2>2 DEF TaskClaim
<1>5. ASSUME NEW t \in Tasks, NEW s \in {"Pending", "Success", "Error"},
             Save(WorkflowOf(t), [snap[t] EXCEPT !.status = s]), UNCHANGED promised,
             pc[t] \in {"start", "finish"}
      PROVE  Delays
  <2>1. PICK w \in Workflows, row \in {[snap[t] EXCEPT !.status = s]} :
          w = WorkflowOf(t) /\ t \in TasksOf(w)
    OBVIOUS
  <2>2. row.status = s
    BY <2>1 DEF TypeOK, Row
  <2>3. Resaved(w, row)
    BY <1>5, <2>1, <2>2 DEF Resaved
  <2>4. QED
    BY <1>1, <1>5, <2>1, <2>3
<1>6. ASSUME NEW t \in Tasks, TaskStart(t) \/ TaskFinish(t) PROVE Delays
  <2>1. \/ UNCHANGED <<rows, promised>>
        \/ /\ pc[t] \in {"start", "finish"} /\ UNCHANGED promised
           /\ \E s \in {"Pending", "Success", "Error"} :
                Save(WorkflowOf(t), [snap[t] EXCEPT !.status = s])
    BY <1>6 DEF TaskStart, TaskFinish
  <2>2. QED
    BY <1>0, <1>5, <2>1
<1>7. ASSUME NEW p \in Processes, SupervisorMove(p) PROVE Delays
  <2>1. PICK m \in moving[p] : Save(m[1], [m[2] EXCEPT !.status = "Enqueued"])
    BY <1>7 DEF SupervisorMove
  <2>2. m[1] \in Workflows /\ m[2] \in Row
    BY <2>1 DEF TypeOK
  <2>3. Resaved(m[1], [m[2] EXCEPT !.status = "Enqueued"])
    BY <2>1, <2>2, StatusFields DEF Resaved, Copied
  <2>4. QED
    BY <1>1, <1>7, <2>1, <2>2, <2>3 DEF SupervisorMove
<1>8. ASSUME NEW p \in Processes, NEW w \in Workflows, Delete(p, w) PROVE Delays
  BY <1>1, <1>8 DEF Delete, Resaved, Absent
<1>9. ASSUME NEW p \in Processes, NEW w \in Workflows, NEW r \in Requests, Submit(p, w, r)
      PROVE  Delays
  <2>1. PICK delay \in {IF r.wait = None THEN None ELSE now + r.wait} : TRUE
    OBVIOUS
  <2>2. PICK row \in {NewRow(r.name, r.queue, r.dedup, delay)} : TRUE
    OBVIOUS
  <2>3. \/ InsertResult(rows, w, row) = "Inserted" /\ Save(w, row) /\ Promise(w, delay)
        \/ UNCHANGED <<rows, promised>>
    BY <1>9, <2>1, <2>2 DEF Submit
  <2>4. CASE InsertResult(rows, w, row) = "Inserted" /\ Save(w, row) /\ Promise(w, delay)
    <3>1. CASE delay = None
      BY <1>2, <2>4, <3>1
    <3>2. CASE delay # None
      <4>1. row.status = "Delayed" /\ row.delay = delay
        BY <2>2, <3>2 DEF NewRow
      <4>2. UNCHANGED <<moving, pc, snap>>
        BY <1>9, <2>1, <3>2 DEF Submit, taskVars, processVars, supervisorVars
      <4>3. rows[w] = Absent
        BY <2>4 DEF InsertResult
      <4>4. QED
        BY <1>3, <2>4, <4>1, <4>2, <4>3
    <3>3. QED
      BY <3>1, <3>2
  <2>5. QED
    BY <1>0, <2>3, <2>4
<1>10. ASSUME NEW c \in Clients, FinishCancel(c) PROVE Delays
  <2>1. call[c].row \in Row /\ call[c].of \in Workflows
    BY <1>10, CallType DEF FinishCancel, Return
  <2>2. Resaved(call[c].of, [call[c].row EXCEPT !.status = "Cancelled"])
    BY <2>1, StatusFields DEF Resaved
  <2>3. QED
    BY <1>1, <1>10, <2>1, <2>2 DEF FinishCancel
<1>11. ASSUME NEW c \in Clients, NEW q \in Queues \cup {None}, FinishResume(c, q)
       PROVE  Delays
  <2>1. call[c].of \in Workflows
    BY <1>11, CallType DEF FinishResume, Return
  <2>2. QED
    BY <1>2, <1>11, <2>1 DEF FinishResume
<1>12. ASSUME NEW c \in Clients, NEW d \in Time, FinishPostpone(c, d) PROVE Delays
  <2>1. call[c].kind = "postpone" /\ call[c].row \in Row /\ call[c].of \in Workflows
    BY <1>12, CallType DEF FinishPostpone, Return
  <2>2. call[c].row.status = "Delayed"
    BY <2>1 DEF HeldRows
  <2>3. PICK v \in Workflows, row \in {[call[c].row EXCEPT !.delay = d]} : v = call[c].of
    BY <2>1
  <2>4. row.status = "Delayed" /\ row.delay = d
    BY <2>1, <2>2, <2>3 DEF Row
  <2>5. Save(v, row) /\ Promise(v, IF Copied(v) THEN None ELSE d) /\ UNCHANGED <<moving, pc, snap>>
    BY <1>12, <2>3 DEF FinishPostpone, taskVars, processVars, supervisorVars
  <2>6. CASE Copied(v)
    BY <1>2, <2>5, <2>6
  <2>7. CASE ~Copied(v)
    BY <1>3, <2>4, <2>5, <2>7
  <2>8. QED
    BY <2>6, <2>7
<1>13. ASSUME NEW c \in Clients, NEW w \in Workflows, FinishFork(c, w) PROVE Delays
  BY <1>0, <1>2, <1>13 DEF FinishFork
<1>14. ASSUME NEW t \in Tasks, TaskRead(t) \/ TaskReload(t) \/ TaskLatest(t) \/ TaskRun(t)
                               \/ TaskFail(t) \/ Abort(t)
       PROVE  UNCHANGED <<rows, promised>>
  BY <1>14 DEF TaskRead, TaskReload, TaskLatest, TaskRun, TaskFail, Abort
<1>15. ASSUME NEW p \in Processes,
              Boot(p) \/ Launch(p) \/ FinishLaunch(p) \/ Crash(p) \/ Shutdown(p)
              \/ AbortSupervisor(p) \/ FinishShutdown(p)
              \/ (\E ids \in SUBSET ExecutorIds : Recovery(p, ids))
              \/ SupervisorList(p) \/ SupervisorDequeue(p) \/ SupervisorSleep(p)
              \/ SupervisorFail(p)
              \/ (\E c \in Clients, w \in Workflows,
                     kind \in {"cancel", "resume", "postpone", "fork"} : Begin(c, p, w, kind))
       PROVE  UNCHANGED <<rows, promised>>
  BY <1>15 DEF Boot, Launch, FinishLaunch, Crash, Shutdown, AbortSupervisor, FinishShutdown,
     Recovery, SupervisorList, SupervisorDequeue, SupervisorSleep, SupervisorFail, Begin
<1>16. CASE Tick \/ UNCHANGED vars
  BY <1>0, <1>16 DEF Tick, vars
<1>17. QED
  BY <1>0, <1>4, <1>6, <1>7, <1>8, <1>9, <1>10, <1>11, <1>12, <1>13, <1>14, <1>15, <1>16
     DEF Next, Task, Supervise, FinishCall

\* The row is a descendant of one that was seen.
FromSeen(w, row) ==
  \E x \in Row : /\ Seen(w, x) /\ row.name = x.name /\ row.dedup = x.dedup
                 /\ StillUnused({"resume"}) => row.queue = x.queue

\* What the invariants ask of a row that is saved as w.
Traced(w, row) ==
  row.status # "absent" => FromSeen(w, row) \/ (rows[w] = Absent /\ Unclaimed(row))
DelayOf(w, row) == row.status = "Delayed" => row.executor = None
EndOf(w, row) ==
  StillUnused({"cancel", "delete", "resume"}) /\ row.status \notin Unfinished
  => \E t \in TasksOf(w) : pc[t] = "finish"
DedupOf(w, row) ==
  /\ opened'[w] <= 1 /\ ~overlapped[w] /\ StillUnused({"cancel", "delete", "resume"})
  /\ row.status \in Unfinished
  => rows[w].status \in Unfinished \/ ~Duplicate(rows, row)
HolderOf(w, row) ==
  opened'[w] <= 1 /\ row.status \in Unfinished /\ row.executor # None
  => \E t \in TasksOf(w) : /\ Live(t)' /\ (claimed'[t] \/ recovered'[t])
                           /\ host'[t] \in Processes /\ IdOf[host'[t]] = row.executor
Justified(w, row) ==
  Traced(w, row) /\ DelayOf(w, row) /\ EndOf(w, row) /\ DedupOf(w, row) /\ HolderOf(w, row)

\* Of a workflow made to wait once, what has a claimant waits for no claim, so its row is
\* not delayed.
LEMMA ClaimedRowState ==
  ASSUME TypeOK, GrantsBounded, HeldRows, NEW w \in Workflows, opened[w] <= 1, Claimers(w) # {}
  PROVE  ~Unclaimed(rows[w]) /\ rows[w].status # "Delayed"
<1>1. ~Unclaimed(rows[w])
  BY OneClaimer
<1>2. ASSUME rows[w].status = "Delayed" PROVE FALSE
  <2>1. rows[w] \in Row /\ Seen(w, rows[w])
    BY <1>2, SeenRow DEF TypeOK
  <2>2. rows[w].executor = None
    BY <1>2, <2>1 DEF HeldRows
  <2>3. QED
    BY <1>1, <1>2, <2>2 DEF Unclaimed, Unfinished
<1>3. QED
  BY <1>1, <1>2

\* A workflow with a claimant was made to wait.
LEMMA ClaimersCounted ==
  ASSUME TypeOK, GrantsBounded, NEW w \in Workflows, opened[w] = 0
  PROVE  Claimers(w) = {}
<1>1. IsFiniteSet(Claimers(w)) /\ Cardinality(Claimers(w)) \in Nat
  BY ClaimersFinite
<1>2. Cardinality(Claimers(w)) = 0
  BY <1>1 DEF GrantsBounded
<1>3. QED
  BY <1>1, <1>2, FS_EmptySet

\* The row of a granted claim.
LEMMA GrantJustified ==
  ASSUME Inv, RowsInv, RestStep, TypeOK', NEW t \in Tasks, Grant(t)
  PROVE  LET row == ClaimedRow(rows[WorkflowOf(t)], IdOf[host[t]], ExecutionOf(t))
         IN  Save(WorkflowOf(t), row) /\ Justified(WorkflowOf(t), row)
<1> USE DEF Inv, RowsInv
<1>1. PICK w \in Workflows, row \in {ClaimedRow(rows[WorkflowOf(t)], IdOf[host[t]], ExecutionOf(t))} :
        w = WorkflowOf(t)
  BY TaskShape
<1>2. t \in TasksOf(w) /\ rows[w] \in Row
  BY <1>1, TaskShape DEF TypeOK
<1>3. /\ row.status = "Pending" /\ row.name = rows[w].name /\ row.executor = IdOf[host[t]]
      /\ row.queue = rows[w].queue /\ row.dedup = rows[w].dedup /\ row.delay = rows[w].delay
  BY <1>1, <1>2, ClaimFields
<1>4. Save(w, row) /\ rows[w].status \in {"Pending", "Enqueued"}
  BY <1>1 DEF Grant, Claimable
<1>5. Traced(w, row)
  <2>1. Seen(w, rows[w])
    BY <1>4, SeenRow
  <2>2. QED
    BY <1>2, <1>3, <2>1 DEF Traced, FromSeen
<1>6. DelayOf(w, row)
  BY <1>3 DEF DelayOf
<1>7. EndOf(w, row) /\ DedupOf(w, row)
  BY <1>3, <1>4 DEF EndOf, DedupOf, Unfinished
<1>8. HolderOf(w, row)
  <2>1. pc'[t] = "reload" /\ claimed'[t] /\ host'[t] = host[t] /\ host[t] \in Processes
    BY DEF Grant, Goto, TypeOK, Stages, Live
  <2>2. QED
    BY <1>2, <1>3, <2>1 DEF HolderOf, Live
<1>9. QED
  BY <1>1, <1>4, <1>5, <1>6, <1>7, <1>8 DEF Justified

\* The row a task saves when it starts.
LEMMA StartJustified ==
  ASSUME Inv, RowsInv, RestStep, TypeOK', NEW t \in Tasks, StartSaved(t)
  PROVE  LET row == [snap[t] EXCEPT !.status = "Pending"]
         IN  Save(WorkflowOf(t), row) /\ Justified(WorkflowOf(t), row)
<1> USE DEF Inv, RowsInv
<1>1. PICK w \in Workflows, row \in {[snap[t] EXCEPT !.status = "Pending"]} : w = WorkflowOf(t)
  BY TaskShape
<1>2. /\ t \in TasksOf(w) /\ rows[w] \in Row /\ snap[t] \in Row
      /\ pc[t] = "start" /\ snap[t].status \in Unfinished
  BY <1>1, TaskShape DEF TypeOK, HeldRows, StartSaved
<1>3. /\ row.status = "Pending" /\ row.name = snap[t].name /\ row.executor = snap[t].executor
      /\ row.queue = snap[t].queue /\ row.dedup = snap[t].dedup /\ row.delay = snap[t].delay
  BY <1>1, <1>2 DEF Row
<1>4. Save(w, row)
  BY <1>1 DEF StartSaved
<1>5. Traced(w, row)
  <2>1. Seen(w, snap[t])
    BY <1>1, <1>2, SeenTask DEF Unfinished
  <2>2. QED
    BY <1>2, <1>3, <2>1 DEF Traced, FromSeen
<1>6. opened'[w] <= 1 => opened[w] <= 1
  BY <1>4, SaveEffect
<1>7. DelayOf(w, row)
  BY <1>3 DEF DelayOf
<1>8. EndOf(w, row)
  BY <1>3 DEF EndOf, Unfinished
<1>9. DedupOf(w, row)
  <2>1. ASSUME opened'[w] <= 1, ~overlapped[w], StillUnused({"cancel", "delete", "resume"})
        PROVE  rows[w].status \in Unfinished
    <3>1. Unused({"cancel", "delete", "resume"})
      BY <2>1, UnusedBefore DEF Kinds
    <3>2. QED
      BY <1>1, <1>2, <1>6, <2>1, <3>1 DEF StartsUnfinished
  <2>2. QED
    BY <2>1 DEF DedupOf
<1>10. HolderOf(w, row)
  <2>1. Running(t)
    BY <1>2 DEF Running
  <2>2. Holder(t)
    BY <2>1 DEF GateKept, Entitled
  <2>3. pc'[t] = "run" /\ (claimed'[t] \/ recovered'[t]) /\ host'[t] = host[t]
    BY <2>2 DEF StartSaved, Holder
  <2>4. host[t] \in Processes
    BY <2>2 DEF Stages, Holder
  <2>5. opened'[w] <= 1 => snap[t].executor = IdOf[host[t]]
    BY <1>1, <1>2, <1>6 DEF OwnClaim
  <2>6. QED
    BY <1>2, <1>3, <2>3, <2>4, <2>5 DEF HolderOf, Live
<1>11. QED
  BY <1>1, <1>4, <1>5, <1>7, <1>8, <1>9, <1>10 DEF Justified

\* The row a task saves when it ends.
LEMMA FinishJustified ==
  ASSUME Inv, RowsInv, RestStep, TypeOK', NEW t \in Tasks, FinishSaved(t)
  PROVE  \E row \in Row : Save(WorkflowOf(t), row) /\ Justified(WorkflowOf(t), row)
<1> USE DEF Inv, RowsInv
<1>1. PICK result \in {"Success", "Error"} :
         Save(WorkflowOf(t), [snap[t] EXCEPT !.status = result])
  BY DEF FinishSaved
<1>2. PICK w \in Workflows, row \in {[snap[t] EXCEPT !.status = result]} : w = WorkflowOf(t)
  BY TaskShape
<1>3. /\ t \in TasksOf(w) /\ rows[w] \in Row /\ snap[t] \in Row
      /\ pc[t] = "finish" /\ snap[t].status # "absent"
  BY <1>2, TaskShape DEF TypeOK, HeldRows, FinishSaved
<1>4. /\ row.status = result /\ row.name = snap[t].name /\ row.executor = snap[t].executor
      /\ row.queue = snap[t].queue /\ row.dedup = snap[t].dedup /\ row.delay = snap[t].delay
  BY <1>2, <1>3 DEF Row
<1>5. Save(w, row) /\ row \in Row
  BY <1>1, <1>2, <1>3, StatusType DEF Terminal
<1>6. Traced(w, row)
  <2>1. Seen(w, snap[t])
    BY <1>2, <1>3, SeenTask
  <2>2. QED
    BY <1>3, <1>4, <2>1 DEF Traced, FromSeen
<1>7. DelayOf(w, row)
  BY <1>4 DEF DelayOf
<1>8. EndOf(w, row) /\ DedupOf(w, row) /\ HolderOf(w, row)
  BY <1>3, <1>4 DEF EndOf, DedupOf, HolderOf, Unfinished
<1>9. QED
  BY <1>2, <1>5, <1>6, <1>7, <1>8 DEF Justified

\* A stale copy that makes the row wait finds it waiting, or counts a second wait.
LEMMA StaleSave ==
  ASSUME TypeOK, OneOrigin, NEW w \in Workflows, NEW x \in Row, Seen(w, x),
         NEW row, Save(w, row), Unclaimed(row), opened'[w] <= 1
  PROVE  rows[w].status \in Unfinished
<1>1. opened[w] >= 1
  BY DEF OneOrigin
<1>2. Unclaimed(rows[w])
  BY <1>1, SaveEffect
<1>3. QED
  BY <1>2 DEF Unclaimed

\* The row the supervisor saves.
LEMMA MoveJustified ==
  ASSUME Inv, RowsInv, RestStep, TypeOK', NEW w \in Workflows, NEW row \in Row, Save(w, row),
         Moved(w, row)
  PROVE  Justified(w, row)
<1> USE DEF Inv, RowsInv
<1>1. PICK p \in Processes : \E m \in moving[p] :
         m[1] = w /\ row = [m[2] EXCEPT !.status = "Enqueued"]
  BY DEF Moved
<1>2. PICK m \in moving[p] : m[1] = w /\ row = [m[2] EXCEPT !.status = "Enqueued"]
  BY <1>1
<1>3. PICK x \in Row : x = m[2] /\ Seen(w, x)
  BY <1>2, SeenMove
<1>4. /\ row.status = "Enqueued" /\ row.name = x.name /\ row.executor = x.executor
      /\ row.queue = x.queue /\ row.dedup = x.dedup /\ row.delay = x.delay
  BY <1>2, <1>3 DEF Row
<1>5. x.status = "Delayed" /\ x.delay <= now /\ x.executor = None
  BY <1>3 DEF HeldRows
<1>6. Unclaimed(row)
  BY <1>4, <1>5 DEF Unclaimed, Unfinished
<1>7. Traced(w, row)
  BY <1>3, <1>4 DEF Traced, FromSeen
<1>8. DelayOf(w, row) /\ EndOf(w, row) /\ HolderOf(w, row)
  BY <1>4, <1>5 DEF DelayOf, EndOf, HolderOf, Unfinished
<1>9. DedupOf(w, row)
  BY <1>3, <1>6, StaleSave DEF DedupOf
<1>10. QED
  BY <1>7, <1>8, <1>9 DEF Justified

\* The row a management call saves.
LEMMA CallJustified ==
  ASSUME Inv, RowsInv, RestStep, TypeOK', NEW w \in Workflows, NEW row \in Row, Save(w, row),
         CallSaved(w, row)
  PROVE  Justified(w, row)
<1> USE DEF Inv, RowsInv
<1>1. PICK c \in Clients :
     /\ call[c].of = w /\ call[c].row \in Row
     /\ \/ call[c].kind = "cancel" /\ row = [call[c].row EXCEPT !.status = "Cancelled"]
        \/ /\ call[c].kind = "resume"
           /\ \E q \in Queues \cup {None} : row = Reopened(call[c].row, q)
        \/ /\ call[c].kind = "postpone"
           /\ \E d \in Time : row = [call[c].row EXCEPT !.delay = d]
  BY DEF CallSaved
<1>2. PICK x \in Row : x = call[c].row /\ Seen(w, x) /\ call[c] # NoCall
  BY <1>1, SeenCall
<1>3. CASE call[c].kind = "cancel" /\ row = [call[c].row EXCEPT !.status = "Cancelled"]
  <2>1. /\ row.status = "Cancelled" /\ row.name = x.name
        /\ row.queue = x.queue /\ row.dedup = x.dedup
    BY <1>2, <1>3, StatusFields
  <2>2. ~StillUnused({"cancel", "delete", "resume"})
    BY <1>2, <1>3, CallPaid DEF Kinds
  <2>3. Traced(w, row)
    BY <1>2, <2>1 DEF Traced, FromSeen
  <2>4. QED
    BY <2>1, <2>2, <2>3 DEF Justified, DelayOf, EndOf, DedupOf, HolderOf, Unfinished
<1>4. CASE call[c].kind = "resume" /\ \E q \in Queues \cup {None} : row = Reopened(call[c].row, q)
  <2>1. /\ row.status \in {"Pending", "Enqueued"} /\ row.executor = None
        /\ row.name = x.name /\ row.dedup = x.dedup
    BY <1>2, <1>4, ReopenFields
  <2>2. ~StillUnused({"cancel", "delete", "resume"}) /\ ~StillUnused({"resume"})
    BY <1>2, <1>4, CallPaid DEF Kinds
  <2>3. Traced(w, row)
    BY <1>2, <2>1, <2>2 DEF Traced, FromSeen
  <2>4. QED
    BY <2>1, <2>2, <2>3 DEF Justified, DelayOf, EndOf, DedupOf, HolderOf
<1>5. CASE call[c].kind = "postpone" /\ \E d \in Time : row = [call[c].row EXCEPT !.delay = d]
  <2>1. /\ row.status = x.status /\ row.name = x.name /\ row.executor = x.executor
        /\ row.queue = x.queue /\ row.dedup = x.dedup
    BY <1>2, <1>5, DelayFields
  <2>2. x.status = "Delayed" /\ x.executor = None
    BY <1>2, <1>5 DEF HeldRows
  <2>3. Unclaimed(row)
    BY <2>1, <2>2 DEF Unclaimed, Unfinished
  <2>4. Traced(w, row)
    BY <1>2, <2>1 DEF Traced, FromSeen
  <2>5. DedupOf(w, row)
    BY <1>2, <2>3, StaleSave DEF DedupOf
  <2>6. QED
    BY <2>1, <2>2, <2>4, <2>5 DEF Justified, DelayOf, EndOf, HolderOf, Unfinished
<1>6. QED
  BY <1>1, <1>3, <1>4, <1>5

\* The row that is inserted.
LEMMA InsertJustified ==
  ASSUME Inv, RowsInv, RestStep, TypeOK', NEW w \in Workflows, NEW row \in Row, Inserted(w, row)
  PROVE  Justified(w, row)
<1> USE DEF Inv, RowsInv
<1>1. rows[w] = Absent /\ ~Duplicate(rows, row) /\ row.status \in Unfinished /\ row.executor = None
  BY DEF Inserted, Unclaimed
<1>2. Traced(w, row)
  BY <1>1 DEF Traced, Unclaimed
<1>3. DelayOf(w, row) /\ EndOf(w, row) /\ DedupOf(w, row) /\ HolderOf(w, row)
  BY <1>1 DEF DelayOf, EndOf, DedupOf, HolderOf
<1>4. QED
  BY <1>2, <1>3 DEF Justified

\* A row that is deleted.
LEMMA DeleteJustified ==
  ASSUME Inv, RowsInv, TypeOK', NEW w, NEW row, Deleted(row)
  PROVE  Justified(w, row)
<1>1. row.status = "absent"
  BY DEF Deleted, Absent
<1>2. ~StillUnused({"cancel", "delete", "resume"})
  <2>1. /\ left'["delete"] < left["delete"] /\ left["delete"] <= Budget["delete"]
        /\ left["delete"] \in Nat /\ left'["delete"] \in Nat /\ Budget["delete"] \in Nat
    BY ExecutionAssumption DEF Deleted, RowsInv, Spent, Inv, TypeOK, Kinds
  <2>2. left'["delete"] # Budget["delete"]
    BY <2>1
  <2>3. QED
    BY <2>2 DEF StillUnused
<1>3. QED
  BY <1>1, <1>2 DEF Justified, Traced, DelayOf, EndOf, DedupOf, HolderOf, Unfinished

\* Every step leaves the table as it is, or saves one row that is justified.
LEMMA TableJustified ==
  ASSUME Inv, RowsInv, RestStep, TableStep, TypeOK'
  PROVE  \/ UNCHANGED <<rows, opened>>
         \/ \E w \in Workflows : \E row \in Row : Save(w, row) /\ Justified(w, row)
<1>1. ASSUME NEW t \in Tasks, Grant(t)
      PROVE  \E w \in Workflows : \E row \in Row : Save(w, row) /\ Justified(w, row)
  <2>1. PICK w \in Workflows, row \in {ClaimedRow(rows[WorkflowOf(t)], IdOf[host[t]], ExecutionOf(t))} :
          w = WorkflowOf(t) /\ Save(w, row) /\ Justified(w, row)
    BY <1>1, TaskShape, GrantJustified
  <2>2. rows'[w] = row /\ rows'[w] \in Row
    BY <2>1, SaveEffect DEF Inv, TypeOK
  <2>3. QED
    BY <2>1, <2>2
<1>2. ASSUME NEW t \in Tasks, StartSaved(t)
      PROVE  \E w \in Workflows : \E row \in Row : Save(w, row) /\ Justified(w, row)
  <2>1. PICK w \in Workflows, row \in {[snap[t] EXCEPT !.status = "Pending"]} :
          w = WorkflowOf(t) /\ Save(w, row) /\ Justified(w, row)
    BY <1>2, TaskShape, StartJustified
  <2>2. rows'[w] = row /\ rows'[w] \in Row
    BY <2>1, SaveEffect DEF Inv, TypeOK
  <2>3. QED
    BY <2>1, <2>2
<1>3. ASSUME NEW t \in Tasks, FinishSaved(t)
      PROVE  \E w \in Workflows : \E row \in Row : Save(w, row) /\ Justified(w, row)
  BY <1>3, TaskShape, FinishJustified
<1>4. ASSUME NEW w \in Workflows, NEW row \in Row, Save(w, row),
             Moved(w, row) \/ CallSaved(w, row) \/ Inserted(w, row) \/ Deleted(row)
      PROVE  Justified(w, row)
  BY <1>4, MoveJustified, CallJustified, InsertJustified, DeleteJustified
<1>5. QED
  BY <1>1, <1>2, <1>3, <1>4 DEF TableStep
-----------------------------------------------------------------------------
(* The parts of the invariant, one after the other.                        *)

\* What is known of a step from a state of the invariants.
Stepped ==
  /\ Inv /\ RowsInv /\ Inv' /\ Shaped
  /\ Fates /\ RestStep /\ LifeStep /\ \A w \in Workflows : DelayStep(w)
  /\ \/ UNCHANGED <<rows, opened>>
     \/ \E w \in Workflows : \E row \in Row : Save(w, row) /\ Justified(w, row)

\* Every step is known like this.
LEMMA Stepping == Inv /\ RowsInv /\ [Next]_vars => Stepped
<1> SUFFICES ASSUME Inv, RowsInv, [Next]_vars PROVE Stepped
  OBVIOUS
<1>1. Inv' /\ TypeOK /\ Stages /\ ExecutorsKnown /\ TypeOK'
  BY InvStep DEF Inv
<1>2. Shaped /\ Fates /\ RestStep /\ LifeStep /\ TableStep
  BY <1>1, StepShape, FateStep, RestSteps, LifeSteps, TableSteps
<1>3. \A w \in Workflows : DelayStep(w)
  BY <1>1, DelaySteps DEF RowsInv
<1>4. QED
  BY <1>1, <1>2, <1>3, TableJustified DEF Stepped

\* A row of the next state is as before, or saved and justified.
LEMMA RowStep ==
  ASSUME Stepped, NEW w \in Workflows
  PROVE  /\ opened[w] \in Nat /\ opened'[w] \in Nat /\ opened[w] <= opened'[w]
         /\ \/ rows'[w] = rows[w]
            \/ /\ rows'[w] \in Row /\ Save(w, rows'[w]) /\ Justified(w, rows'[w])
               /\ \A v \in Workflows \ {w} : rows'[v] = rows[v]
<1> USE DEF Stepped, Inv
<1>1. opened[w] \in Nat
  BY DEF TypeOK
<1>2. CASE UNCHANGED <<rows, opened>>
  BY <1>1, <1>2
<1>3. ASSUME NEW v \in Workflows, NEW row \in Row, Save(v, row), Justified(v, row)
      PROVE  /\ opened[w] \in Nat /\ opened'[w] \in Nat /\ opened[w] <= opened'[w]
             /\ \/ rows'[w] = rows[w]
                \/ /\ rows'[w] \in Row /\ Save(w, rows'[w]) /\ Justified(w, rows'[w])
                   /\ \A u \in Workflows \ {w} : rows'[u] = rows[u]
  <2>1. CASE v = w
    <3>1. rows'[w] = row
      BY <1>3, <2>1, SaveEffect
    <3>2. QED
      BY <1>3, <2>1, <3>1, SaveEffect
  <2>2. CASE v # w
    <3>1. rows'[w] = rows[w] /\ opened'[w] = opened[w]
      BY <1>3, <2>2, SaveEffect
    <3>2. QED
      BY <1>1, <3>1
  <2>3. QED
    BY <2>1, <2>2
<1>4. QED
  BY <1>2, <1>3

\* What is unused after a step was unused before it, under either name.
LEMMA UnusedSteps ==
  ASSUME Stepped, NEW kinds, kinds \subseteq Kinds
  PROVE  /\ Unused(kinds)' <=> StillUnused(kinds)
         /\ Unused(kinds)' => Unused(kinds)
<1>1. Unused(kinds)' <=> StillUnused(kinds)
  BY DEF Unused, StillUnused
<1>2. QED
  BY <1>1, UnusedBefore DEF Stepped, Inv, RowsInv

\* The budget is never refilled, and calls stay paid for.
LEMMA SpentStep == ASSUME Stepped PROVE Spent'
<1> USE DEF Stepped, Inv, RowsInv
<1>0. \A k \in Kinds : left[k] \in Nat /\ left'[k] \in Nat /\ Budget[k] \in Nat
                       /\ left'[k] <= left[k] /\ left[k] <= Budget[k]
  BY ExecutionAssumption DEF TypeOK, Spent, RestStep
<1>1. ASSUME NEW k \in Kinds PROVE left'[k] <= Budget[k]
  BY <1>0
<1>2. ASSUME NEW c \in Clients, call'[c] # NoCall
      PROVE  left'[call'[c].kind] < Budget[call'[c].kind]
  <2>1. CASE call'[c] = call[c]
    <3>1. call[c].kind \in Kinds
      BY <1>2, <2>1 DEF TypeOK, Call, Kinds
    <3>2. left[call[c].kind] < Budget[call[c].kind]
      BY <1>2, <2>1 DEF Spent
    <3>3. QED
      BY <1>0, <2>1, <3>1, <3>2
  <2>2. CASE Begun(c)
    <3>1. call'[c].kind \in Kinds /\ left'[call'[c].kind] < left[call'[c].kind]
      BY <2>2 DEF Begun
    <3>2. QED
      BY <1>0, <3>1
  <2>3. QED
    BY <1>2, <2>1, <2>2 DEF RestStep
<1>3. QED
  BY <1>1, <1>2 DEF Spent

\* What is seen after a step was seen before, or is what the step saved.
LEMMA SeenStep ==
  ASSUME Stepped, NEW w \in Workflows, NEW x \in Row, Seen(w, x)'
  PROVE  Seen(w, x) \/ (x = rows'[w] /\ rows'[w] # rows[w])
<1>1. x.status # "absent"
  BY DEF Seen
<1>2. CASE x = rows'[w]
  BY <1>1, <1>2 DEF Seen
<1>3. ASSUME NEW t \in TasksOf(w), x = snap'[t] PROVE Seen(w, x)
  <2>1. t \in Tasks /\ WorkflowOf(t) = w
    BY DEF TasksOf
  <2>2. x \in {snap[t], Absent, rows[w]}
    BY <1>3, <2>1 DEF Stepped, Shaped, Copies
  <2>3. x # Absent
    BY <1>1 DEF Absent
  <2>4. QED
    BY <1>1, <2>2, <2>3 DEF Seen
<1>4. ASSUME NEW p \in Processes, <<w, x>> \in moving'[p] PROVE Seen(w, x)
  <2>1. <<w, x>> \in moving[p] \/ <<w, x>> \in {<<v, rows[v]>> : v \in Workflows}
    BY <1>4 DEF Stepped, Shaped, Copies
  <2>2. QED
    BY <1>1, <2>1 DEF Seen
<1>5. ASSUME NEW c \in Clients, call'[c].of = w, call'[c].row = x PROVE Seen(w, x)
  <2>1. call'[c] # NoCall
    BY <1>5, NoneDistinct DEF NoCall
  <2>2. QED
    BY <1>1, <1>5, <2>1 DEF Stepped, Shaped, Copies, Seen
<1>6. QED
  BY <1>2, <1>3, <1>4, <1>5 DEF Seen, TasksOf, WorkflowOf

\* A task that gets past a reading has read the row there is.
LEMMA TaskSteps ==
  ASSUME Stepped, NEW t \in Tasks
  PROVE  /\ pc'[t] = "claim" =>
              /\ host'[t] = host[t] /\ recovered'[t] = recovered[t]
              /\ pc[t] = "claim" \/ (pc[t] = "read" /\ Unclaimed(rows[WorkflowOf(t)]))
         /\ pc'[t] = "start" =>
              /\ host'[t] = host[t]
              /\ \/ pc[t] = "start" /\ snap'[t] = snap[t]
                 \/ /\ snap'[t] = rows[WorkflowOf(t)] /\ snap'[t].status \in Unfinished
                    /\ UNCHANGED rows
                    /\ pc[t] = "reload" \/ (pc[t] = "read" /\ TakesOver(t, snap'[t]))
         /\ pc'[t] = "finish" =>
              \/ pc[t] = "finish" /\ snap'[t] = snap[t]
              \/ /\ snap'[t] = rows[WorkflowOf(t)] /\ snap'[t].status \notin {"absent", "Cancelled"}
                 /\ pc[t] = "latest"
<1>1. Fate(t)
  BY DEF Stepped, Fates
<1>2. QED
  BY <1>1 DEF Fate, Stays, Spawned, Proceeds, Ends

\* Which rows are held stays right.
LEMMA HeldRowsStep == ASSUME Stepped PROVE HeldRows'
<1> USE DEF Stepped, RowsInv, Inv
<1>1. ASSUME NEW w \in Workflows, NEW row \in Row, Seen(w, row)', row.status = "Delayed"
      PROVE  row.executor = None
  <2>1. CASE Seen(w, row)
    BY <1>1, <2>1 DEF HeldRows
  <2>2. CASE row = rows'[w] /\ rows'[w] # rows[w]
    <3>1. Justified(w, row)
      BY <2>2, RowStep
    <3>2. QED
      BY <1>1, <3>1 DEF Justified, DelayOf
  <2>3. QED
    BY <1>1, <2>1, <2>2, SeenStep
<1>2. ASSUME NEW t \in Tasks
      PROVE  /\ pc'[t] = "start" => snap'[t].status \in Unfinished
             /\ pc'[t] = "finish" => snap'[t].status \notin {"absent", "Cancelled"}
  BY TaskSteps DEF HeldRows
<1>3. ASSUME NEW p \in Processes, NEW m \in moving'[p]
      PROVE  m[2].status = "Delayed" /\ m[2].delay # None /\ m[2].delay <= now'
  <2>0. now \in Int /\ now' \in Int /\ now <= now'
    BY StoreAssumption DEF TypeOK, Time, RestStep
  <2>1. CASE m \in moving[p]
    <3>1. m[2].status = "Delayed" /\ m[2].delay # None /\ m[2].delay <= now
      BY <2>1 DEF HeldRows
    <3>2. m[2] \in Row
      BY <2>1 DEF TypeOK
    <3>3. m[2].delay \in Int
      BY <3>1, <3>2, StoreAssumption DEF Row, Time
    <3>4. QED
      BY <2>0, <3>1, <3>3
  <2>2. ASSUME NEW w \in Workflows, Due(w), m = <<w, rows[w]>>
        PROVE  m[2].status = "Delayed" /\ m[2].delay # None /\ m[2].delay <= now'
    <3>1. rows[w].delay \in Int
      BY <2>2, StoreAssumption DEF TypeOK, Due, Row, Time
    <3>2. QED
      BY <2>0, <2>2, <3>1 DEF Due
  <2>3. QED
    BY <2>1, <2>2 DEF RestStep
<1>4. ASSUME NEW c \in Clients
      PROVE  /\ call'[c] # NoCall => call'[c].row.status # "absent"
             /\ call'[c].kind = "postpone" => call'[c].row.status = "Delayed"
  BY DEF HeldRows, RestStep, Begun, NoCall
<1>5. QED
  BY <1>1, <1>2, <1>3, <1>4 DEF HeldRows

\* The copies of a workflow made to wait once stay those of one insertion.
LEMMA OneOriginStep == ASSUME Stepped PROVE OneOrigin'
<1> USE DEF Stepped, RowsInv, Inv
<1>1. ASSUME NEW w \in Workflows, NEW x \in Row, Seen(w, x)' PROVE opened'[w] >= 1
  <2>0. opened[w] \in Nat /\ opened'[w] \in Nat /\ opened[w] <= opened'[w]
    BY RowStep
  <2>1. ASSUME NEW y \in Row, Seen(w, y) PROVE opened'[w] >= 1
    BY <2>0, <2>1 DEF OneOrigin
  <2>2. CASE x = rows'[w] /\ rows'[w] # rows[w]
    <3>1. Save(w, x) /\ Traced(w, x) /\ x.status # "absent"
      BY <1>1, <2>2, RowStep DEF Justified, Seen
    <3>2. CASE FromSeen(w, x)
      BY <2>1, <3>2 DEF FromSeen
    <3>3. CASE rows[w] = Absent /\ Unclaimed(x)
      <4>1. ~Unclaimed(rows[w])
        BY <3>3 DEF Unclaimed, Absent, Unfinished
      <4>2. opened'[w] = opened[w] + 1
        BY <3>1, <3>3, <4>1, SaveEffect
      <4>3. QED
        BY <2>0, <4>2
    <3>4. QED
      BY <3>1, <3>2, <3>3 DEF Traced
  <2>3. QED
    BY <1>1, <2>1, <2>2, SeenStep
<1>2. ASSUME NEW w \in Workflows, opened'[w] <= 1, NEW x \in Row, Seen(w, x)', NEW y \in Row, Seen(w, y)
      PROVE  x.name = y.name /\ x.dedup = y.dedup /\ (StillUnused({"resume"}) => x.queue = y.queue)
  <2>0. /\ opened[w] \in Nat /\ opened'[w] \in Nat /\ opened[w] <= opened'[w]
        /\ opened[w] >= 1 /\ opened[w] <= 1
    BY <1>2, RowStep DEF OneOrigin
  <2>1. StillUnused({"resume"}) => Unused({"resume"})
    BY UnusedBefore DEF Kinds
  <2>2. ASSUME NEW z \in Row, Seen(w, z)
        PROVE  z.name = y.name /\ z.dedup = y.dedup /\ (StillUnused({"resume"}) => z.queue = y.queue)
    BY <1>2, <2>0, <2>1, <2>2 DEF OneOrigin
  <2>3. CASE x = rows'[w] /\ rows'[w] # rows[w]
    <3>1. Save(w, x) /\ Traced(w, x) /\ x.status # "absent"
      BY <1>2, <2>3, RowStep DEF Justified, Seen
    <3>2. CASE FromSeen(w, x)
      BY <2>2, <3>2 DEF FromSeen
    <3>3. CASE rows[w] = Absent /\ Unclaimed(x)
      <4>1. ~Unclaimed(rows[w])
        BY <3>3 DEF Unclaimed, Absent, Unfinished
      <4>2. opened'[w] = opened[w] + 1
        BY <3>1, <3>3, <4>1, SaveEffect
      <4>3. QED
        BY <1>2, <2>0, <4>2
    <3>4. QED
      BY <3>1, <3>2, <3>3 DEF Traced
  <2>4. QED
    BY <1>2, <2>2, <2>3, SeenStep
<1>3. ASSUME NEW w \in Workflows, opened'[w] <= 1, NEW x \in Row, NEW y \in Row, Seen(w, x)', Seen(w, y)'
      PROVE  x.name = y.name /\ x.dedup = y.dedup /\ (StillUnused({"resume"}) => x.queue = y.queue)
  <2>1. CASE Seen(w, y)
    BY <1>2, <1>3, <2>1
  <2>2. CASE Seen(w, x)
    BY <1>2, <1>3, <2>2
  <2>3. QED
    BY <1>3, <2>1, <2>2, SeenStep
<1>4. {"resume"} \subseteq Kinds
  BY DEF Kinds
<1>5. Unused({"resume"})' => StillUnused({"resume"})
  BY <1>4, UnusedSteps
<1>6. QED
  BY <1>1, <1>3, <1>5 DEF OneOrigin

\* Who claims was not told to take over, and who starts has read its own claim.
LEMMA OwnClaimStep == ASSUME Stepped PROVE OwnClaim'
<1> USE DEF Stepped, RowsInv, Inv
<1> SUFFICES ASSUME NEW t \in Tasks, opened'[WorkflowOf(t)] <= 1
             PROVE  /\ pc'[t] = "claim" => ~recovered'[t]
                    /\ pc'[t] = "start" => snap'[t].executor = IdOf[host'[t]]
  BY DEF OwnClaim, WorkflowOf
<1>0. PICK w \in Workflows : w = WorkflowOf(t) /\ t \in TasksOf(w) /\ opened[w] <= 1
  <2>1. WorkflowOf(t) \in Workflows /\ t \in TasksOf(WorkflowOf(t))
    BY TaskShape
  <2>2. QED
    BY <2>1, RowStep
<1>1. /\ pc[t] = "claim" => ~recovered[t]
      /\ pc[t] = "start" => snap[t].executor = IdOf[host[t]]
  BY <1>0 DEF OwnClaim
<1>2. ASSUME pc[t] = "read", Unclaimed(rows[w]) PROVE ~recovered[t]
  <2>1. Claimers(w) = {}
    BY <1>0, <1>2, OneClaimer
  <2>2. Live(t)
    BY <1>2 DEF Live
  <2>3. QED
    BY <1>0, <2>1, <2>2 DEF GateKept
<1>3. ASSUME pc[t] = "reload", rows[w].status \in Unfinished
      PROVE  rows[w].executor = IdOf[host[t]]
  <2>1. t \in Claimers(w)
    BY <1>0, <1>3 DEF Stages, Claimers
  <2>2. ~Unclaimed(rows[w])
    BY <1>0, <2>1, ClaimedRowState
  <2>3. rows[w].executor # None
    BY <1>3, <2>2 DEF Unclaimed
  <2>4. PICK c \in Claimers(w) : IdOf[host[c]] = rows[w].executor
    BY <2>3 DEF ExecutorsKnown, Known
  <2>5. c = t
    BY <1>0, <2>1, OneClaimer
  <2>6. QED
    BY <2>4, <2>5
<1>4. QED
  BY <1>0, <1>1, <1>2, <1>3, TaskSteps DEF TakesOver

\* A task stays in the process it lives in, or ends.
LEMMA LiveSteps ==
  ASSUME Stepped, NEW t \in Tasks, Live(t)
  PROVE  \/ Live(t)' /\ host'[t] = host[t] /\ recovered'[t] = recovered[t]
            /\ (claimed[t] => claimed'[t])
         \/ Ends(t)
<1>1. Fate(t)
  BY DEF Stepped, Fates
<1>2. QED
  BY <1>1 DEF Fate, Stays, Spawned, Proceeds, Live

\* Only a process that is stopping has tasks to abort.
LEMMA DoomedStopsStep == ASSUME Stepped PROVE DoomedStops'
<1> USE DEF Stepped, RowsInv, Inv
<1> SUFFICES ASSUME NEW t \in Tasks, doomed'[t]
             PROVE  Live(t)' /\ life'[host'[t]] = "stopping"
  BY DEF DoomedStops
<1>1. CASE doomed[t]
  <2>1. Live(t) /\ life[host[t]] = "stopping" /\ host[t] \in Processes
    BY <1>1 DEF DoomedStops, Stages
  <2>2. Live(t)' /\ host'[t] = host[t]
    BY <2>1, LiveSteps DEF Ends
  <2>3. t \in TasksIn(host[t])
    BY <2>1 DEF TasksIn
  <2>4. life'[host[t]] = "stopping"
    BY <2>1, <2>3 DEF LifeStep
  <2>5. QED
    BY <2>2, <2>4
<1>2. CASE Live(t) /\ Stays(t) /\ life'[host[t]] = "stopping"
  BY <1>2 DEF Stays, Live
<1>3. QED
  BY <1>1, <1>2 DEF LifeStep

\* A delay is set anew only where the workflow waits, and nobody has a claim or a copy.
LEMMA NoCopies ==
  ASSUME Stepped, NEW w \in Workflows, opened'[w] <= 1, rows'[w].status = "Delayed",
         rows'[w] # rows[w], rows[w] = Absent \/ ~Copied(w)
  PROVE  Claimers(w) = {} /\ ~Copied(w)
<1> USE DEF Stepped, RowsInv, Inv
<1>1. rows'[w] \in Row /\ Save(w, rows'[w]) /\ opened[w] <= 1 /\ Unclaimed(rows'[w])
  <2>1. rows'[w] \in Row /\ Save(w, rows'[w]) /\ Justified(w, rows'[w])
    BY RowStep
  <2>2. rows'[w].executor = None
    BY <2>1 DEF Justified, DelayOf
  <2>3. QED
    BY <2>1, <2>2, RowStep DEF Unclaimed, Unfinished
<1>2. opened[w] \in Nat /\ (opened[w] = 0 \/ Unclaimed(rows[w]))
  BY <1>1, SaveEffect
<1>3. ASSUME Claimers(w) # {} PROVE FALSE
  <2>1. ~Unclaimed(rows[w]) /\ opened[w] = 0
    BY <1>1, <1>2, <1>3, OneClaimer
  <2>2. QED
    BY <1>3, <2>1, ClaimersCounted
<1>4. ASSUME Copied(w) PROVE FALSE
  <2>1. PICK p \in Processes : \E m \in moving[p] : m[1] = w
    BY <1>4 DEF Copied
  <2>2. opened[w] >= 1
    BY <2>1, SeenMove DEF OneOrigin
  <2>3. rows[w] = Absent /\ ~Unclaimed(Absent)
    BY <1>4 DEF Unclaimed, Unfinished, Absent
  <2>4. QED
    BY <1>2, <2>2, <2>3
<1>5. QED
  BY <1>3, <1>4

\* What is still to be saved was due.
LEMMA DueCopiesStep == ASSUME Stepped PROVE DueCopies'
<1> USE DEF Stepped, RowsInv, Inv
<1>0. now \in Int /\ now' \in Int /\ now <= now'
  BY StoreAssumption DEF TypeOK, Time, RestStep
<1>1. ASSUME NEW w \in Workflows, rows'[w].status = "Delayed"
      PROVE  promised'[w] \in {None, rows'[w].delay}
  BY <1>1 DEF DelayStep, Resaved, DueCopies
<1>2. ASSUME NEW w \in Workflows, opened'[w] <= 1, promised'[w] # None, promised[w] <= now,
             promised'[w] = promised[w]
      PROVE  promised'[w] <= now'
  <2>1. promised[w] \in Int
    BY <1>2, StoreAssumption DEF TypeOK, Time
  <2>2. QED
    BY <1>0, <1>2, <2>1
<1>3. ASSUME NEW t \in Tasks, NEW w \in Workflows, w = WorkflowOf(t),
             opened'[w] <= 1, promised'[w] # None, pc'[t] \in {"start", "finish"}
      PROVE  promised'[w] <= now'
  <2>0. t \in TasksOf(w) /\ opened[w] <= 1
    BY <1>3, TaskShape, RowStep
  <2>1. ASSUME Running(t) \/ (pc[t] = "read" /\ recovered[t]) PROVE Claimers(w) # {}
    <3>1. CASE Running(t)
      <4>1. Entitled(t)
        BY <3>1 DEF GateKept
      <4>2. QED
        BY <1>3, <4>1 DEF Entitled
    <3>2. CASE pc[t] = "read" /\ recovered[t]
      BY <1>3, <3>2 DEF GateKept, Live
    <3>3. QED
      BY <2>1, <3>1, <3>2
  <2>2. CASE promised'[w] = rows'[w].delay /\ rows'[w].status = "Delayed"
             /\ UNCHANGED <<moving, pc, snap>> /\ (rows[w] = Absent \/ ~Copied(w))
    <3>1. Claimers(w) # {}
      BY <1>3, <2>1, <2>2 DEF Running
    <3>2. rows'[w] = rows[w]
      BY <1>3, <2>2, <3>1, NoCopies
    <3>3. QED
      BY <2>0, <2>2, <3>1, <3>2, ClaimedRowState
  <2>3. CASE promised'[w] = promised[w]
    <3>1. CASE pc[t] \in {"start", "finish"}
      BY <1>2, <1>3, <2>0, <2>3, <3>1 DEF DueCopies
    <3>2. CASE rows[w].status \notin {"absent", "Cancelled"} /\ Claimers(w) # {}
      <4>1. rows[w].status # "Delayed" /\ rows[w] \in Row
        BY <2>0, <3>2, ClaimedRowState DEF TypeOK
      <4>2. rows[w].status \in {"Pending", "Enqueued", "Success", "Error"}
        BY <3>2, <4>1 DEF Row, Unfinished, Terminal
      <4>3. QED
        BY <1>2, <1>3, <2>0, <2>3, <4>2 DEF NotBeforeDue
    <3>3. QED
      BY <1>3, <2>1, <3>1, <3>2, TaskSteps DEF TakesOver, Running, Unfinished
  <2>4. QED
    BY <1>3, <2>2, <2>3 DEF DelayStep
<1>4. ASSUME NEW w \in Workflows, opened'[w] <= 1, promised'[w] # None, Copied(w)'
      PROVE  promised'[w] <= now'
  <2>0. opened[w] <= 1
    BY <1>4, RowStep
  <2>1. PICK p \in Processes : \E m \in moving'[p] : m[1] = w
    BY <1>4 DEF Copied
  <2>11. PICK m \in moving'[p] : m[1] = w
    BY <2>1
  <2>2. CASE promised'[w] = rows'[w].delay /\ rows'[w].status = "Delayed"
             /\ UNCHANGED <<moving, pc, snap>> /\ (rows[w] = Absent \/ ~Copied(w))
    <3>1. Copied(w)
      BY <2>11, <2>2 DEF Copied
    <3>2. rows'[w] = rows[w] /\ rows[w] = Absent
      BY <1>4, <2>2, <3>1, NoCopies
    <3>3. QED
      BY <2>2, <3>2 DEF Absent
  <2>3. CASE promised'[w] = promised[w]
    <3>1. CASE m \in moving[p]
      <4>1. Copied(w)
        BY <2>11, <3>1 DEF Copied
      <4>2. QED
        BY <1>2, <1>4, <2>0, <2>3, <4>1 DEF DueCopies
    <3>2. CASE Due(w)
      BY <1>2, <1>4, <2>3, <3>2 DEF Due, DueCopies
    <3>3. QED
      BY <2>11, <3>1, <3>2 DEF RestStep
  <2>4. QED
    BY <1>4, <2>2, <2>3 DEF DelayStep
<1>5. QED
  BY <1>1, <1>3, <1>4, TaskShape DEF DueCopies, WorkflowOf

\* What is started stays unfinished, since nobody else is past the gate to finish it.
LEMMA StartsUnfinishedStep == ASSUME Stepped PROVE StartsUnfinished'
<1> USE DEF Stepped, RowsInv, Inv
<1> SUFFICES ASSUME NEW t \in Tasks, opened'[WorkflowOf(t)] <= 1, ~overlapped'[WorkflowOf(t)],
                    Unused({"cancel", "delete", "resume"})', pc'[t] = "start"
             PROVE  rows'[WorkflowOf(t)].status \in Unfinished
  BY DEF StartsUnfinished, WorkflowOf
<1>0. PICK w \in Workflows : /\ w = WorkflowOf(t) /\ t \in TasksOf(w)
                             /\ opened[w] <= 1 /\ ~overlapped[w]
  <2>1. WorkflowOf(t) \in Workflows /\ t \in TasksOf(WorkflowOf(t))
    BY TaskShape
  <2>2. QED
    BY <2>1, RowStep DEF RestStep
<1>1. Unused({"cancel", "delete", "resume"}) /\ StillUnused({"cancel", "delete", "resume"})
  BY UnusedSteps DEF Kinds
<1>2. ASSUME UNCHANGED rows, snap'[t] = rows[w], snap'[t].status \in Unfinished
      PROVE  rows'[w].status \in Unfinished
  BY <1>2
<1>3. CASE pc[t] = "start"
  <2>1. rows[w].status \in Unfinished
    BY <1>0, <1>1, <1>3 DEF StartsUnfinished
  <2>2. ASSUME NEW u \in TasksOf(w), pc[u] = "finish" PROVE FALSE
    <3>1. u \in Tasks /\ WorkflowOf(u) = w /\ Running(t) /\ Running(u)
      BY <1>3, <2>2 DEF TasksOf, Running
    <3>2. Entitled(t) /\ Entitled(u)
      BY <3>1 DEF GateKept
    <3>3. t = u
      BY <1>0, <3>2 DEF OneEntitled
    <3>4. QED
      BY <1>3, <2>2, <3>3
  <2>3. Justified(w, rows'[w]) \/ rows'[w] = rows[w]
    BY RowStep
  <2>4. QED
    BY <1>0, <1>1, <2>1, <2>2, <2>3 DEF Justified, EndOf
<1>4. QED
  BY <1>0, <1>2, <1>3, TaskSteps

\* No workflow is started before the delay that was promised by a step.
LEMMA NotBeforeDueStep == ASSUME Stepped PROVE NotBeforeDue'
<1> USE DEF Stepped, RowsInv, Inv
<1> SUFFICES ASSUME NEW w \in Workflows, opened'[w] <= 1, promised'[w] # None,
                    rows'[w].status \in {"Pending", "Enqueued", "Success", "Error"}
             PROVE  promised'[w] <= now'
  BY DEF NotBeforeDue
<1>1. opened[w] <= 1
  BY RowStep
<1>2. promised'[w] = promised[w] /\ (rows'[w] = rows[w] \/ Resaved(w, rows'[w]))
  BY DEF DelayStep
<1>3. promised[w] <= now
  <2>1. CASE rows[w].status \in {"Pending", "Enqueued", "Success", "Error"}
    BY <1>1, <1>2, <2>1 DEF NotBeforeDue
  <2>2. ASSUME NEW t \in TasksOf(w), pc[t] \in {"start", "finish"} PROVE promised[w] <= now
    BY <1>1, <1>2, <2>2 DEF DueCopies, TasksOf
  <2>3. CASE Copied(w)
    BY <1>1, <1>2, <2>3 DEF DueCopies
  <2>4. QED
    BY <1>2, <2>1, <2>2, <2>3 DEF Resaved
<1>4. now \in Int /\ now' \in Int /\ now <= now' /\ promised[w] \in Int
  BY <1>2, StoreAssumption DEF TypeOK, Time, RestStep
<1>5. QED
  BY <1>2, <1>3, <1>4

\* Two workflows that share a queue and a deduplication id.
Clash(table, v, w) ==
  /\ table[v].status \in Unfinished /\ table[w].status \in Unfinished
  /\ table[v].queue = table[w].queue /\ table[v].dedup = table[w].dedup
  /\ table[v].queue # None /\ table[v].dedup # None

\* A step that saves one of two workflows brings no clash with the other.
LEMMA NoNewClash ==
  ASSUME Stepped, NEW v \in Workflows, NEW w \in Workflows, v # w,
         \A u \in {v, w} : opened'[u] <= 1 /\ ~overlapped'[u],
         Unused({"cancel", "delete", "resume"})',
         rows'[v] # rows[v]
  PROVE  ~Clash(rows', v, w)
<1> USE DEF Stepped, RowsInv, Inv
<1> SUFFICES ASSUME Clash(rows', v, w) PROVE FALSE
  OBVIOUS
<1>0. /\ \A u \in {v, w} : opened[u] <= 1 /\ ~overlapped[u]
      /\ Unused({"cancel", "delete", "resume"}) /\ StillUnused({"cancel", "delete", "resume"})
  BY RowStep, UnusedSteps DEF RestStep, Kinds
<1>1. /\ rows'[v] \in Row /\ Save(v, rows'[v]) /\ Justified(v, rows'[v])
      /\ rows'[w] = rows[w]
  BY RowStep
<1>2. ~Duplicate(rows, rows'[v]) => FALSE
  BY <1>1 DEF Clash, Duplicate
<1>3. rows[v].status \in Unfinished
  BY <1>0, <1>1, <1>2 DEF Justified, DedupOf, Clash
<1>4. rows'[v].queue = rows[v].queue /\ rows'[v].dedup = rows[v].dedup
  <2>1. rows'[v].status # "absent" /\ rows[v].status # "absent" /\ rows[v] # Absent
    BY <1>3 DEF Clash, Unfinished, Absent
  <2>2. PICK x \in Row : /\ Seen(v, x) /\ rows'[v].name = x.name /\ rows'[v].dedup = x.dedup
                         /\ StillUnused({"resume"}) => rows'[v].queue = x.queue
    BY <1>1, <2>1 DEF Justified, Traced, FromSeen
  <2>3. Seen(v, rows[v]) /\ rows[v] \in Row
    BY <2>1, SeenRow DEF TypeOK
  <2>4. StillUnused({"resume"}) /\ Unused({"resume"})
    BY <1>0 DEF Unused, StillUnused
  <2>5. QED
    BY <1>0, <2>2, <2>3, <2>4 DEF OneOrigin
<1>5. QED
  BY <1>0, <1>1, <1>3, <1>4 DEF Clash, DedupUnique

\* No step makes two unfinished workflows share a deduplication id.
LEMMA DedupUniqueStep == ASSUME Stepped PROVE DedupUnique'
<1> USE DEF Stepped, RowsInv, Inv
<1> SUFFICES ASSUME NEW v \in Workflows, NEW w \in Workflows, v # w,
                    \A u \in {v, w} : opened'[u] <= 1 /\ ~overlapped'[u],
                    Unused({"cancel", "delete", "resume"})', Clash(rows', v, w)
             PROVE  FALSE
  BY DEF DedupUnique, Clash
<1>1. Clash(rows', w, v) /\ \A u \in {w, v} : opened'[u] <= 1 /\ ~overlapped'[u]
  BY DEF Clash
<1>2. rows'[v] = rows[v] /\ rows'[w] = rows[w]
  BY <1>1, NoNewClash
<1>3. /\ \A u \in {v, w} : opened[u] <= 1 /\ ~overlapped[u]
      /\ Unused({"cancel", "delete", "resume"})
  BY RowStep, UnusedSteps DEF RestStep, Kinds
<1>4. QED
  BY <1>2, <1>3 DEF Clash, DedupUnique

\* The processes with the claimant's id.
Owners(w) == {p \in Processes : IdOf[p] = rows[w].executor}

\* A holder of a claim that its owners stand by does not end.
LEMMA HolderStays ==
  ASSUME Stepped, NEW w \in Workflows, rows'[w] = rows[w],
         rows[w].status \in Unfinished, rows[w].executor # None, opened[w] <= 1,
         Unused({"fault"})',
         \A p \in Owners(w) : life'[p] = "launched" /\ rows[w].name \in Handles[p],
         NEW t \in TasksOf(w), Holder(t), host[t] \in Owners(w)
  PROVE  Holder(t)' /\ host'[t] = host[t]
<1> USE DEF Stepped, RowsInv, Inv
<1>0. /\ t \in Tasks /\ WorkflowOf(t) = w /\ Live(t) /\ (claimed[t] \/ recovered[t])
      /\ host[t] \in Processes /\ IdOf[host[t]] = rows[w].executor
      /\ life'[host[t]] = "launched" /\ rows[w].name \in Handles[host[t]]
  BY DEF TasksOf, Holder, Owners
<1>1. ~Ends(t)
  <2> SUFFICES ASSUME Ends(t) PROVE FALSE
    OBVIOUS
  <2>1. CASE /\ pc[t] = "read"
             /\ rows[w].status \notin Unfinished
                \/ (rows[w].executor # None /\ ~TakesOver(t, rows[w]))
    BY <1>0, <2>1 DEF Stages, TakesOver
  <2>2. CASE pc[t] = "claim"
    BY <1>0, <2>2 DEF Stages, OwnClaim
  <2>3. CASE pc[t] = "start" /\ snap[t].name \notin Handles[host[t]]
    <3>1. snap[t].status # "absent" /\ rows[w].status # "absent"
      BY <1>0, <2>3 DEF HeldRows, Unfinished
    <3>2. Seen(w, snap[t]) /\ Seen(w, rows[w]) /\ snap[t] \in Row /\ rows[w] \in Row
      BY <1>0, <3>1, SeenTask, SeenRow DEF TypeOK
    <3>3. snap[t].name = rows[w].name
      BY <3>2 DEF OneOrigin
    <3>4. QED
      BY <1>0, <2>3, <3>3
  <2>4. CASE FinishSaved(t)
    <3>1. PICK result \in {"Success", "Error"} : Save(w, [snap[t] EXCEPT !.status = result])
      BY <1>0, <2>4 DEF FinishSaved
    <3>2. snap[t] \in Row
      BY <1>0 DEF TypeOK
    <3>3. rows'[w] = [snap[t] EXCEPT !.status = result]
      BY <3>1, SaveEffect
    <3>4. rows'[w].status = result
      BY <3>2, <3>3 DEF Row
    <3>5. QED
      BY <3>1, <3>4 DEF Unfinished
  <2>5. CASE left'["fault"] < left["fault"]
    <3>1. left'["fault"] = Budget["fault"] /\ left["fault"] <= Budget["fault"]
      BY DEF Unused, Spent, Kinds
    <3>2. left["fault"] \in Nat /\ Budget["fault"] \in Nat
      BY ExecutionAssumption DEF TypeOK, Kinds
    <3>3. QED
      BY <2>5, <3>1, <3>2
  <2>6. CASE doomed[t] /\ UNCHANGED life
    BY <1>0, <2>6 DEF DoomedStops
  <2>7. QED
    BY <1>0, <2>1, <2>2, <2>3, <2>4, <2>5, <2>6 DEF Ends, Unfinished
<1>2. Live(t)' /\ host'[t] = host[t] /\ (claimed'[t] \/ recovered'[t])
  BY <1>0, <1>1, LiveSteps
<1>3. QED
  BY <1>2 DEF Holder

\* No step forgets a claim.
LEMMA NoForgottenClaimStep == ASSUME Stepped PROVE NoForgottenClaim'
<1> USE DEF Stepped, RowsInv, Inv
<1> SUFFICES ASSUME NEW w \in Workflows, rows'[w].status \in Unfinished,
                    rows'[w].executor # None, opened'[w] <= 1, Unused({"fault"})',
                    \A p \in Processes : IdOf[p] = rows'[w].executor =>
                       life'[p] = "launched" /\ rows'[w].name \in Handles[p]
             PROVE  \E t \in TasksOf(w) : /\ Holder(t)' /\ host'[t] \in Processes
                                          /\ IdOf[host'[t]] = rows'[w].executor
  BY DEF NoForgottenClaim, TasksOf, WorkflowOf
<1>0. opened[w] <= 1 /\ (rows'[w] = rows[w] \/ Justified(w, rows'[w]))
  BY RowStep
<1>1. CASE Justified(w, rows'[w])
  BY <1>1 DEF Justified, HolderOf, Holder
<1>2. CASE rows'[w] = rows[w]
  <2>1. \A p \in Owners(w) : life'[p] = "launched" /\ rows[w].name \in Handles[p]
    BY <1>2 DEF Owners
  <2>2. CASE \A p \in Owners(w) : life[p] = "launched"
    <3>1. Unused({"fault"})
      BY UnusedSteps DEF Kinds
    <3>2. PICK t \in TasksOf(w) : Holder(t) /\ host[t] \in Owners(w)
      BY <1>0, <1>2, <2>1, <2>2, <3>1 DEF NoForgottenClaim, Owners
    <3>3. Holder(t)' /\ host'[t] = host[t]
      BY <1>0, <1>2, <2>1, <3>2, HolderStays
    <3>4. QED
      BY <1>2, <3>2, <3>3 DEF Owners
  <2>3. ASSUME NEW p \in Owners(w), life[p] # "launched"
        PROVE  \E t \in TasksOf(w) : /\ Holder(t)' /\ host'[t] \in Processes
                                     /\ IdOf[host'[t]] = rows'[w].executor
    <3>1. p \in Processes /\ IdOf[p] = rows[w].executor /\ TakenOver(p)
      BY <2>1, <2>3 DEF Owners, LifeStep
    <3>2. rows[w].status # "Delayed"
      <4>1. rows[w].status # "absent" /\ rows[w] \in Row
        BY <1>2 DEF Unfinished, TypeOK
      <4>2. QED
        BY <1>2, <4>1, SeenRow DEF HeldRows
    <3>3. w \in ClaimedBy({IdOf[p]})
      BY <1>2, <3>1, <3>2 DEF ClaimedBy, Unfinished
    <3>4. PICK t \in TasksOf(w) : pc'[t] = "read" /\ host'[t] = p /\ recovered'[t]
      BY <3>1, <3>3 DEF TakenOver
    <3>5. Holder(t)'
      BY <3>4 DEF Holder, Live
    <3>6. QED
      BY <1>2, <3>1, <3>4, <3>5
  <2>4. QED
    BY <2>2, <2>3
<1>3. QED
  BY <1>0, <1>1, <1>2
-----------------------------------------------------------------------------
(* The theorems.                                                           *)

\* The invariant holds at the start.
LEMMA RowsInit == Init => RowsInv
<1> SUFFICES ASSUME Init PROVE RowsInv
  OBVIOUS
<1>1. \A w \in Workflows : \A x : ~Seen(w, x)
  BY NoneDistinct DEF Init, Seen, Absent, NoCall, TasksOf
<1>2. Spent
  BY ExecutionAssumption DEF Init, Spent
<1>3. HeldRows /\ OneOrigin
  BY <1>1 DEF Init, HeldRows, OneOrigin, NoCall
<1>4. OwnClaim /\ DoomedStops /\ DueCopies /\ StartsUnfinished
  BY TaskShape DEF Init, OwnClaim, DoomedStops, DueCopies, StartsUnfinished, Copied
<1>5. NoForgottenClaim /\ NotBeforeDue /\ DedupUnique
  BY DEF Init, NoForgottenClaim, NotBeforeDue, DedupUnique, Absent, Unfinished
<1>6. QED
  BY <1>2, <1>3, <1>4, <1>5 DEF RowsInv

\* Every step preserves it, given the invariant of WorkflowExecution_proofs.
LEMMA RowsStep == Inv /\ RowsInv /\ [Next]_vars => RowsInv'
BY Stepping, SpentStep, HeldRowsStep, OneOriginStep, OwnClaimStep, DoomedStopsStep,
   DueCopiesStep, StartsUnfinishedStep, NotBeforeDueStep, DedupUniqueStep,
   NoForgottenClaimStep DEF RowsInv

\* The inductive invariant of the rows holds in every execution.
THEOREM RowsInvariance == Spec => []RowsInv
BY RowsInit, RowsStep, Invariance, PTL DEF Spec

\* No claim is forgotten by crashes, restarts, shutdowns, recoveries and stale saves: once
\* every process with the claimant's id is launched, recover_pending_workflows has seen to
\* a task that goes on with it.
THEOREM ClaimsRemembered == Spec => []NoForgottenClaim
<1>1. RowsInv => NoForgottenClaim
  BY DEF RowsInv
<1>2. QED
  BY <1>1, RowsInvariance, PTL

\* No workflow that was made to wait once starts before the delay the last caller was
\* promised, whatever copies of it supervisors, tasks and calls save, as long as no
\* set_workflow_delay saves while a supervisor holds a copy.
THEOREM DelaysKept == Spec => []NotBeforeDue
<1>1. RowsInv => NotBeforeDue
  BY DEF RowsInv
<1>2. QED
  BY <1>1, RowsInvariance, PTL

\* The check that insert_workflow_with_result makes once keeps deduplication ids apart for
\* as long as the workflows are unfinished.
THEOREM DedupKept == Spec => []DedupUnique
<1>1. RowsInv => DedupUnique
  BY DEF RowsInv
<1>2. QED
  BY <1>1, RowsInvariance, PTL
=============================================================================
