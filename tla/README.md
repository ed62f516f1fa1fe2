# Verification of dbos-rust

TLA+ modules that model the durable execution library in this repository, TLC
configurations that check them on small instances, and proofs, checked by TLAPS,
of the properties that matter most. Paths below are relative to the repository.

## The system

dbos-rust runs *workflows*: registered async handlers whose status, input, output
and steps are rows of a *system database*, so that a workflow interrupted by a
crash is found and finished by a later process. Everything a process does goes
through one `DbosContext` (`src/context.rs`) over an implementation of the trait
`SystemDatabase` (`src/store.rs`). Processes share nothing but that database.

| Component | State | Operations | Hard because |
|---|---|---|---|
| Workflow execution (`context.rs` 1841-2043) | the workflow's row; the tokio tasks of each process | spawn, read, claim, reload, start, run, finish; recovery | store calls of several tasks and processes interleave; rows read earlier are saved whole, without a condition; a crash can come between any two calls |
| Management calls (695-868) | the row | run, cancel, resume, set delay, fork, delete | read, decide, save in two calls, racing with execution |
| Queue supervisor (2045-2107) | the listing it is working through | delayed to enqueued; enqueued to spawned | one in every process, all working on the same rows |
| Lifecycle (336-388, 480-553) | launched flag, list of task handles | new, launch, shutdown | supervisors start before recovery; shutdown takes the handles once |
| Durable steps (1131-1430) | step rows; a counter per execution | run step, retry, replay, spawn, select | a crash between the operation and its record; numbering of concurrent steps |
| Messages, events (1502-1632) | message and event rows | send, recv, set, get, with timeouts | receiving marks the message and records no step; a SQL store lists and marks in two statements; polling |
| Streams (1634-1742) | stream rows by offset | write, close, read, async read | writers choose offsets from a length they have read; readers count and skip |
| Schedules (1744-1813, 2109-2185) | schedule rows, last fired times | create, pause, resume, delete, trigger, backfill, reconcile | several schedulers save whole rows that they listed before they slept |
| Registries (573-642, 1446-1500, 1815-1839) | workflows and aliases in memory; queues, versions, patches in the database | register, update, list, patch | check, then write |
| Export and import (919-1006) | all tables of a workflow | export, import with children | one write of many may fail |
| Stores (`store.rs`) | the tables | the trait `SystemDatabase`, for memory, PostgreSQL and Turso | conditional insert and claim must be atomic; a statement whose connection breaks may have been applied, or be applied later, and is sent again |
| Conductor client (`conductor.rs`) | the handle of a connection task; its sessions | recovery, cancel, resume, ... on request | reconnects; requests that come again; a launch and a shutdown that overlap |
| Admin server, client, debouncer, observability, serialization | little or none | wrappers, counters, codecs | each operation must be counted once |

A workflow is `Pending`, `Enqueued` or `Delayed` until it ends in `Success`,
`Error` or `Cancelled` (`MaxRecoveryAttemptsExceeded` exists in the enum and is
assigned nowhere). `Pending` has two meanings, told apart by `executor_id`: waiting
to be claimed, or claimed. The claim, `claim_workflow_execution`, is the one
conditional update of the protocol; every other write is `save_workflow`, which
replaces the row. So each save can undo what happened since its row was read, and
what is true in spite of that is what the model is for.

### What makes each component correct

* Execution: a claim is granted once each time a workflow was made to wait for one;
  one task at a time executes it; a claim whose process died is found again; every
  accepted workflow ends.
* Supervisor: nothing runs before its `delay_until`; deduplication ids stay unique.
* Steps: a recorded step is never run again; a replay returns what was recorded; a
  handler that makes the same calls again gives them the same numbers.
* Stores: the statements of all calls together are one atomic store; an answer agrees
  with what has happened, also when the statement was lost, repeated or late.
* Messages: a message is received by one `recv`, in the order of its sender, and is not
  lost. Events: who asks for one that was set is answered.
* Streams: what is written stays as it is; a reader gets every value once, in order.
* Schedules: an instant is fired for once, and none is left out; a stop holds; a
  backfill is whole or answers an error.
* Import: it leaves all of a workflow, or answers an error.
* Conductor client: ok means that the whole batch was carried out; a request is carried
  out once each time it is sent; a shutdown ends the task, and returns.

## Modules

    WorkflowStore              rows, and the atomic operations on one row
      WorkflowExecution        processes, tasks, supervisors, calls, crashes
        MCWorkflowExecution      values of the constants for TLC
        WorkflowExecution_proofs theorems: types, claims, exclusion
        StoredRows_proofs        theorems: recovery, delays, deduplication
      AtomicStore              what a system database promises of its rows
      SqlStore                 the SQL stores, statement by statement
        MCSqlStore, SqlStore_proofs
    DurableSteps               what durable steps promise
      StepReplay               step calls of a handler, rows, repeated executions
        MCStepReplay
        StepReplay_proofs, SequentialSteps_proofs
    Communication              messages, an event and a stream of one workflow
        MCCommunication, Communication_proofs
    Schedules                  schedule rounds of several processes, and users
        MCSchedules, Schedules_proofs
    Conductor                  the connection task, launch and shutdown
        MCConductor, Conductor_proofs

`SqlStore` implements `AtomicStore`, and `StepReplay` implements `DurableSteps`; both are
checked as refinements (`INSTANCE ... WITH`), and proved, the second for sequential handlers.
`WorkflowExecution` and `SqlStore` both use the rows and the row operations of
`WorkflowStore`: what `WorkflowExecution` takes as one atomic step of the store, `SqlStore`
takes apart. An MC module only names values for the constants.

### WorkflowStore

The table is a function from workflow ids to rows, `Absent` where there is none. A
row keeps the columns the protocol decides on: `status`, `name` (standing for name
and serialized input, which together identify an invocation), the claim
(`executor`, `execution`), `queue`, `dedup` and `delay`. `InsertResult` and
`Duplicate` are `MemoryStore::insert_workflow_with_result`, `Claimable` and
`ClaimedRow` are `claim_workflow_execution`. The first test of the latter, which
answers `true` for a row that already has the offered uuid, cannot succeed for a
fresh uuid and is left out here; `SqlStore` has it, where a claim is repeated.

### WorkflowExecution

One action per store call, so that every interleaving the code allows is a
behaviour. A value that one call reads and a later call writes is kept in a
variable: `snap` for tasks, `moving` for supervisors, `call` for management calls.

| Model | Code |
|---|---|
| task `t = <<workflow, uuid>>`, `pc[t]` | a tokio task in `execute_workflow`; the uuid it would offer to a claim |
| `recovered[t]` | the argument `resume_existing_claim` |
| `TaskRead` ... `TaskFinish` | the store calls of `execute_workflow` in order |
| `TaskFail` | any store call or codec that answers an error |
| `RecoverPending` | `recover_pending_workflows`: a listing, and a spawn for each row it selects |
| `Launch`, `FinishLaunch` | `launch` before and after it has started the supervisors |
| `Shutdown`, `Abort`, `AbortSupervisor`, `FinishShutdown` | `shutdown`: the handles are taken at once (`doomed`), then aborted one by one |
| `Crash`, `Boot` | the process dies and is started again |
| `SupervisorList`, `SupervisorMove`, `SupervisorDequeue`, `SupervisorSleep` | `transition_and_run_queued_workflows` and its loop |
| `Submit`, `Delete` | `run_workflow_value`, `delete_workflows` |
| `Begin`, `Finish...` | the read and the save of cancel, resume, set delay, fork |

What is abstracted:

* A workflow that is spawned but has read nothing cannot be told from one about
  to be spawned, so a call's last save and its spawn are one step.
* Uuids are a finite set `Executions`. A task that was never granted a claim is
  unknown to everyone, so when it ends its uuid serves another task; one that was
  granted a claim keeps its name for good. When all names of a workflow are used,
  nothing more is spawned for it: the runs where this can happen do not check
  deadlock.
* The batch a supervisor spawns is any `BatchSize` rows of the queue; the code
  takes the oldest.
* Calls whose answer is an error and that change nothing are not steps.
* `launch` is called again only after `shutdown` has returned, and an aborted task
  is gone within the timeout `shutdown` waits for it.
* The environment's events (submissions, cancels, crashes, failing calls, ...) are
  bounded by `Budget`, the clock by `MaxTime`. Nothing else is bounded.

Three history variables state the properties. `opened[w]` counts the writes that
turned the row of `w` into one that waits for a claim, whatever call made them;
`overlapped[w]` says that recovery once took `w` over for an executor id that still
had a live task executing it; `promised[w]` is the delay that the last caller was
promised, by an insertion or by `set_workflow_delay`, and not that of the row, which a
stale save can put back. All are facts of the execution that an observer of the
database, the tasks and the callers could record.

### DurableSteps and StepReplay

`StepReplay` looks inside one workflow: at the calls its handler makes, the step rows
they leave, and the executions that repeat the handler. That executions do not
overlap is what `ExclusiveExecution` gives, where it gives it; the constant `Overlap`
lets them. A handler is a deterministic program, so it is a constant, the sequence
`Body` of its calls, and the values its operations return are told apart by call and
run. `run_as_step` and `run_as_step_with_options` differ in retries and the fixed
number only; `run_as_transaction` and `sleep` are `run_as_step`; `select_step` is a
`run_as_step` whose operation waits for handles.

| Model | Code |
|---|---|
| `SpawnStep`, `Join` | `spawn_step`; awaiting its handle |
| `NextStepId` | `fetch_add` on the execution's counter, when the call is first polled |
| `GetStep`, `Replayed` | `get_step`; a row of another name is `UnexpectedStep`, otherwise its output is decoded, also when the row has an error: a null decodes for a `nullable` type only |
| `Operate`, `Retry` | the operation, run again by `retry_step_operation` |
| `RecordStep`, `StepFault` | `record_step` and the answer to the caller; a store call or codec that fails, before or after the row is written |
| `Proceed` | the handler going on, or returning on an error (`strict`, the `?` operator) |
| `Begin`, `Crash`, `Abort` | an execution of a claimed workflow; a process dies with all its tasks; `shutdown` aborts the handler's task, but not the steps it has spawned |

A call made inside an operation is a call of `Body` after the handler's `Statements`.
A write that is under way at a crash or an abort has happened or not; it does not
land later. Values have no content, so a row of another type with the right name is
not modelled. Three things are there for the properties only: `ran`, which also tells
the runs of an operation apart, `overlapped`, and the field `call` of a row.

`DurableSteps` is the abstract specification: a call is decided once, and executions
are given the decided value. `DurableOutcomes` says that `StepReplay` implements it,
a call being decided by the row that one of its runs has left.

### AtomicStore and SqlStore

`AtomicStore` is the trait `SystemDatabase` as its documentation has it: a row is
created where there is none, claimed while it waits, replaced, removed, one at a time,
and a call is answered what it did, or an error. `SqlStore` has `insert_workflow`,
`import_workflow`, `claim_workflow_execution`, the read and save of `resume_workflow`,
`record_step` and `delete_workflows` as the SQL statements that `PostgresStore` and
`TursoStore` send for them; a call is named by the execution id it would offer.

| Model | Code |
|---|---|
| `Start` | the call is made |
| `Execute` (`Apply`, `Proceed`) | the database carries out the statement, and the client goes on to the next, or returns |
| `LoseAnswer`, `Retry` | PostgreSQL: the connection breaks; the statement was applied, or is not, or is `adrift` and may `Land` later; the client sends it again once, and looks a claim up by its execution id |
| `Unreachable`, `StaysBusy` | the error that was retried is returned in the end |
| `StartOver` | Turso: a busy `SELECT` starts the insert over |

The related rows (steps, events, streams, messages) are one row for each of `Related`
tables, and a row is told apart by the `birth` of the workflow row it was written for.
A step is recorded by an execution of any row there ever was (`Born`): a delete stops
none, and `record_step` does not look for the row. `late` records which calls had a
statement applied late. `tangled` are the workflows whose related rows may be anybody's: a
delete of it has failed or met other calls, an execution that outlived a delete has
recorded a step, or a statement landed late; it ends when a delete that has met no other
call (`clean`) is answered Ok. The refinement maps `rows`, `birth`, `applied` and `told` to
themselves.

### Communication

The application that the module puts together receives `Wanted` messages on a topic,
writes each to a stream, sets an event and closes the stream, while others send, wait for
the event (`GetEvent`) and read the stream (`PollStream`). None of these calls records a
step, so an execution that repeats the handler after a crash makes all of them again.

| Model | Code |
|---|---|
| `Stamp`, `SendMessage` | `send`: `created_at` is read from the wall clock, which may stand still or step back, then the row is put; the row of a SQL store is keyed by the stamp |
| `SendAgain`, `SendFails`, `EncodeFails` | the answer is lost and `put` sends the row again, unmarked; it gives up; the message cannot be encoded |
| `Receive` | `recv` of the memory store, under its lock |
| `ListMessages`, `Consume`, `ConsumeFails`, `TimeOut` | `recv` of a SQL store: list and choose, put it back marked, put it again or poll again, give up |
| `Undecodable` | the message is marked, and `recv` cannot decode it |
| `ReadLength`, `WriteStream`, `CloseStream` | `write_stream` and `close_stream`: the offset is the length that was read; memory pushes, SQL upserts by offset |
| `SetEvent`, `GetEvent`, `GetEventTimesOut` | `set_event`, the polls of `get_event` |
| `Put`, `Lost`, `PutFails`, `Land` | `PostgresStore::put`: when the answer is lost, the statement was applied, or never will be, or is `adrift` and may land later; the handler's put is sent again, or fails |
| `PollStream`, `PollStreamFails` | a poll of `read_stream_async`, which skips as many values as it has delivered |
| `Begin`, `Crash`, `HandlerFails` | executions; a process that dies, perhaps with a put adrift; a read or a codec that fails |

One topic, one event key and one stream are modelled: keys that differ have rows that
differ (but see the list below). A waiter and a reader only read, so there is one of each, in the plans of `Followed`;
executions may overlap in those of `Overlap`.
`Values` is the filter of `read_stream` that leaves out the closing entries, told by ranks:
its n-th value is the entry of which n carrying ones are in the stream up to it. (That is
what `SelectSeq` yields, which a proof cannot unfold.) An execution makes one call at a time,
and a sender sends one message after the other: two calls of `recv` that a handler joins
compete as those of two overlapping executions do. The histories are what the premises of the
properties name: `resent`, the messages that were put again or landed late; `late`, that a
write to the stream landed late; `stepped`, the senders whose clock has not moved on between
two messages; `spoiled`, the messages marked without being received, or hit by an equal stamp.

### Schedules

| Model | Code |
|---|---|
| `List`, `Clock` | `reconcile_schedules`: the active rows are listed, then the clock is read |
| `Skip`, `Choose`, `Enqueue`, `Save` | for each row: not due; due, and a sleep; `enqueue_scheduled_workflow`; the row that was listed is upserted with the time of the round |
| `Fail`, `Crash` | a store call fails, applied or not, which ends the round; the process dies or is shut down |
| `Create`, `Delete` | `create_schedule` and `apply_schedules`, `delete_schedule` |
| `Get`, `SetStatus` | `pause_schedule`, `resume_schedule`: a read, and an upsert of what was read |
| `Trigger`, `Backfill`, `BackfillEnds`, `BackfillFails` | `trigger_schedule`; `backfill_schedule`, an instant at a time |

Time is in seconds, the resolution of a cron expression, and a cron expression is the
set of its instants. A round enqueues one workflow however many instants have passed;
`fires` counts it for each of them, which is how a skipped or doubled instant shows. The
workflow of a backfill is named by its instant, the one of a round by the time of the
round. The code has an `automatic_backfill` flag and a `cron_timezone` that no round reads.
Histories: `first` is when a row without a time was last given one; `disturbed` are the
schedules that a second round, a broken round, or a stale write has touched; `stopped` are
those paused or deleted while nobody held a copy of the row; `promised` are the backfills
answered without an error.

### Conductor

| Model | Code |
|---|---|
| `Launch`, `Connect`, `KeepHandle`, `LaunchEnds`, `LaunchFails` | the part of `DbosContext::launch` about the connection |
| `Shutdown`, `TakeHandle`, `Joined`, `TimeOut` | `DbosContext::shutdown` and `ConductorHandle::shutdown`: told, waited for, aborted |
| `Begin`, `Connected`, `Lost`, `Close`, `Pause` | `WebSocketConductorTransport::run`: sessions and pauses between them |
| `Send` | external: the Conductor, which sends again what was not answered |
| `Read`, `HandleId`, `HandleFails`, `Handled`, `Reply` | a session reads a message, handles the ids of its batch one by one, and answers |

The value that a session watches for shutdown is seen while it waits for a message, and
by the pause; not while it connects or handles. What a request does to a workflow is in
`WorkflowExecution` (`Recovery`, `Begin`, `Delete`).

## Properties

Of `WorkflowExecution`:

* `GrantsBounded`: grants of `w` never exceed `opened[w]`, and while the row waits
  they are fewer. Since `resume`, a stale supervisor or a stale postpone may open a
  workflow again, this is what "atomically assigns one executor" comes to.
* `ExclusiveExecution`: with `opened[w] <= 1` and not `overlapped[w]`, two tasks are
  never both past the gate. The two exceptions are real: see the findings below.
* `NoForgottenClaim`: once every process with the claimant's id is launched and
  knows the workflow, and no call failed, an unfinished claimed workflow has a live
  task in one of them.
* `NotBeforeDue`: a workflow made to wait once does not leave `Delayed` before the delay
  that was `promised` last, whichever delay the row has by then. Nothing is promised after
  a resume, which starts a delayed workflow at once, nor of a fork, nor by a
  `set_workflow_delay` that saves while a supervisor holds a copy of the row: the
  supervisor's save then undoes it.
* `DedupUnique`: no two unfinished workflows of a queue share a deduplication id, where each
  was made to wait once, executed by one task at a time, and nothing was cancelled, deleted
  or resumed: the save of a task undoes a cancel or a delete after another workflow has
  taken the id, and a resume moves a workflow to a queue without looking for its id there.
* `EveryWorkflowEnds`: under `Fairness`, every accepted workflow ends.

Of `StepReplay`:

* `RecordedNotRerun`, `DurableOutcomes`: once recorded, an operation is not run again,
  and all executions are given one value, as long as executions have not overlapped.
* `NoUnexpectedStep`: a handler that repeats its calls is never told otherwise,
  whatever was retried, failed or was replayed before.
* `RowsKeepTheirCall`: even executions that overlap replace rows of the same call only.
* `NeverOverwritten`, `AnswersOnRecord`: with spawned and nested steps too, as long as
  executions have not overlapped, `record_step` replaces nothing and what a handler
  was given is on record.
* `NobodyStuck`: an execution with anything under way has a step that can be taken: no
  join, select or nested step waits for one that waits for it. `CanGoOn` spells out the
  guards of `HandlerStep` and `CallStep`; TLC finds it equal to their `ENABLED` in every
  state of `steps_concurrent`, but it is a formula the prover can work with.
* `ExecutionsEnd`: every execution that survives ends, with the steps it spawned.

Of `SqlStore`:

* `ClaimAnswers`: a claim answered yes was granted, one answered no does not hold the
  row, unless a statement of it was applied after its call had returned.
* `OneHistory`: the related rows of a workflow are those of the row there is, and there are
  none where there is no row and no delete under way, unless it is `tangled`. So a delete
  that met nobody and was answered Ok has removed what earlier ones left.
* `ImportIsWhole`: an import that was answered Ok has left its whole history, with the same
  exception: an execution of an earlier row replaces steps of an import.
* `AtomicStatements`: the refinement of `AtomicStore`.

Of `Communication`; the first, the fourth and the fifth over a SQL store as long as
executions have not overlapped, and the last two of these as long as no write landed late:

* `ReceivedOnce`: no message is given to two calls of `recv`, over crashes too, other than
  one whose put was sent again or landed late.
* `SenderOrder`: what one sender has sent is received in that order, over a SQL store if its
  clock moves on; a message that was sent again may come after a later one.
* `NotLost`: a message that was sent waits or was received; a `recv` that fails after the
  mark, in the store or in decoding, and two messages of one stamp, are the ways to lose one.
* `StreamAgrees`: the stream has what each execution received, in order, none left out.
* `ReaderPrefix`: a subscription delivers each value once, in the order of the stream.
* `EventAnswered`: who asks for the event of a workflow that is done gets it, unless a
  poll fails.

Of `Schedules`:

* `FiredOnce`: no instant is fired for twice, of a schedule that is not `disturbed`.
* `NoGap`: once a row has a time, no instant is left out that the row has passed,
  whatever was stale, failed or crashed: what a round saves is the time it fired for,
  and not the time of the save.
* `StopHolds`: a schedule that was stopped while nobody held its row stays stopped.
* `BackfillWhole`: a backfill answered without an error is whole.
* `CaughtUp`: a schedule with instants that have no workflow yet is caught up with, or is
  stopped, or a row without a time is written back.

Of `Conductor`:

* `OkMeansAll`, `OncePerSending`: ok means all ids; one effect per sending and id.
* `NoneForgotten`: an open session has answered what has arrived, or has it waiting.
* `NothingAfterShutdown`: no task is left after a shutdown, unless a launch overlapped.
* `ShutdownReturns`: the task ends by itself, whatever it is doing when it is told.
* `Reconnects`: a task in a pause gets to a session, or was told to end.

### Fairness

`Fairness` of `WorkflowExecution` is weak fairness of each task, supervisor and call
(tokio polls what was spawned, handlers return), of the clock, and of `Boot`, `Launch`
and `FinishLaunch` (whoever runs a process restarts and launches it). `FairSpec` of
`StepReplay` is weak fairness of each call and of the handler: operations return.
`Schedules` has weak fairness of the clock and of each supervisor, whose loop is polled
until the process ends (a crashed one is launched again). `Conductor` has weak fairness of
a launch and a shutdown that have begun and of the connection tasks; not of `TimeOut`, so
that `ShutdownReturns` does not rest on the abort. Events of the environment
(submissions, crashes, failing calls, users, the Conductor's requests) are not fair: they
may never come.

## Runs

| Run | Instance | States | Shows |
|---|---|---|---|
| `execution_crash` | 2 processes with own ids, of which one does not know every name; a direct workflow, 2 uuids; a crash, a resume, a recovery for any ids | 0.8 M | types, one grant per wait, exclusion, no forgotten claim |
| `execution_supervisors` | 2 processes, a delayed workflow of a queue, 2 callers, a postpone to any of 2 times, a resume | 2.6 M | nothing starts before the promised delay, with two supervisors saving stale rows |
| `execution_dedup` | 1 process, 2 workflows with one deduplication id, a fork, a shutdown, a fault | 1.4 M | `DedupUnique` |
| `execution_ends` | 1 process, a direct, queued or delayed workflow, 3 uuids; a crash, a cancel, a delete; fair | 0.4 M | `EveryWorkflowEnds` |
| `steps_sequential` | 4 steps: retried, error handled, fixed number, plain; 2 executions that may overlap; a crash, an abort, a fault | 3.7 M | types, numbering, replay, the refinement |
| `steps_concurrent` | 2 spawned steps, one with a step inside and awaited, one selected, beside a retried step; 2 executions, a crash; fair | 0.2 M | `NeverOverwritten`, `AnswersOnRecord`, `NobodyStuck`, `ExecutionsEnd` |
| `store_sql` | 3 calls of any kind on one workflow, 2 names, 2 tables of related rows, 2 statements that fail, both stores | 0.9 M | answers, related rows, the refinement |
| `communication` | 2 senders (2 messages), 2 executions that may overlap, or with a waiter and a subscription instead, a crash, a lost answer, a value that cannot be coded, 2 stamps, both kinds of store | 4.8 M | all of its properties |
| `schedules` | 2 supervisors, a user, 3 instants, 2 events among calls, failures and crashes | 1.6 M | all of its properties |
| `conductor` | 2 launches, a shutdown, 2 requests of which one is malformed, each sent twice at most, one failure | 0.3 M | all of its properties |

One workflow is enough where the property is about one: rows are independent except
for deduplication, which has two. Two processes, supervisors, executions or calls are the
least that race; a third uuid or call lets the original one, its repetition and a newcomer
exist at once. The bounds on events let each pair of them meet. Two executions of a
handler are enough to replay. Three instants are the least for which a round that is
behind passes an instant that no round is at; with two, stale rounds never leave a gap to
be seen. Two messages are the least that have an order. The proofs lift these bounds for
the properties they are about, of which `GrantsBounded` and `ExclusiveExecution` are
therefore checked by one run only. Deadlock is not checked where the environment's events can
run out with nothing left to do, nor where all names of a workflow's tasks can be used up.
`execution_dedup` and `store_sql` check safety only and use symmetry of the workflows and
of the calls.

Two runs expect a violation, each of one property that the repository states and
the code does not keep. Their shortest counterexamples:

* `execution_launch_race`: the supervisor that `launch` has started dequeues and
  claims a workflow; `recover_pending_workflows`, which `launch` calls next, lists it
  as claimed by this executor id and spawns a second task that takes the claim over;
  both run the handler.
* `steps_failure_lost`: a step with result `()` fails and is recorded with an error and
  no output. In the next execution `run_as_step` decodes the missing output as null
  and returns `Ok(())`: the failed step has become a success without being run. (A
  result that null does not decode to gives a serialization error instead.)
  `get_step_aggregates`, by contrast, counts the same row as an error (1092).

### Seen while modelling

Behaviours of the code that the models have, or that reading it for them has shown, and
that no run singles out. Most are why a property has a premise.

Execution and management (`context.rs`):

* A task that has read the row saves `Pending` (1931) or its result (1992) over a cancel
  that came between. A workflow deleted while its handler runs is inserted again by the
  last save, and with it a deduplication id that another workflow has by now.
* `set_workflow_delay` reads a `Delayed` row, as it must be (786); the supervisor moves the
  workflow, or it starts; the save at 799 puts `Delayed` back and the caller is told Ok. A
  workflow that has started by then is started a second time.
* A supervisor that has listed a workflow as due saves the row it listed (2073) over a
  `set_workflow_delay` that was answered Ok meanwhile: the workflow starts before the
  delay its caller was promised.
* A delay without a queue (740) ends as `Enqueued` with no queue, which no supervisor
  lists and no recovery starts; `execution_ends` has no such workflow.
* `fork_workflow` (842-868) copies the row but no steps and does not read
  `start_step` (`types.rs` 463): a fork always begins at its first step.
* `register_workflow` (573-642) adds aliases one by one: one that is refused leaves the
  workflow registered with a part of them.

Steps:

* Two spawned steps of one name that are polled in another order by the second execution
  exchange their numbers, and so their outputs (1411).
* A step made inside the operation of another one takes a number (1184) that a replay
  of the outer step does not take, so the next step fails with `UnexpectedStep`;
  `NoUnexpectedStep` is checked for handlers without nested steps.

Communication:

* `recv` records no step: a handler executed again after a crash waits for a message that
  was marked before (1549). A put that marks it and answers an error loses it (1554).
* `PostgresStore::put` sends a message again, unmarked, when the answer to the first upsert
  is lost (661): if a receiver has marked the row in between, it is received twice, perhaps
  after later messages.
* Two messages of one sender whose wall clock stands still or steps back (1526) are one row,
  or are received in the wrong order.
* A message that cannot be decoded is gone: `recv` decodes it after it was marked (1551).
* A write to the stream that is applied after its connection was lost replaces the entry that
  the next execution has written at that offset.
* Executions that overlap are both given one message of a SQL store, and overwrite each
  other's entries of the stream.
* Keys join ids and names by ':' (`store.rs` 1547), which both may contain.

Schedules:

* A schedule that has never fired looks back one second (2135), while rounds are by
  default 30 s apart: until its first fire it misses most instants. A round that lists a
  schedule before its first fire, and reads the clock later (2126), skips what lies
  between.
* A round that began before a pause or a delete saves the row it listed, active again
  (2142). A pause or resume that has read an older row writes the older time, or none.

Stores:

* The insert of the SQL stores looks at no deduplication id (`store.rs` 812).
* A delete removes the workflow first, its related rows one by one; if it fails, a new
  workflow with that id finds them.
* A delete stops no execution (`context.rs` 838), and `record_step` looks at no workflow
  row (`store.rs` 937): an execution that outlives a delete leaves steps for the next
  workflow of that id, and replaces those of an import.

Conductor:

* A message that cannot be decoded ends the session unanswered, and what came in behind
  it is lost (`conductor.rs` 221); the Conductor has to send it again.
* A launch that overlaps a shutdown can leave a connection task that nobody has the handle
  of; it ends with its next pause or its next wait for a message.

## Proofs

All theorems are for every value of the constants under the named assumptions, which the
runs evaluate. TLAPS checks every step; none of them has been taken on trust.

### WorkflowExecution_proofs

`WorkflowExecution_proofs` proves, for all values of the constants under
`StoreAssumption` and `ExecutionAssumption` (which the model-checking runs
evaluate), `TypeCorrect`, `AtMostOneGrant` and `Exclusion`: `Spec` implies always
`TypeOK`, `GrantsBounded` and `ExclusiveExecution`.

`ExclusiveExecution` is not inductive: nothing in it says why a task that takes
over a claim shares its executor id with the only claimant. The invariant `Inv`
adds

* `Stages`: a task before its claim has none, one after it has, and a live task has
  a host;
* `ExecutorsKnown`: an executor id in a row, or in any copy of a row that a task, a
  supervisor or a call holds, is that of a claimant. Stale saves write back old
  ids, but only ones that were once granted;
* `GateKept`: recovery follows a claim, and a task past the gate is `Entitled`: it
  holds a claim or a recovery and shares its id with a claimant;
* `OneEntitled`: under the premise of `ExclusiveExecution` at most one task is
  entitled.

`StepShape` reduces the thirty actions to three kinds of step, a grant, a recovery
and a quiet step, and shows that all copies are of rows in the table; each part of
`Inv` is then proved for the three kinds. In a grant, `GrantsBounded` says there
was no claimant before, so nobody else was entitled. In a recovery it says the
claimant is unique, so the id in the row is the claimant's, and `overlapped` would
record any holder with that id.

### StoredRows_proofs

`ClaimsRemembered` (`NoForgottenClaim`), `DelaysKept` (`NotBeforeDue`) and `DedupKept`
(`DedupUnique`), from `Inv` above and under the same assumptions. They are about what a save
of a row read long before may do, so the invariant `RowsInv` is about all the copies there
are, those that tasks, supervisors and calls hold as well as the row in the table (`Seen`):

* `OneOrigin`: the copies of a workflow made to wait once have one name and deduplication
  id, and, where nothing was resumed, one queue. So whichever copy is saved, the check that
  the insert made still stands.
* `HeldRows`, `DueCopies`: a copy that says `Delayed` has no claim; the promised delay is that
  of the row while the workflow waits for it, and is past when a supervisor or a task holds a
  copy that it may save. `DelayStep` is what a step may do to a promise: it is kept, given up,
  or set anew together with the row while no supervisor holds a copy.
* `OwnClaim`, `DoomedStops`: a task that starts has read the claim of its own executor, and
  only a process that stops aborts tasks: a launched process with that id has therefore
  spawned a recovery, or still has the claimant.
* `StartsUnfinished`: a task does not start what has ended, which would take a
  deduplication id back; this needs the premises of `DedupUnique`.
* `Spent`: the budget is never given back, and a call under way was paid for; so where a
  kind of event was unused, no call of it is under way either.

The thirty actions are brought down to what they do to a task (`FateStep`), to the table,
one save of a named kind at a time (`TableSteps`), to the copies (`RestSteps`) and to the
processes (`LifeSteps`). A save is `Justified` if each column of it comes from a copy or from
the rule of its action: where its name, deduplication id and queue are from (`Traced`), why
the id is still free (`DedupOf`), why its delay is due (`DelayOf`), who ends the workflow
(`EndOf`), and which task has the claim that the row names (`HolderOf`).

### SqlStore_proofs

`TypeCorrect`, `ClaimsAnswered` (`ClaimAnswers`), `Refinement` (`Spec => AtomicStatements`),
`HistoriesApart` (`OneHistory`) and `ImportsWhole` (`ImportIsWhole`), under `StoreAssumption`
and `SqlAssumption`. The invariant says that a call under way carries what its statement
needs (`CallsSound`), also one that is `adrift` (`AdriftSound`); that rows have a creator, and
their holder was granted a claim (`RowsSound`); that yes is true (`YesIsTrue`); and that
whoever holds a row is under way, late, or was told something else than no (`HoldersKnown`),
which is what makes no true. The many branches of the client are brought down to two,
`GoesOn` and `Returns`, of which the second has an answer that `Agrees` with the statement
that was applied; each statement is then one step of `AtomicStore`, and a failure or a
repetition is a stuttering step or an answer.

For the related rows, `Histories` says of every workflow that is not `tangled` what each
pending statement finds in the tables (`Finds`): a step that is recorded belongs to the row
there is, an import has written the tables before the one it has reached, a delete has swept
them. Neither property is inductive without it, because both are about what several
statements of one call leave together. A row that is gone has related rows only while a
delete of it is under way, which is then the only call (`Agreeing`). `Cleans` says the same of
a delete that has met no other call, for workflows that are `tangled` too: it has swept what it
has passed, whatever it found there, so when it returns the workflow is `Gone` and agrees again.

### StepReplay_proofs and SequentialSteps_proofs

`StepReplay_proofs` is about every `Body` that `BodyAssumption` allows, spawned, nested,
awaited and selected steps included, and any number of executions, retries, crashes, aborts
and failures.

* `TypeCorrect`: the counter stays within the number of calls because it is the number of
  the calls that have taken one from it (`Counted`), and `SpawnStep` spawns a call once.
* `NeverReplaced` (`NeverOverwritten`) and `OnRecord` (`AnswersOnRecord`), if the numbers
  that the handler fixes (`next_step_id`) are its own (`OwnNumbers`: no two calls fix one,
  and none is one that the counter may give; without that two calls of one execution can
  share a row, and the code has nothing against it). `FreshInv` is inductive: the calls of
  an execution have numbers of their own (`Apart`); while no two executions have been alive
  at the same time one is busy, and a call whose operation runs or has run has no row yet
  (`Fresh`). So a record never meets a row, and what was answered stays on record. `Works`
  brings the actions down to what a call may do when it moves on.
* `NeverStuck` (`NobodyStuck`), for every handler. `InOrder` says that the statements before
  the one reached have returned or are spawned steps, those after it have not begun, and a
  nested call is under way only while the operation around it runs. Then the first statement
  that is pending can go on, or the first unanswered call inside it: every handle it waits
  for is that of an earlier statement, which is pending no more. That handles come from
  earlier statements is `BodyAssumption`: a `JoinHandle` is moved into the call that waits
  for it, so `spawn_step` has returned it before, and a call inside an operation has those
  its closure was made with.

`SequentialSteps_proofs` is about a `SequentialHandler`: it spawns nothing, makes no step
inside a step, and its numbers are its own. (The `Sequential` of `MCStepReplay` is one, the
`Concurrent` is not.) For those it proves `NumbersKept` (`NoUnexpectedStep`), `RowsStay`
(`RowsKeepTheirCall`), `NotRerun` (`RecordedNotRerun`) and, if no result is read from a JSON
null, `Durable` (`DurableOutcomes`, the refinement of `DurableSteps`).

* `Place` is the number a call is made under, computed from the handler alone, and
  `PlaceInjective` says that no two calls share one. `Order` says that the calls are made
  in order, each under its place.
* `Given` and `Rows` say that answers and rows are outcomes of their call; so a row is
  never taken for another call's.
* `Alone` is what the absence of overlapping executions gives: an operation is run for a
  call without a row only, and a value that was answered is on record.

`StepCases` brings the actions down to six things a call may do. Overlapping executions are
exactly what breaks `Alone`, and nothing else in the proofs uses `overlapped`.

### Schedules_proofs

`TypeCorrect`, `NothingSkipped` (`NoGap`), `NothingTwice` (`FiredOnce`), `StopsStay`
(`StopHolds`) and `BackfillsWhole` (`BackfillWhole`), under `ScheduleAssumption`, so for any
number of schedules, supervisors, users, failures and crashes.

* `Passed` strengthens `NoGap` from rows to the copies of rows: every time in a row, in
  a round or in a user's call is `Good`, that is, not after now, and with nothing left out
  before it. `Sources` shows where a step takes rows, copies and times from, and
  `GoodKept` that a good time stays good; so a stale copy, written back, is good as well.
* `Firing` is about undisturbed schedules: one round at most has the row, and whatever was
  fired has been passed by the row and by the copy, or will be by the save under way.
  With `Ordered`, that a round is not before the rows it has, the instants of a round are
  those that were not fired for.
* `Stops` and `Backfills` add what calls under way hold.

### Communication_proofs

All safety properties of the module, under `CommunicationAssumption`, so for any number of
senders, messages, executions, crashes, lost answers and failing codecs, and for both kinds of
store: `MessageOnce` (`ReceivedOnce`), `OneSendersOrder` (`SenderOrder`), `MailKept` (`NotLost`),
`EventFound` (`EventAnswered`), `TypeCorrect` (`TypeOK`), `StreamKept` (`StreamAgrees`) and
`ReaderInOrder` (`ReaderPrefix`). The inductive invariant of the messages and the event is
`MailInv`; `MailCases` brings the actions down to what a step may do to a message: a sender
reads its clock, sends, sends again or gives up; an execution lists one, marks it, is given it
or loses it; a put lands late.

* `Typed`: the types, what an execution has done by the call it has reached, and that a put
  that is adrift has the row it was sent with (`Whole`, `Adrift`); the event is set before an
  execution is done, which `EventAnswered` needs.
* `Ordered`: each row, and each copy of a row that an execution holds or that is adrift
  (`Copies`), is of a message its sender has gone on from or is sending again (`AllKnown`).
  The memory store has one sender's messages in the order of their numbers (`InOrder`). In a
  SQL store no two rows have one stamp, a message has one stamp wherever it is, and the
  stamps are in the order of the numbers if the sender's clock moves on (`Stamped`).
* `Unique`: what was received is marked (`Settled`), and what an execution holds to mark
  nobody has received (`HeldNew`), unless executions overlap; both for messages that were not
  sent again. That is where the list and the put of a SQL store come apart, and why
  `ReceivedOnce` says `~overlapped`.
* `Ahead`, for `SenderOrder`: what waits is newer than what any execution was given, and not
  older than what it holds, if it is `Plain`: sent once, by a sender whose clock moves on. It
  needs no premise about overlap: a second execution can only take away what waits.
* `Kept`, for `NotLost`: a message its sender was told of waits, was received or is noted as
  spoiled; a put takes away its own message and those of its stamp only (`PutSafe`). A message
  that arrives again is no worse off.

`StreamInv` adds the stream and the subscription, with `StreamCases` for what a step may do
to them. Where executions have not overlapped over a SQL store and no write has landed late
(`Single`):

* `OffsetNow`: the offset an execution holds, between its read of the length and its write,
  is the length of the stream, since nobody else writes (`Lone`); or its entry is at that
  place already, because the answer to the put was lost (`Placed`). So every write is an append
  or puts the same entry again (`PutIsLast`, `PlacedThen`); this is the step of the argument
  that overlapping executions and late writes (`Drifts`) break.
* `Pace`: an execution has written all it has received but the one it has in hand (`Due`),
  and `HeldLast`: that one is what it received last. So an entry that is written has the number
  of the message it is of, also when the write is answered an error and the execution ends.
* `ValuesGrow`, from lemmas about ranks (`RankNext`, `RankFound`, `RankLast`): an append
  leaves a stream the values it had, so what a subscription has counted is what it has
  delivered, and `PollFacts`: what it skips and what it adds make up the whole.

### Conductor_proofs

`TypeCorrect`, `OkIsWhole` (`OkMeansAll`), `NothingForgotten` (`NoneForgotten`),
`HandledOncePerSending` (`OncePerSending`) and `ShutdownIsFinal` (`NothingAfterShutdown`),
under `ConductorAssumption`. `Progress` says what has been done of a request that is being
handled; `Sessions` adds that a session begins with nothing arrived. For `OncePerSending`,
`Distinct` says that a session has a request in one place, arrived or being handled, and
`Counted` that what was applied and what is owed by the tasks that have the request and have
not applied it yet (`Owing`) are together no more than the sendings; a send adds one
that owes, a reading moves it, a handling turns it into an effect, an end drops it. `Kept`,
for `ShutdownIsFinal`, follows the handle of a task that is alive from the launch that holds
it to the context and to the shutdown that waits for it, while no launch and shutdown have
overlapped.

### Model-checked only

Every invariant and action property of the runs is stated by a theorem (and the type of
`SqlStore` by a theorem only, `TypeCorrect`); two limits remain.

* `NumbersKept`, `RowsStay`, `NotRerun` and `Durable` are about sequential handlers, and
  may fail of others: spawned and nested steps take their numbers in the order they are polled,
  which a replay may repeat otherwise.
* Liveness (`EveryWorkflowEnds`, `ExecutionsEnd`, `CaughtUp`, `ShutdownReturns`,
  `Reconnects`) rests on fairness and `ENABLED`, which the prover does not handle.

## Not modelled

* The admin server (`admin.rs`) and the client (`client.rs`): parsing, routing and wrappers
  over the calls that are modelled. The debouncer has no state: it names a workflow by a
  time bucket, and the insertion in `WorkflowStore` does the rest.
* Observability: counters and spans that nothing depends on. (Its guards count an
  operation that is dropped as finished, so more may be finished than started.)
* Serialization and encodings: pure conversions. A codec that fails is an action wherever
  a modelled call uses one (`TaskFail`, `StepFault`; in `Communication` `EncodeFails`,
  `Undecodable`, `HandlerFails`, `GetEvent` and `PollStreamFails`).
* Queue registry, application versions, patches: plain upserts that check and then write.
  No operation reads a version or a patch to decide what another may do; the queue
  registry appears as the constant `Polled`. The concurrency and rate limits of a queue
  are stored, and enforced nowhere in this code.
* Workflow registration: the names a process knows are the constant `Handles`.
* Reads that only answer (list, export, get): they change no state.
* SQL schema creation and migration, connection pools, TLS.
