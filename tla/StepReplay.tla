------------------------------ MODULE StepReplay ------------------------------
(***************************************************************************)
(* Durable steps: the step calls of one workflow's handler, the rows they   *)
(* leave in the database, and the executions that repeat the handler from   *)
(* its beginning after a crash, a shutdown or a resume.                      *)
(*                                                                          *)
(* A handler is a deterministic program: Body is the sequence of its calls. *)
(* The first Statements of them are made by the handler itself, one after   *)
(* the other; a later one is made inside the operation of another call.     *)
(***************************************************************************)
EXTENDS Naturals, Sequences

CONSTANTS
  Body,             \* the calls of the handler, see CallType
  Statements,       \* how many of them are statements of the handler
  StepNames,
  LastExecution,    \* bound on the executions of the workflow
  Overlap,          \* whether recovery may take over an execution that is alive
  Budget,           \* bound on each kind of event of the environment
  None

Calls == 1..Len(Body)
Executions == 1..LastExecution
FixedNumbers == {Body[c].fixed : c \in Calls} \ {None}
Ids == Calls \cup FixedNumbers

(***************************************************************************)
(* kind      "run" for run_as_step and what is built on it, "spawn" for     *)
(*           spawn_step, "join" for awaiting the handle of a spawned step   *)
(* retries   max_retries of StepOptions, fixed its next_step_id             *)
(* inside    the call whose operation makes this one, 0 for a statement     *)
(* waits     the handles a select_step or a join waits for: a call inside   *)
(*           another one has those that were there when its closure was made *)
(* strict    whether the handler gives up on an error of the call           *)
(* nullable  whether the type of the result can be read from a JSON null    *)
(***************************************************************************)
CallType ==
  [kind : {"run", "spawn", "join"}, name : StepNames, retries : Nat, fixed : Nat \cup {None},
   inside : Nat, waits : SUBSET Nat, strict : BOOLEAN, nullable : BOOLEAN]

\* The statement that makes call c, or runs the operation that does.
Root(c) == IF c <= Statements THEN c ELSE Body[c].inside

ASSUME BodyAssumption ==
  /\ Body \in Seq(CallType)
  /\ Statements \in 1..Len(Body)
  /\ None \notin Nat
  /\ \A c \in Calls :
       /\ Body[c].inside = 0 <=> c <= Statements
       /\ c > Statements =>
            /\ Body[c].inside \in 1..Statements
            /\ Body[Body[c].inside].kind # "join" /\ Body[Body[c].inside].retries = 0
            /\ Body[c].kind = "run"
       /\ Body[c].waits \subseteq {d \in 1..(Root(c) - 1) : Body[d].kind = "spawn"}
       /\ \A d \in Calls \ {c} : Body[c].waits \cap Body[d].waits = {}
       /\ Body[c].kind = "join" => Body[c].waits # {}

ASSUME BoundsAssumption ==
  /\ LastExecution \in Nat
  /\ Overlap \in BOOLEAN
  /\ Budget \in [{"crash", "abort", "fault"} -> Nat]

VARIABLES
  steps,      \* the step rows of the workflow
  counter,    \* step_id of each execution's WorkflowRunState
  life,       \* what became of each execution
  next,       \* the statement each execution has reached
  stage,      \* how far each execution's calls have come
  number,     \* the step id each call has taken
  tries,      \* retries each call has made
  answer,     \* what the operation, and in the end the call, has returned
  ran,        \* history: how often the operation of each call was run
  overlapped, \* history: whether two executions have been alive at the same time
  budget

vars == <<steps, counter, life, next, stage, number, tries, answer, ran, overlapped, budget>>

-----------------------------------------------------------------------------
\* Values are told apart by the call and the run of its operation they come from.
Null == <<0, 0>>
Values == Calls \X Nat
Nothing == [tag |-> "none", value |-> Null]
Ok(value) == [tag |-> "ok", value |-> value]
Failed == [tag |-> "failed", value |-> Null]            \* StepExecution
Unexpected == [tag |-> "unexpected", value |-> Null]    \* UnexpectedStep
Undecodable == [tag |-> "undecodable", value |-> Null]  \* Serialization
Broken == [tag |-> "broken", value |-> Null]            \* the store or a codec answered an error

Tags == {"none", "ok", "failed", "unexpected", "undecodable", "broken"}
Answers == [tag : Tags, value : Values \cup {Null}]

\* `call` is not stored: it says which call left the row.
NoRow == [call |-> 0, name |-> None, result |-> Nothing]
Row(c, result) == [call |-> c, name |-> Body[c].name, result |-> result]

Init ==
  /\ steps = [i \in Ids |-> NoRow]
  /\ counter = [e \in Executions |-> 0]
  /\ life = [e \in Executions |-> "unborn"]
  /\ next = [e \in Executions |-> 1]
  /\ stage = [e \in Executions |-> [c \in Calls |-> "idle"]]
  /\ number = [e \in Executions |-> [c \in Calls |-> 0]]
  /\ tries = [e \in Executions |-> [c \in Calls |-> 0]]
  /\ answer = [e \in Executions |-> [c \in Calls |-> Nothing]]
  /\ ran = [c \in Calls |-> 0]
  /\ overlapped = FALSE
  /\ budget = Budget

Spend(kind) ==
  /\ budget[kind] > 0
  /\ budget' = [budget EXCEPT ![kind] = @ - 1]

Answered(e, c) == stage[e][c] = "done"
Inner(c) == {d \in Calls : Body[d].inside = c}
Detached(c) == Body[Root(c)].kind = "spawn"

\* A spawned step is a tokio task of its own: it goes on when its execution has
\* ended or its task was aborted, and dies with the process.
Alive(e, c) == life[e] = "running" \/ (Detached(c) /\ life[e] \in {"ended", "aborted"})

Active(e) == \E c \in Calls : Alive(e, c) /\ stage[e][c] \notin {"idle", "done"}

\* Control has reached call c.
Reached(e, c) ==
  /\ Alive(e, c)
  /\ \/ c <= Statements /\ next[e] = c /\ Body[c].kind = "run" /\ stage[e][c] = "idle"
     \/ stage[e][c] = "spawned"
     \/ /\ c > Statements /\ stage[e][c] = "idle"
        /\ stage[e][Body[c].inside] = "running"
        /\ \A d \in Inner(Body[c].inside) : d < c => Answered(e, d)

Proceed_Past(e, goOn) ==
  IF goOn
  THEN next' = [next EXCEPT ![e] = @ + 1] /\ UNCHANGED life
  ELSE life' = [life EXCEPT ![e] = "ended"] /\ UNCHANGED next

\* The handler goes on to its next statement, or returns.
Proceed(e, goOn) ==
  IF goOn /\ next[e] < Statements
  THEN next' = [next EXCEPT ![e] = @ + 1] /\ UNCHANGED life
  ELSE life' = [life EXCEPT ![e] = "ended"] /\ UNCHANGED next

\* The call returns a to its caller: the handler, an operation, or a handle.
Return(e, c, a) ==
  /\ stage' = [stage EXCEPT ![e][c] = "done"]
  /\ answer' = [answer EXCEPT ![e][c] = a]
  /\ IF c <= Statements /\ Body[c].kind # "spawn"
     THEN Proceed(e, a.tag = "ok" \/ ~Body[c].strict)
     ELSE UNCHANGED <<next, life>>
-----------------------------------------------------------------------------
\* A claimed workflow is executed from the beginning of its handler.
Begin(e) ==
  /\ life[e] = "unborn"
  /\ \A f \in Executions : f < e => life[f] # "unborn"
  /\ Overlap \/ \A f \in Executions : life[f] # "running"
  /\ life' = [life EXCEPT ![e] = "running"]
  /\ overlapped' = (overlapped \/ \E f \in Executions : life[f] = "running" \/ Active(f))
  /\ UNCHANGED <<steps, counter, next, stage, number, tries, answer, ran, budget>>

SpawnStep(e) ==
  LET c == next[e] IN
  /\ life[e] = "running"
  /\ Body[c].kind = "spawn"
  /\ stage' = [stage EXCEPT ![e][c] = "spawned"]
  /\ Proceed(e, TRUE)
  /\ UNCHANGED <<steps, counter, number, tries, answer, ran, overlapped, budget>>

TakeNumber_Load(e, c) ==
  /\ number' = [number EXCEPT ![e][c] = counter[e] + 1]
  /\ UNCHANGED counter

TakeNumber(e, c) ==
  /\ number' = [number EXCEPT ![e][c] = counter[e] + 1]
  /\ counter' = [counter EXCEPT ![e] = @ + 1]

\* A spawned step takes its number when its task is first polled.
NextStepId(e, c) ==
  /\ Reached(e, c)
  /\ stage' = [stage EXCEPT ![e][c] = "numbered"]
  /\ \/ Body[c].fixed = None /\ TakeNumber(e, c)
     \/ /\ Body[c].fixed # None
        /\ number' = [number EXCEPT ![e][c] = Body[c].fixed]
        /\ UNCHANGED counter
  /\ UNCHANGED <<steps, life, next, tries, answer, ran, overlapped, budget>>

\* The row of an operation that failed has an error and no output, and it is the
\* output that is decoded.
Replayed(c, row) ==
  CASE row.name # Body[c].name -> Unexpected
    [] row.name = Body[c].name /\ row.result # Failed -> row.result
    [] row.name = Body[c].name /\ row.result = Failed ->
         IF Body[c].nullable THEN Ok(Null) ELSE Undecodable

ToRun_Failed(row) == row = NoRow \/ row.result = Failed

ToRun(row) == row = NoRow

GetStep(e, c) ==
  LET row == steps[number[e][c]] IN
  /\ stage[e][c] = "numbered"
  /\ Alive(e, c)
  /\ \/ /\ ToRun(row)
        /\ stage' = [stage EXCEPT ![e][c] = "running"]
        /\ UNCHANGED <<answer, next, life>>
     \/ ~ToRun(row) /\ Return(e, c, Replayed(c, row))
  /\ UNCHANGED <<steps, counter, number, tries, ran, overlapped, budget>>

Finished_Ok(e, c) == {d \in Body[c].waits : Answered(e, d) /\ answer[e][d].tag = "ok"}

\* The handles call c waits for whose step has returned.
Finished(e, c) == {d \in Body[c].waits : Answered(e, d)}

\* What one run of the operation may return.  A select returns what a spawned step
\* that has finished returned; an operation gives up on an error of a strict inner call.
Outcomes(e, c) ==
  LET own == {Ok(<<c, ran[c] + 1>>), Failed}
      chosen == {IF answer[e][d].tag = "ok" THEN answer[e][d] ELSE Failed : d \in Finished(e, c)}
  IN IF \E d \in Inner(c) : Body[d].strict /\ answer[e][d].tag # "ok" THEN {Failed}
     ELSE IF Body[c].waits = {} THEN own ELSE chosen

Retry_Renumbered(e, c) ==
  /\ tries[e][c] < Body[c].retries
  /\ tries' = [tries EXCEPT ![e][c] = @ + 1]
  /\ number' = [number EXCEPT ![e][c] = counter[e] + 1]
  /\ counter' = [counter EXCEPT ![e] = @ + 1]
  /\ UNCHANGED <<stage, answer>>

\* The operation is run again, if the retry_predicate has no objection.
Retry(e, c) ==
  /\ tries[e][c] < Body[c].retries
  /\ tries' = [tries EXCEPT ![e][c] = @ + 1]
  /\ UNCHANGED <<counter, number, stage, answer>>

Operate(e, c) ==
  /\ stage[e][c] = "running"
  /\ Alive(e, c)
  /\ \A d \in Inner(c) : Answered(e, d)
  /\ \E outcome \in Outcomes(e, c) :
       \/ /\ stage' = [stage EXCEPT ![e][c] = "ran"]
          /\ answer' = [answer EXCEPT ![e][c] = outcome]
          /\ UNCHANGED <<counter, number, tries>>
       \/ outcome = Failed /\ Retry(e, c)
  /\ ran' = [ran EXCEPT ![c] = @ + 1]
  /\ UNCHANGED <<steps, life, next, overlapped, budget>>

Write_Lost(e, c) ==
  \/ UNCHANGED steps
  \/ steps' = [steps EXCEPT ![number[e][c]] = Row(c, answer[e][c])]

\* record_step replaces the row, whether there is one or not.
Write(e, c) == steps' = [steps EXCEPT ![number[e][c]] = Row(c, answer[e][c])]

RecordStep(e, c) ==
  /\ stage[e][c] = "ran"
  /\ Alive(e, c)
  /\ Write(e, c)
  /\ Return(e, c, answer[e][c])
  /\ UNCHANGED <<counter, number, tries, ran, overlapped, budget>>

\* A store call or a codec answers an error.  The row may have been written before.
StepFault(e, c) ==
  /\ Spend("fault")
  /\ Alive(e, c)
  /\ \/ stage[e][c] = "numbered" /\ UNCHANGED steps
     \/ stage[e][c] = "ran" /\ (Write(e, c) \/ UNCHANGED steps)
  /\ Return(e, c, Broken)
  /\ UNCHANGED <<counter, number, tries, ran, overlapped>>

\* The handler awaits the handle of a spawned step.
Join(e) ==
  LET c == next[e] IN
  /\ life[e] = "running"
  /\ Body[c].kind = "join"
  /\ \E d \in Finished(e, c) : Return(e, c, answer[e][d])
  /\ UNCHANGED <<steps, counter, number, tries, ran, overlapped, budget>>
-----------------------------------------------------------------------------
\* A process dies, with the executions it runs.
Crash ==
  /\ Spend("crash")
  /\ \E dead \in SUBSET {e \in Executions : life[e] = "running" \/ Active(e)} :
       /\ dead # {}
       /\ life' = [e \in Executions |-> IF e \in dead THEN "crashed" ELSE life[e]]
  /\ UNCHANGED <<steps, counter, next, stage, number, tries, answer, ran, overlapped>>

\* shutdown aborts the task that runs the handler.
Abort(e) ==
  /\ Spend("abort")
  /\ life[e] = "running"
  /\ life' = [life EXCEPT ![e] = "aborted"]
  /\ UNCHANGED <<steps, counter, next, stage, number, tries, answer, ran, overlapped>>

CallStep(e, c) == NextStepId(e, c) \/ GetStep(e, c) \/ Operate(e, c) \/ RecordStep(e, c)
HandlerStep(e) == SpawnStep(e) \/ Join(e)

Next ==
  \/ \E e \in Executions : Begin(e) \/ SpawnStep(e) \/ Join(e) \/ Abort(e)
  \/ \E e \in Executions, c \in Calls :
       \/ NextStepId(e, c) \/ GetStep(e, c) \/ Operate(e, c) \/ RecordStep(e, c)
       \/ StepFault(e, c)
  \/ Crash

Spec == Init /\ [][Next]_vars

\* tokio polls every task that can go on, and operations return.
FairSpec ==
  /\ Spec
  /\ \A e \in Executions : WF_vars(HandlerStep(e))
  /\ \A e \in Executions, c \in Calls : WF_vars(CallStep(e, c))
-----------------------------------------------------------------------------
TypeOK ==
  /\ steps \in [Ids -> [call : {0} \cup Calls, name : {None} \cup StepNames, result : Answers]]
  /\ counter \in [Executions -> 0..Len(Body)]
  /\ life \in [Executions -> {"unborn", "running", "ended", "aborted", "crashed"}]
  /\ next \in [Executions -> 1..Statements]
  /\ stage \in [Executions -> [Calls -> {"idle", "spawned", "numbered", "running", "ran", "done"}]]
  /\ number \in [Executions -> [Calls -> {0} \cup Ids]]
  /\ tries \in [Executions -> [Calls -> Nat]]
  /\ answer \in [Executions -> [Calls -> Answers]]
  /\ ran \in [Calls -> Nat]
  /\ overlapped \in BOOLEAN
  /\ budget \in [{"crash", "abort", "fault"} -> Nat]

\* Between a step's operation and its record stands a crash: an operation may be run
\* twice.  But once its outcome is recorded no execution runs it again, unless it had
\* looked for the record before another execution that is alive wrote it.
RecordedNotRerun ==
  [][\A c \in Calls :
       ran'[c] # ran[c] => overlapped \/ \A i \in Ids : steps[i].call # c]_vars

\* A handler that only does the same calls again is never told that its steps do not
\* match the recorded ones (context.rs 1171): the numbers its calls take are the same
\* in every execution, the ones that failed, retried or were answered from a row included.
NoUnexpectedStep == \A e \in Executions, c \in Calls : answer[e][c] # Unexpected

\* record_step replaces whatever row there is.  While no two executions have been alive
\* at the same time it never finds one: two calls of an execution, spawned or not, do
\* not take one number, and what was recorded before is answered, not run.
NeverOverwritten ==
  [][~overlapped' => \A i \in Ids : steps[i] # NoRow => steps'[i] = steps[i]]_vars

\* Executions that overlap may replace each other's rows, but only by the outcome of
\* the same call.
RowsKeepTheirCall ==
  [][\A i \in Ids : steps[i] # NoRow => steps'[i].call = steps[i].call]_vars

\* A value the handler goes on with is on record: a later execution that makes the
\* call under the same number is answered with it.
AnswersOnRecord ==
  ~overlapped => \A e \in Executions, c \in Calls :
    Body[c].kind # "join" /\ Answered(e, c) /\ answer[e][c].tag = "ok"
      => steps[number[e][c]].result \in {answer[e][c], Failed}

\* A call that has failed for one execution does not succeed for another one.
FailureKept ==
  \A e, f \in Executions, c \in Calls :
    Answered(e, c) /\ Answered(f, c) /\ answer[e][c] = Failed => answer[f][c].tag # "ok"

\* An execution that is neither killed nor aborted ends, and with it every step that it
\* has spawned: no call waits for ever for a handle, a retry or an inner call.
ExecutionsEnd ==
  \A e \in Executions :
    life[e] = "running" ~> life[e] # "running" /\ ~Active(e)

\* A step of execution e is possible: one of its handler, or of a call of it.
CanGoOn(e) ==
  \/ /\ life[e] = "running"
     /\ \/ Body[next[e]].kind = "spawn"
        \/ Body[next[e]].kind = "join" /\ Finished(e, next[e]) # {}
  \/ \E c \in Calls : Alive(e, c) /\
       \/ Reached(e, c)
       \/ stage[e][c] \in {"numbered", "ran"}
       \/ /\ stage[e][c] = "running" /\ \A d \in Inner(c) : Answered(e, d)
          /\ Outcomes(e, c) # {}

\* Handles, selects and nested steps never wait for each other in a ring: whatever has
\* failed, been aborted or outlived its handler, an execution with anything under way has
\* a step that can be taken.
NobodyStuck ==
  \A e \in Executions : life[e] = "running" \/ Active(e) => CanGoOn(e)

-----------------------------------------------------------------------------
Left(c) == {i \in Ids : steps[i].call = c}
Decided == [c \in Calls |-> IF Left(c) = {} THEN None ELSE steps[CHOOSE i \in Left(c) : TRUE].result]
Seen ==
  [e \in Executions |->
    [c \in Calls |-> IF Answered(e, c) /\ answer[e][c].tag = "ok" THEN answer[e][c] ELSE None]]

Promise ==
  INSTANCE DurableSteps WITH
    Values <- [tag : {"ok"}, value : Values], Failure <- Failed,
    decided <- Decided, seen <- Seen

\* Steps one after the other keep the promise of DurableSteps, for as long as no two
\* executions have been alive at the same time: a call is decided by the row one of its
\* runs has left, once, and executions are given that outcome.
DurableOutcomes == Promise!Init /\ [][overlapped' \/ Promise!Next]_(Promise!vars)
=============================================================================
