------------------------------ MODULE Conductor ------------------------------
(***************************************************************************)
(* The connection that a launched process keeps to the Conductor, which      *)
(* manages its workflows.                                                  *)
(*                                                                         *)
(* launch spawns a task that connects, handles one request after the other, *)
(* answers it, and connects again when the connection is lost; shutdown     *)
(* tells the task, waits for it, and aborts it when its time is over.  Calls *)
(* of launch and of shutdown may overlap.                                   *)
(***************************************************************************)
EXTENDS Naturals, Sequences, FiniteSets

CONSTANTS
  Tasks,     \* the connection tasks that launches may spawn
  Requests,  \* the requests of the Conductor
  Ids,       \* workflow ids
  Batch,     \* the ids that each request is about
  Bad,       \* the requests that cannot be decoded
  MaxSends,  \* bound on how often a request is sent
  Budget,    \* bound on launches, shutdowns, and on failing calls and lost connections
  None

Callers == {"launcher", "stopper"}
Kinds == {"launch", "shutdown", "trouble"}

ASSUME ConductorAssumption ==
  /\ Bad \subseteq Requests
  /\ Batch \in [Requests -> SUBSET Ids]
  /\ MaxSends \in Nat
  /\ Budget \in [Kinds -> Nat]
  /\ None \notin Tasks \cup Requests

VARIABLES
  launched,  \* the flag of the context
  handle,    \* the task whose handle the context keeps, or None
  at,        \* what the caller of launch and the caller of shutdown have reached
  holds,     \* the task whose handle each of them holds
  pc,        \* what each task does
  told,      \* tasks that were told to shut down
  orphan,    \* tasks whose handle was dropped
  inbox,     \* requests that were sent to each task, not yet read
  request,   \* the request that each task is handling
  left,      \* the ids it has still to handle
  outcome,   \* what it is going to answer
  applied,   \* how often each request was carried out for each id
  sent,      \* how often each request was sent
  arrived,   \* history: the requests that were sent in each task's session
  answer,    \* what the Conductor was answered
  raced,     \* history: a launch and a shutdown have overlapped
  budget

callVars == <<launched, handle, at, holds>>
sessionVars == <<inbox, request, left, outcome, arrived>>
taskVars == <<pc, told, orphan, sessionVars>>
workVars == <<applied, sent, answer>>
vars == <<callVars, taskVars, workVars, raced, budget>>

Init ==
  /\ launched = FALSE
  /\ handle = None
  /\ at = [c \in Callers |-> "idle"]
  /\ holds = [c \in Callers |-> None]
  /\ pc = [k \in Tasks |-> "unborn"]
  /\ told = {}
  /\ orphan = {}
  /\ inbox = [k \in Tasks |-> <<>>]
  /\ request = [k \in Tasks |-> None]
  /\ left = [k \in Tasks |-> {}]
  /\ outcome = [k \in Tasks |-> "ok"]
  /\ applied = [r \in Requests |-> [i \in Ids |-> 0]]
  /\ sent = [r \in Requests |-> 0]
  /\ arrived = [k \in Tasks |-> {}]
  /\ answer = [r \in Requests |-> "none"]
  /\ raced = FALSE
  /\ budget = Budget

Spend(kind) == budget[kind] > 0 /\ budget' = [budget EXCEPT ![kind] = @ - 1]
Goto(c, stage) == at' = [at EXCEPT ![c] = stage]

Alive(k) == pc[k] \notin {"unborn", "ended", "aborted"}
InSession(k) == pc[k] \in {"idle", "handling", "replying"}
-----------------------------------------------------------------------------
(* launch                                                                  *)

\* The flag is swapped; a context that is launched already answers an error.
Launch ==
  /\ at["launcher"] = "idle"
  /\ ~launched
  /\ Spend("launch")
  /\ launched' = TRUE
  /\ Goto("launcher", "starting")
  /\ raced' = (raced \/ at["stopper"] # "idle")
  /\ UNCHANGED <<handle, holds, taskVars, workVars>>

\* The store is initialized, and a task spawned; its handle is not kept yet.
Connect(k) ==
  /\ at["launcher"] = "starting"
  /\ pc[k] = "unborn"
  /\ pc' = [pc EXCEPT ![k] = "begun"]
  /\ holds' = [holds EXCEPT !["launcher"] = k]
  /\ Goto("launcher", "keeping")
  /\ UNCHANGED <<launched, handle, told, orphan, sessionVars, workVars, raced, budget>>

\* shutdown keeps the lock of the handle until the task has ended.
Locked == \E c \in Callers : at[c] = "waiting"

\* A handle that was kept before is dropped.
KeepHandle ==
  /\ at["launcher"] = "keeping"
  /\ ~Locked
  /\ orphan' = orphan \cup ({handle} \ {None})
  /\ handle' = holds["launcher"]
  /\ holds' = [holds EXCEPT !["launcher"] = None]
  /\ Goto("launcher", "recovering")
  /\ UNCHANGED <<launched, pc, told, sessionVars, workVars, raced, budget>>

LaunchEnds ==
  /\ at["launcher"] = "recovering"
  /\ Goto("launcher", "idle")
  /\ UNCHANGED <<launched, handle, holds, taskVars, workVars, raced, budget>>

\* A launch that fails shuts the context down itself.
LaunchFails ==
  /\ at["launcher"] \in {"starting", "recovering"}
  /\ Spend("trouble")
  /\ launched' = FALSE
  /\ Goto("launcher", "taking")
  /\ UNCHANGED <<handle, holds, taskVars, workVars, raced>>
-----------------------------------------------------------------------------
(* shutdown                                                                *)

Shutdown ==
  /\ at["stopper"] = "idle"
  /\ Spend("shutdown")
  /\ launched' = FALSE
  /\ Goto("stopper", "taking")
  /\ raced' = (raced \/ at["launcher"] # "idle")
  /\ UNCHANGED <<handle, holds, taskVars, workVars>>

Take(c) ==
  /\ told' = told \cup {handle}
  /\ holds' = [holds EXCEPT ![c] = handle]
  /\ handle' = None
  /\ Goto(c, "waiting")

TakeHandle_Unchecked(c) ==
  /\ at[c] = "taking"
  /\ ~Locked
  /\ Take(c)
  /\ UNCHANGED <<launched, pc, orphan, sessionVars, workVars, raced, budget>>

\* The handle is taken, and its task told.
TakeHandle(c) ==
  /\ at[c] = "taking"
  /\ ~Locked
  /\ IF handle = None THEN Goto(c, "idle") /\ UNCHANGED <<handle, holds, told>> ELSE Take(c)
  /\ UNCHANGED <<launched, pc, orphan, sessionVars, workVars, raced, budget>>

Stopped(c) == Goto(c, "idle") /\ holds' = [holds EXCEPT ![c] = None]

Joined(c) ==
  /\ at[c] = "waiting"
  /\ ~Alive(holds[c])
  /\ Stopped(c)
  /\ UNCHANGED <<launched, handle, taskVars, workVars, raced, budget>>

Aborts_Not(k) == UNCHANGED pc
Aborts(k) == pc' = [pc EXCEPT ![k] = "aborted"]

\* The task has not ended in time: it is aborted, wherever it is.
TimeOut(c) ==
  /\ at[c] = "waiting"
  /\ Alive(holds[c])
  /\ Aborts(holds[c])
  /\ Stopped(c)
  /\ UNCHANGED <<launched, handle, told, orphan, sessionVars, workVars, raced, budget>>
-----------------------------------------------------------------------------
(* The task: WebSocketConductorTransport::run and its sessions.            *)

\* changed() returns: the value was sent, or the sender dropped.  Each session has a
\* receiver that has not seen the value yet.
Changed(k) == k \in told \cup orphan

Become(k, stage) == pc' = [pc EXCEPT ![k] = stage]

Stay == UNCHANGED <<callVars, told, orphan, workVars, raced>>

\* The value is looked at before each session.
Begin(k) ==
  /\ pc[k] = "begun"
  /\ Become(k, IF k \in told THEN "ended" ELSE "connecting")
  /\ UNCHANGED <<sessionVars, budget>> /\ Stay

\* The Conductor accepts the connection or refuses it; shutdown is not looked at.
Connected(k) ==
  /\ pc[k] = "connecting"
  /\ Become(k, "idle")
  /\ UNCHANGED <<sessionVars, budget>> /\ Stay

Over(k) ==
  /\ request' = [request EXCEPT ![k] = None]
  /\ left' = [left EXCEPT ![k] = {}]
  /\ arrived' = [arrived EXCEPT ![k] = {}]

SessionOver_Requeues(k) ==
  /\ inbox' = [inbox EXCEPT ![k] = IF request[k] = None THEN <<>> ELSE <<request[k]>>]
  /\ Over(k)

\* A session that has ended: what is in its stream is lost.
SessionOver(k) ==
  /\ inbox' = [inbox EXCEPT ![k] = <<>>]
  /\ Over(k)

\* A session ends in a pause, at the end of which there is another one; the pause ends
\* the task when the value has changed.
Disconnected(k) == Become(k, "pausing") /\ SessionOver(k)

Lost(k) ==
  /\ InSession(k) \/ pc[k] = "connecting"
  /\ pc[k] # "handling"
  /\ Spend("trouble")
  /\ Disconnected(k)
  /\ UNCHANGED outcome /\ Stay

Listens_Not(k) == FALSE
Listens(k) == Changed(k)

\* A session that waits for a message sees the value, and closes the connection.
Close(k) ==
  /\ pc[k] = "idle"
  /\ Listens(k)
  /\ IF k \in told THEN Become(k, "ended") /\ SessionOver(k) ELSE Disconnected(k)
  /\ UNCHANGED <<outcome, budget>> /\ Stay

Pause_Ends(k) ==
  /\ pc[k] = "pausing"
  /\ Become(k, "ended")
  /\ UNCHANGED <<sessionVars, budget>> /\ Stay

Pause(k) ==
  /\ pc[k] = "pausing"
  /\ Become(k, IF Changed(k) THEN "ended" ELSE "begun")
  /\ UNCHANGED <<sessionVars, budget>> /\ Stay
-----------------------------------------------------------------------------
(* Requests of the Conductor.                                              *)

\* The Conductor sends what it has no answer to, again on another connection.
Send(k, r) ==
  /\ InSession(k)
  /\ answer[r] = "none"
  /\ r \notin arrived[k]
  /\ sent[r] < MaxSends
  /\ inbox' = [inbox EXCEPT ![k] = Append(@, r)]
  /\ sent' = [sent EXCEPT ![r] = @ + 1]
  /\ arrived' = [arrived EXCEPT ![k] = @ \cup {r}]
  /\ UNCHANGED <<callVars, pc, told, orphan, request, left, outcome, applied, answer, raced, budget>>

Undecodable_Skipped(k) == Become(k, "idle") /\ inbox' = [inbox EXCEPT ![k] = Tail(@)]
                          /\ UNCHANGED <<request, left, arrived>>
Undecodable(k) == Disconnected(k)

\* A message is read.  One that cannot be decoded ends the session, unanswered.
Read(k) ==
  /\ pc[k] = "idle" /\ inbox[k] # <<>>
  /\ LET r == Head(inbox[k]) IN
     IF r \in Bad
     THEN Undecodable(k) /\ UNCHANGED outcome
     ELSE /\ Become(k, "handling")
          /\ inbox' = [inbox EXCEPT ![k] = Tail(@)]
          /\ request' = [request EXCEPT ![k] = r]
          /\ left' = [left EXCEPT ![k] = Batch[r]]
          /\ outcome' = [outcome EXCEPT ![k] = "ok"]
          /\ UNCHANGED arrived
  /\ UNCHANGED budget /\ Stay

Applied(r, i) == applied' = [applied EXCEPT ![r][i] = @ + 1]

\* The ids of a batch are handled one after the other.
HandleId(k, i) ==
  /\ pc[k] = "handling" /\ i \in left[k]
  /\ Applied(request[k], i)
  /\ left' = [left EXCEPT ![k] = @ \ {i}]
  /\ UNCHANGED <<callVars, pc, told, orphan, inbox, request, outcome, sent, arrived, answer, raced, budget>>

Refused_Skipped(k, i) == left' = [left EXCEPT ![k] = @ \ {i}] /\ UNCHANGED <<pc, outcome>>
Refused(k, i) ==
  /\ Become(k, "replying")
  /\ outcome' = [outcome EXCEPT ![k] = "error"]
  /\ left' = [left EXCEPT ![k] = {}]

\* One of them fails, applied or not, and with it the request.
HandleFails(k, i) ==
  /\ pc[k] = "handling" /\ i \in left[k]
  /\ Spend("trouble")
  /\ Applied(request[k], i) \/ UNCHANGED applied
  /\ Refused(k, i)
  /\ UNCHANGED <<callVars, told, orphan, inbox, request, sent, arrived, answer, raced>>

Handled(k) ==
  /\ pc[k] = "handling" /\ left[k] = {}
  /\ Become(k, "replying")
  /\ UNCHANGED <<sessionVars, budget>> /\ Stay

Reply(k) ==
  /\ pc[k] = "replying"
  /\ answer' = [answer EXCEPT ![request[k]] = outcome[k]]
  /\ request' = [request EXCEPT ![k] = None]
  /\ Become(k, "idle")
  /\ UNCHANGED <<callVars, told, orphan, inbox, left, outcome, applied, sent, arrived, raced, budget>>
-----------------------------------------------------------------------------
LaunchStep == (\E k \in Tasks : Connect(k)) \/ KeepHandle \/ LaunchEnds
ShutdownStep(c) == TakeHandle(c) \/ Joined(c)
TaskStep(k) ==
  \/ Begin(k) \/ Connected(k) \/ Close(k) \/ Pause(k) \/ Read(k) \/ Handled(k) \/ Reply(k)
  \/ \E i \in Ids : HandleId(k, i)

Next ==
  \/ Launch \/ LaunchStep \/ LaunchFails \/ Shutdown
  \/ \E c \in Callers : ShutdownStep(c) \/ TimeOut(c)
  \/ \E k \in Tasks :
       \/ TaskStep(k) \/ Lost(k)
       \/ \E r \in Requests : Send(k, r)
       \/ \E i \in Ids : HandleFails(k, i)

\* A call that has begun goes on, and tasks are polled; connecting, an operation and an
\* answer take a finite time.  That a shutdown times out is not assumed.
Fairness ==
  /\ WF_vars(LaunchStep)
  /\ \A c \in Callers : WF_vars(ShutdownStep(c))
  /\ \A k \in Tasks : WF_vars(TaskStep(k))

Spec == Init /\ [][Next]_vars /\ Fairness
-----------------------------------------------------------------------------
TypeOK ==
  /\ launched \in BOOLEAN /\ raced \in BOOLEAN
  /\ handle \in Tasks \cup {None}
  /\ at \in [Callers -> {"idle", "starting", "keeping", "recovering", "taking", "waiting"}]
  /\ holds \in [Callers -> Tasks \cup {None}]
  /\ pc \in [Tasks -> {"unborn", "begun", "connecting", "idle", "handling", "replying", "pausing",
                       "ended", "aborted"}]
  /\ told \subseteq Tasks /\ orphan \subseteq Tasks
  /\ inbox \in [Tasks -> Seq(Requests)]
  /\ request \in [Tasks -> Requests \cup {None}]
  /\ left \in [Tasks -> SUBSET Ids]
  /\ outcome \in [Tasks -> {"ok", "error"}]
  /\ applied \in [Requests -> [Ids -> Nat]]
  /\ sent \in [Requests -> Nat]
  /\ arrived \in [Tasks -> SUBSET Requests]
  /\ answer \in [Requests -> {"none", "ok", "error"}]
  /\ budget \in [Kinds -> Nat]

\* A request that was answered ok was carried out for each of its ids, whatever failed and
\* however often it was sent.
OkMeansAll == \A r \in Requests : answer[r] = "ok" => \A i \in Batch[r] : applied[r][i] >= 1

\* A request is carried out at most once for each time it was sent: a lost answer, a lost
\* connection and a failed id do not make the task handle it again.
OncePerSending == \A r \in Requests : \A i \in Ids : applied[r][i] <= sent[r]

Waiting(k, r) == request[k] = r \/ \E n \in DOMAIN inbox[k] : inbox[k][n] = r

\* What has arrived in a session that is still open was answered, or is waiting: the one
\* way to leave a request unanswered is to end the session.
NoneForgotten ==
  \A k \in Tasks : InSession(k) =>
    \A r \in arrived[k] : Waiting(k, r) \/ answer[r] # "none"

\* After a shutdown no request is handled any more: no task is left, unless launch and
\* shutdown have overlapped.
NothingAfterShutdown ==
  ~raced /\ ~launched /\ (\A c \in Callers : at[c] = "idle") => \A k \in Tasks : ~Alive(k)

\* A shutdown returns without having to time out: no task misses the value, in whatever
\* state it is when it is sent.
ShutdownReturns == \A c \in Callers : at[c] = "waiting" ~> at[c] # "waiting"

\* A task that is not told to end connects again after every loss.
Reconnects == \A k \in Tasks : pc[k] = "pausing" ~> InSession(k) \/ Changed(k)

=============================================================================
