---------------------------- MODULE Conductor_proofs ----------------------------
(***************************************************************************)
(* Theorems about Conductor, for every value of its constants: types, what *)
(* an ok answer means, that a session forgets no request, that none is     *)
(* carried out more often than it was sent, and that a shutdown leaves no  *)
(* task.                                                                   *)
(***************************************************************************)
EXTENDS Conductor, FiniteSetTheorems, TLAPS

\* What has been done of a request that is being handled.
Progress ==
  \A k \in Tasks :
    /\ pc[k] \in {"handling", "replying"} => request[k] \in Requests
    /\ pc[k] = "handling" =>
         /\ outcome[k] = "ok"
         /\ \A i \in Batch[request[k]] \ left[k] : applied[request[k]][i] >= 1
    /\ pc[k] = "replying" /\ outcome[k] = "ok" =>
         \A i \in Batch[request[k]] : applied[request[k]][i] >= 1

Work == TypeOK /\ Progress /\ OkMeansAll

\* A session begins with nothing arrived, and a task has a request only in a session.
Sessions ==
  /\ NoneForgotten
  /\ \A k \in Tasks :
       /\ pc[k] \in {"unborn", "begun", "connecting", "pausing"} => arrived[k] = {}
       /\ pc[k] \notin {"handling", "replying", "aborted"} => request[k] = None

\* While no launch and shutdown have overlapped, some call or the context has the handle
\* of each task that is alive, and a context that has a handle is launched or shuts down.
Kept ==
  ~raced =>
    /\ at["launcher"] = "idle" \/ at["stopper"] = "idle"
    /\ at["launcher"] \in {"starting", "keeping", "recovering"} => launched
    /\ at["launcher"] \in {"starting", "keeping"} => handle = None
    /\ handle # None => launched \/ \E c \in Callers : at[c] = "taking"
    /\ \A k \in Tasks : Alive(k) =>
         \/ handle = k
         \/ at["launcher"] = "keeping" /\ holds["launcher"] = k
         \/ \E c \in Callers : at[c] = "waiting" /\ holds[c] = k
-----------------------------------------------------------------------------
(* Types.                                                                  *)

\* The stages of a task and of a call.
PCs == {"unborn", "begun", "connecting", "idle", "handling", "replying", "pausing", "ended",
        "aborted"}
Stages == {"idle", "starting", "keeping", "recovering", "taking", "waiting"}

\* The parts of the type that most steps leave alone.
CallType ==
  /\ launched \in BOOLEAN /\ raced \in BOOLEAN
  /\ handle \in Tasks \cup {None}
  /\ at \in [Callers -> Stages]
  /\ holds \in [Callers -> Tasks \cup {None}]
TaskType ==
  /\ pc \in [Tasks -> PCs]
  /\ told \subseteq Tasks /\ orphan \subseteq Tasks
SessionType ==
  /\ inbox \in [Tasks -> Seq(Requests)]
  /\ request \in [Tasks -> Requests \cup {None}]
  /\ left \in [Tasks -> SUBSET Ids]
  /\ outcome \in [Tasks -> {"ok", "error"}]
  /\ arrived \in [Tasks -> SUBSET Requests]
WorkType ==
  /\ applied \in [Requests -> [Ids -> Nat]]
  /\ sent \in [Requests -> Nat]
  /\ answer \in [Requests -> {"none", "ok", "error"}]
BudgetType == budget \in [Kinds -> Nat]

\* The type is made of its parts, before a step and after it.
LEMMA TypeParts ==
  /\ TypeOK <=> CallType /\ TaskType /\ SessionType /\ WorkType /\ BudgetType
  /\ TypeOK' <=> CallType' /\ TaskType' /\ SessionType' /\ WorkType' /\ BudgetType'
BY DEF TypeOK, CallType, TaskType, SessionType, WorkType, BudgetType, PCs, Stages

\* The initial state is typed.
LEMMA InitType == Init => TypeOK
<1> SUFFICES ASSUME Init PROVE TypeOK
  OBVIOUS
<1>1. CallType
  BY DEF Init, CallType, Callers, Stages
<1>2. TaskType
  BY DEF Init, TaskType, PCs
<1>3. SessionType
  <2>1. <<>> \in Seq(Requests)
    OBVIOUS
  <2>2. QED
    BY <2>1 DEF Init, SessionType
<1>4. WorkType
  <2>1. [i \in Ids |-> 0] \in [Ids -> Nat]
    OBVIOUS
  <2>2. QED
    BY <2>1, Zenon DEF Init, WorkType
<1>5. BudgetType
  BY ConductorAssumption DEF Init, BudgetType
<1>6. QED
  BY <1>1, <1>2, <1>3, <1>4, <1>5, TypeParts

\* A step pays from the budget, or leaves it.
LEMMA SpendType ==
  ASSUME BudgetType, NEW kind \in Kinds, Spend(kind)
  PROVE  BudgetType'
<1>1. budget[kind] \in Nat /\ budget[kind] > 0
  BY DEF BudgetType, Spend
<1>2. budget' = [budget EXCEPT ![kind] = budget[kind] - 1]
  BY DEF Spend
<1>3. QED
  BY <1>1, <1>2 DEF BudgetType

\* A session that is over has nothing left.
LEMMA OverType ==
  ASSUME SessionType, NEW k \in Tasks, SessionOver(k), outcome' = outcome
  PROVE  SessionType'
<1>1. <<>> \in Seq(Requests)
  OBVIOUS
<1>2. QED
  BY <1>1 DEF SessionType, SessionOver, Over

\* launch keeps the types.
LEMMA LaunchType ==
  ASSUME TypeOK, Launch \/ LaunchStep \/ LaunchFails
  PROVE  TypeOK'
<1>1. CallType /\ TaskType /\ SessionType /\ WorkType /\ BudgetType /\ "launcher" \in Callers
      /\ {"launch", "shutdown", "trouble"} = Kinds
  BY TypeParts DEF Callers, Kinds
<1>2. CASE Launch
  <2>1. BudgetType'
    BY <1>1, <1>2, SpendType DEF Launch
  <2>2. CallType'
    BY <1>1, <1>2 DEF Launch, CallType, Goto, Stages
  <2>3. TaskType' /\ SessionType' /\ WorkType'
    BY <1>1, <1>2 DEF Launch, TaskType, SessionType, WorkType, taskVars, sessionVars, workVars
  <2>4. QED
    BY <2>1, <2>2, <2>3, TypeParts
<1>3. ASSUME NEW k \in Tasks, Connect(k) PROVE TypeOK'
  <2>1. CallType'
    BY <1>1, <1>3 DEF Connect, CallType, Goto, Stages
  <2>2. TaskType'
    BY <1>1, <1>3 DEF Connect, TaskType, PCs
  <2>3. SessionType' /\ WorkType' /\ BudgetType'
    BY <1>1, <1>3 DEF Connect, SessionType, WorkType, BudgetType, sessionVars, workVars
  <2>4. QED
    BY <2>1, <2>2, <2>3, TypeParts
<1>4. CASE KeepHandle
  <2>1. CallType'
    BY <1>1, <1>4 DEF KeepHandle, CallType, Goto, Stages
  <2>2. TaskType'
    BY <1>1, <1>4 DEF KeepHandle, TaskType, CallType
  <2>3. SessionType' /\ WorkType' /\ BudgetType'
    BY <1>1, <1>4 DEF KeepHandle, SessionType, WorkType, BudgetType, sessionVars, workVars
  <2>4. QED
    BY <2>1, <2>2, <2>3, TypeParts
<1>5. CASE LaunchEnds
  <2>1. CallType'
    BY <1>1, <1>5 DEF LaunchEnds, CallType, Goto, Stages
  <2>2. TaskType' /\ SessionType' /\ WorkType' /\ BudgetType'
    BY <1>1, <1>5
       DEF LaunchEnds, TaskType, SessionType, WorkType, BudgetType, taskVars, sessionVars, workVars
  <2>3. QED
    BY <2>1, <2>2, TypeParts
<1>6. CASE LaunchFails
  <2>1. BudgetType'
    BY <1>1, <1>6, SpendType DEF LaunchFails
  <2>2. CallType'
    BY <1>1, <1>6 DEF LaunchFails, CallType, Goto, Stages
  <2>3. TaskType' /\ SessionType' /\ WorkType'
    BY <1>1, <1>6 DEF LaunchFails, TaskType, SessionType, WorkType, taskVars, sessionVars, workVars
  <2>4. QED
    BY <2>1, <2>2, <2>3, TypeParts
<1>7. QED
  BY <1>2, <1>3, <1>4, <1>5, <1>6 DEF LaunchStep

\* shutdown keeps the types.
LEMMA ShutdownType ==
  ASSUME TypeOK, \/ Shutdown
                 \/ \E c \in Callers : ShutdownStep(c) \/ TimeOut(c)
  PROVE  TypeOK'
<1>1. CallType /\ TaskType /\ SessionType /\ WorkType /\ BudgetType /\ "stopper" \in Callers
      /\ {"launch", "shutdown", "trouble"} = Kinds
  BY TypeParts DEF Callers, Kinds
<1>2. CASE Shutdown
  <2>1. BudgetType'
    BY <1>1, <1>2, SpendType DEF Shutdown
  <2>2. CallType'
    BY <1>1, <1>2 DEF Shutdown, CallType, Goto, Stages
  <2>3. TaskType' /\ SessionType' /\ WorkType'
    BY <1>1, <1>2 DEF Shutdown, TaskType, SessionType, WorkType, taskVars, sessionVars, workVars
  <2>4. QED
    BY <2>1, <2>2, <2>3, TypeParts
<1>3. ASSUME NEW c \in Callers, TakeHandle(c) PROVE TypeOK'
  <2>1. CallType'
    BY <1>1, <1>3 DEF TakeHandle, Take, CallType, Goto, Stages
  <2>2. TaskType'
    BY <1>1, <1>3 DEF TakeHandle, Take, TaskType, CallType
  <2>3. SessionType' /\ WorkType' /\ BudgetType'
    BY <1>1, <1>3 DEF TakeHandle, SessionType, WorkType, BudgetType, sessionVars, workVars
  <2>4. QED
    BY <2>1, <2>2, <2>3, TypeParts
<1>4. ASSUME NEW c \in Callers, Joined(c) PROVE TypeOK'
  <2>1. CallType'
    BY <1>1, <1>4 DEF Joined, Stopped, CallType, Goto, Stages
  <2>2. TaskType' /\ SessionType' /\ WorkType' /\ BudgetType'
    BY <1>1, <1>4
       DEF Joined, TaskType, SessionType, WorkType, BudgetType, taskVars, sessionVars, workVars
  <2>3. QED
    BY <2>1, <2>2, TypeParts
<1>5. ASSUME NEW c \in Callers, TimeOut(c) PROVE TypeOK'
  <2>1. CallType'
    BY <1>1, <1>5 DEF TimeOut, Stopped, CallType, Goto, Stages
  <2>2. TaskType'
    BY <1>1, <1>5 DEF TimeOut, Aborts, TaskType, PCs
  <2>3. SessionType' /\ WorkType' /\ BudgetType'
    BY <1>1, <1>5 DEF TimeOut, SessionType, WorkType, BudgetType, sessionVars, workVars
  <2>4. QED
    BY <2>1, <2>2, <2>3, TypeParts
<1>6. QED
  BY <1>2, <1>3, <1>4, <1>5 DEF ShutdownStep

\* A step of a task leaves what belongs to the calls alone.
LEMMA StayType ==
  ASSUME TypeOK, Stay, NEW k \in Tasks, NEW stage \in PCs, Become(k, stage)
  PROVE  CallType' /\ WorkType' /\ TaskType'
<1>1. CallType /\ WorkType /\ TaskType
  BY TypeParts
<1>2. CallType' /\ WorkType'
  BY <1>1 DEF Stay, CallType, WorkType, callVars, workVars
<1>3. TaskType'
  BY <1>1 DEF Stay, TaskType, Become
<1>4. QED
  BY <1>2, <1>3

\* The steps of a task outside its sessions keep the types.
LEMMA TaskType1 ==
  ASSUME TypeOK, NEW k \in Tasks,
         Begin(k) \/ Connected(k) \/ Pause(k) \/ Handled(k)
  PROVE  TypeOK'
<1>1. \E stage \in PCs : Become(k, stage)
  BY DEF Begin, Connected, Pause, Handled, PCs
<1>2. CallType' /\ WorkType' /\ TaskType'
  BY <1>1, StayType DEF Begin, Connected, Pause, Handled
<1>3. SessionType' /\ BudgetType'
  BY TypeParts DEF Begin, Connected, Pause, Handled, SessionType, BudgetType, sessionVars
<1>4. QED
  BY <1>2, <1>3, TypeParts

\* So do the end of a session, for whatever reason,
LEMMA TaskType2 ==
  ASSUME TypeOK, NEW k \in Tasks, Close(k) \/ Lost(k)
  PROVE  TypeOK'
<1>1. \E stage \in PCs : Become(k, stage)
  BY DEF Close, Lost, Disconnected, PCs
<1>2. SessionOver(k) /\ outcome' = outcome /\ Stay
  BY DEF Close, Lost, Disconnected
<1>3. CallType' /\ WorkType' /\ TaskType' /\ SessionType'
  BY <1>1, <1>2, StayType, OverType, TypeParts
<1>4. BudgetType'
  BY SpendType, TypeParts DEF Close, Lost, Kinds, BudgetType
<1>5. QED
  BY <1>3, <1>4, TypeParts

\* a message that is read,
LEMMA ReadType ==
  ASSUME TypeOK, NEW k \in Tasks, Read(k)
  PROVE  TypeOK'
<1> DEFINE r == Head(inbox[k])
<1>1. SessionType /\ BudgetType /\ inbox[k] \in Seq(Requests) /\ inbox[k] # <<>>
  BY TypeParts DEF SessionType, Read
<1>2. r \in Requests /\ Tail(inbox[k]) \in Seq(Requests)
  BY <1>1
<1>3. \E stage \in PCs : Become(k, stage)
  BY DEF Read, Undecodable, Disconnected, PCs
<1>4. CallType' /\ WorkType' /\ TaskType'
  BY <1>3, StayType DEF Read
<1>5. SessionType'
  <2>1. CASE r \in Bad
    <3>1. SessionOver(k) /\ outcome' = outcome
      BY <2>1 DEF Read, Undecodable, Disconnected
    <3>2. QED
      BY <1>1, <3>1, OverType
  <2>2. CASE r \notin Bad
    <3>1. Batch[r] \in SUBSET Ids
      BY <1>2, ConductorAssumption
    <3>2. /\ inbox' = [inbox EXCEPT ![k] = Tail(inbox[k])] /\ request' = [request EXCEPT ![k] = r]
          /\ left' = [left EXCEPT ![k] = Batch[r]] /\ outcome' = [outcome EXCEPT ![k] = "ok"]
          /\ arrived' = arrived
      BY <2>2 DEF Read
    <3> HIDE DEF r
    <3>3. QED
      BY <1>1, <1>2, <3>1, <3>2 DEF SessionType
  <2>3. QED
    BY <2>1, <2>2
<1>6. BudgetType'
  BY <1>1 DEF Read, BudgetType
<1>7. QED
  BY <1>4, <1>5, <1>6, TypeParts

\* and what is done with it.
LEMMA HandleType ==
  ASSUME TypeOK, Progress, NEW k \in Tasks,
         Reply(k) \/ \E i \in Ids : HandleId(k, i) \/ HandleFails(k, i)
  PROVE  TypeOK'
<1>1. CallType /\ TaskType /\ SessionType /\ WorkType /\ BudgetType
  BY TypeParts
<1>2. ASSUME NEW i \in Ids, pc[k] = "handling", Applied(request[k], i) \/ UNCHANGED applied
      PROVE  applied' \in [Requests -> [Ids -> Nat]]
  <2>1. request[k] \in Requests /\ applied \in [Requests -> [Ids -> Nat]]
    BY <1>1, <1>2 DEF Progress, WorkType
  <2>2. QED
    BY <1>2, <2>1 DEF Applied
<1>3. ASSUME NEW i \in Ids, HandleId(k, i) PROVE TypeOK'
  <2>1. WorkType'
    BY <1>1, <1>2, <1>3 DEF HandleId, WorkType
  <2>2. SessionType'
    BY <1>1, <1>3 DEF HandleId, SessionType
  <2>3. CallType' /\ TaskType' /\ BudgetType'
    BY <1>1, <1>3 DEF HandleId, CallType, TaskType, BudgetType, callVars
  <2>4. QED
    BY <2>1, <2>2, <2>3, TypeParts
<1>4. ASSUME NEW i \in Ids, HandleFails(k, i) PROVE TypeOK'
  <2>1. WorkType'
    BY <1>1, <1>2, <1>4 DEF HandleFails, WorkType
  <2>2. SessionType'
    BY <1>1, <1>4 DEF HandleFails, Refused, SessionType
  <2>3. CallType' /\ TaskType'
    BY <1>1, <1>4 DEF HandleFails, Refused, Become, CallType, TaskType, callVars, PCs
  <2>4. BudgetType'
    BY <1>1, <1>4, SpendType DEF HandleFails, Kinds
  <2>5. QED
    BY <2>1, <2>2, <2>3, <2>4, TypeParts
<1>5. CASE Reply(k)
  <2>1. outcome[k] \in {"ok", "error"}
    BY <1>1 DEF SessionType
  <2>2. WorkType'
    BY <1>1, <1>5, <2>1 DEF Reply, WorkType
  <2>3. SessionType'
    BY <1>1, <1>5 DEF Reply, SessionType
  <2>4. CallType' /\ TaskType' /\ BudgetType'
    BY <1>1, <1>5 DEF Reply, Become, CallType, TaskType, BudgetType, callVars, PCs
  <2>5. QED
    BY <2>2, <2>3, <2>4, TypeParts
<1>6. QED
  BY <1>3, <1>4, <1>5

\* The Conductor keeps them too.
LEMMA SendType ==
  ASSUME TypeOK, NEW k \in Tasks, NEW r \in Requests, Send(k, r)
  PROVE  TypeOK'
<1>1. CallType /\ TaskType /\ SessionType /\ WorkType /\ BudgetType
  BY TypeParts
<1>2. Append(inbox[k], r) \in Seq(Requests) /\ sent[r] + 1 \in Nat
  BY <1>1 DEF SessionType, WorkType
<1>3. SessionType' /\ WorkType'
  BY <1>1, <1>2 DEF Send, SessionType, WorkType
<1>4. CallType' /\ TaskType' /\ BudgetType'
  BY <1>1 DEF Send, CallType, TaskType, BudgetType, callVars
<1>5. QED
  BY <1>3, <1>4, TypeParts

\* Every step keeps the types.
LEMMA TypeStep == TypeOK /\ Progress /\ [Next]_vars => TypeOK'
<1> SUFFICES ASSUME TypeOK, Progress, [Next]_vars PROVE TypeOK'
  OBVIOUS
<1>1. CASE UNCHANGED vars
  BY <1>1 DEF vars, TypeOK, callVars, taskVars, sessionVars, workVars
<1>2. CASE Launch \/ LaunchStep \/ LaunchFails
  BY <1>2, LaunchType
<1>3. CASE Shutdown \/ \E c \in Callers : ShutdownStep(c) \/ TimeOut(c)
  BY <1>3, ShutdownType
<1>4. ASSUME NEW k \in Tasks, TaskStep(k) \/ Lost(k) PROVE TypeOK'
  BY <1>4, TaskType1, TaskType2, ReadType, HandleType DEF TaskStep
<1>5. ASSUME NEW k \in Tasks, NEW r \in Requests, Send(k, r) PROVE TypeOK'
  BY <1>5, SendType
<1>6. ASSUME NEW k \in Tasks, NEW i \in Ids, HandleFails(k, i) PROVE TypeOK'
  BY <1>6, HandleType
<1>7. QED
  BY <1>1, <1>2, <1>3, <1>4, <1>5, <1>6 DEF Next
-----------------------------------------------------------------------------
(* What an ok answer means.                                                *)

\* Most steps handle nothing.
LEMMA ProgressKept ==
  ASSUME Work, UNCHANGED <<applied, answer>>,
         \A k \in Tasks : pc'[k] \in {"handling", "replying"} =>
           /\ pc'[k] = pc[k] /\ request'[k] = request[k]
           /\ left'[k] = left[k] /\ outcome'[k] = outcome[k]
  PROVE  Progress' /\ OkMeansAll'
BY DEF Work, Progress, OkMeansAll

\* What was carried out stays so.
LEMMA AppliedGrows ==
  ASSUME Work, NEW k \in Tasks, NEW i \in Ids, pc[k] = "handling",
         Applied(request[k], i) \/ UNCHANGED applied
  PROVE  \A r \in Requests, j \in Ids : applied[r][j] >= 1 => applied'[r][j] >= 1
<1>1. applied \in [Requests -> [Ids -> Nat]] /\ request[k] \in Requests
  BY DEF Work, TypeOK, Progress
<1>2. QED
  BY <1>1 DEF Applied

\* The ids of the batches are ids.
LEMMA BatchIds == \A r \in Requests : Batch[r] \subseteq Ids
BY ConductorAssumption

\* An id is handled.
LEMMA HandleIdProgress ==
  ASSUME Work, NEW k \in Tasks, NEW i \in Ids, HandleId(k, i)
  PROVE  Progress' /\ OkMeansAll'
<1>1. /\ pc[k] = "handling" /\ Applied(request[k], i) /\ left' = [left EXCEPT ![k] = left[k] \ {i}]
      /\ pc' = pc /\ request' = request /\ outcome' = outcome /\ answer' = answer
      /\ TypeOK /\ Progress /\ OkMeansAll
  BY DEF HandleId, Work
<1>2. \A r \in Requests, j \in Ids : applied[r][j] >= 1 => applied'[r][j] >= 1
  BY <1>1, AppliedGrows
<1>3. request[k] \in Requests /\ applied'[request[k]][i] >= 1
  <2>1. request[k] \in Requests /\ applied \in [Requests -> [Ids -> Nat]]
    BY <1>1 DEF TypeOK, Progress
  <2>2. QED
    BY <1>1, <2>1 DEF Applied
<1>4. OkMeansAll'
  BY <1>1, <1>2, BatchIds DEF OkMeansAll
<1>5. Progress'
  <2> SUFFICES ASSUME NEW j \in Tasks
               PROVE  /\ pc[j] \in {"handling", "replying"} => request[j] \in Requests
                      /\ pc[j] = "handling" =>
                           /\ outcome[j] = "ok"
                           /\ \A n \in Batch[request[j]] \ left'[j] : applied'[request[j]][n] >= 1
                      /\ pc[j] = "replying" /\ outcome[j] = "ok" =>
                           \A n \in Batch[request[j]] : applied'[request[j]][n] >= 1
    BY <1>1 DEF Progress
  <2>1. left \in [Tasks -> SUBSET Ids]
    BY <1>1 DEF TypeOK
  <2>2. CASE j # k
    BY <1>1, <1>2, <2>1, <2>2, BatchIds DEF Progress
  <2>3. CASE j = k
    BY <1>1, <1>2, <1>3, <2>1, <2>3, BatchIds DEF Progress
  <2>4. QED
    BY <2>2, <2>3
<1>6. QED
  BY <1>4, <1>5

\* An id fails: the answer is not ok.
LEMMA HandleFailsProgress ==
  ASSUME Work, NEW k \in Tasks, NEW i \in Ids, HandleFails(k, i)
  PROVE  Progress' /\ OkMeansAll'
<1>1. /\ pc[k] = "handling"
      /\ Applied(request[k], i) \/ UNCHANGED applied
      /\ pc' = [pc EXCEPT ![k] = "replying"] /\ outcome' = [outcome EXCEPT ![k] = "error"]
      /\ left' = [left EXCEPT ![k] = {}] /\ request' = request /\ answer' = answer
      /\ TypeOK /\ Progress /\ OkMeansAll
  BY DEF HandleFails, Refused, Become, Work
<1>2. \A r \in Requests, j \in Ids : applied[r][j] >= 1 => applied'[r][j] >= 1
  BY <1>1, AppliedGrows
<1>3. OkMeansAll'
  BY <1>1, <1>2, BatchIds DEF OkMeansAll
<1>4. Progress'
  <2> SUFFICES ASSUME NEW j \in Tasks
               PROVE  /\ pc'[j] \in {"handling", "replying"} => request[j] \in Requests
                      /\ pc'[j] = "handling" =>
                           /\ outcome'[j] = "ok"
                           /\ \A n \in Batch[request[j]] \ left'[j] : applied'[request[j]][n] >= 1
                      /\ pc'[j] = "replying" /\ outcome'[j] = "ok" =>
                           \A n \in Batch[request[j]] : applied'[request[j]][n] >= 1
    BY <1>1 DEF Progress
  <2>1. /\ left \in [Tasks -> SUBSET Ids] /\ pc \in [Tasks -> PCs]
        /\ outcome \in [Tasks -> {"ok", "error"}]
    BY <1>1 DEF TypeOK, PCs
  <2>2. CASE j # k
    BY <1>1, <1>2, <2>1, <2>2, BatchIds DEF Progress
  <2>3. CASE j = k
    BY <1>1, <2>1, <2>3 DEF Progress
  <2>4. QED
    BY <2>2, <2>3
<1>5. QED
  BY <1>3, <1>4

\* A request is read: nothing was done yet.
LEMMA ReadProgress ==
  ASSUME Work, NEW k \in Tasks, Read(k)
  PROVE  Progress' /\ OkMeansAll'
<1>1. /\ inbox[k] \in Seq(Requests) /\ inbox[k] # <<>> /\ pc[k] = "idle"
      /\ UNCHANGED <<applied, answer>> /\ pc \in [Tasks -> PCs] /\ request \in [Tasks -> Requests \cup {None}]
      /\ left \in [Tasks -> SUBSET Ids] /\ outcome \in [Tasks -> {"ok", "error"}]
  BY DEF Read, Stay, workVars, Work, TypeOK, PCs
<1> DEFINE r == Head(inbox[k])
<1>2. CASE r \in Bad
  <2>1. /\ pc' = [pc EXCEPT ![k] = "pausing"] /\ request' = [request EXCEPT ![k] = None]
        /\ left' = [left EXCEPT ![k] = {}] /\ outcome' = outcome
    BY <1>2 DEF Read, Undecodable, Disconnected, Become, SessionOver, Over
  <2>2. QED
    BY <1>1, <2>1, ProgressKept
<1>3. CASE r \notin Bad
  <2>1. /\ pc' = [pc EXCEPT ![k] = "handling"] /\ request' = [request EXCEPT ![k] = r]
        /\ left' = [left EXCEPT ![k] = Batch[r]] /\ outcome' = [outcome EXCEPT ![k] = "ok"]
        /\ r \in Requests
    BY <1>1, <1>3 DEF Read, Become
  <2> HIDE DEF r
  <2>2. QED
    BY <1>1, <2>1 DEF Work, Progress, OkMeansAll
<1>4. QED
  BY <1>2, <1>3

\* All of its ids were handled: the answer is ok.
LEMMA HandledProgress ==
  ASSUME Work, NEW k \in Tasks, Handled(k)
  PROVE  Progress' /\ OkMeansAll'
<1>1. /\ pc[k] = "handling" /\ left[k] = {} /\ pc' = [pc EXCEPT ![k] = "replying"]
      /\ UNCHANGED <<request, left, outcome, applied, answer>> /\ pc \in [Tasks -> PCs]
  BY DEF Handled, Become, Stay, sessionVars, workVars, Work, TypeOK, PCs
<1>2. QED
  BY <1>1 DEF Work, Progress, OkMeansAll

\* The answer is given.
LEMMA ReplyProgress ==
  ASSUME Work, NEW k \in Tasks, Reply(k)
  PROVE  Progress' /\ OkMeansAll'
<1>1. /\ pc[k] = "replying" /\ pc' = [pc EXCEPT ![k] = "idle"]
      /\ answer' = [answer EXCEPT ![request[k]] = outcome[k]]
      /\ request' = [request EXCEPT ![k] = None] /\ UNCHANGED <<left, outcome, applied>>
      /\ pc \in [Tasks -> PCs] /\ request \in [Tasks -> Requests \cup {None}]
      /\ answer \in [Requests -> {"none", "ok", "error"}] /\ Progress /\ OkMeansAll
  BY DEF Reply, Become, Work, TypeOK, PCs
<1>2. Progress'
  BY <1>1 DEF Progress
<1>3. OkMeansAll'
  <2>1. request[k] \in Requests
    BY <1>1 DEF Progress
  <2>2. outcome[k] = "ok" => \A i \in Batch[request[k]] : applied[request[k]][i] >= 1
    BY <1>1 DEF Progress
  <2> SUFFICES ASSUME NEW r \in Requests, answer'[r] = "ok", NEW i \in Batch[r]
               PROVE  applied[r][i] >= 1
    BY <1>1 DEF OkMeansAll
  <2>3. CASE r = request[k]
    BY <1>1, <2>1, <2>2, <2>3
  <2>4. CASE r # request[k]
    BY <1>1, <2>1, <2>4 DEF OkMeansAll
  <2>5. QED
    BY <2>3, <2>4
<1>4. QED
  BY <1>2, <1>3

\* The steps of launch and of shutdown start or abort a task, and do no work.
LEMMA CallsDoNoWork ==
  ASSUME TypeOK, \/ Launch \/ LaunchStep \/ LaunchFails \/ Shutdown
                 \/ \E c \in Callers : ShutdownStep(c) \/ TimeOut(c)
  PROVE  /\ UNCHANGED <<sessionVars, workVars>>
         /\ \A k \in Tasks : \/ pc'[k] \in {"aborted", pc[k]}
                             \/ pc[k] = "unborn" /\ pc'[k] = "begun"
<1>1. pc \in [Tasks -> PCs] /\ holds \in [Callers -> Tasks \cup {None}]
  BY DEF TypeOK, PCs
<1>2. CASE Launch \/ LaunchFails \/ Shutdown
  BY <1>2 DEF Launch, LaunchFails, Shutdown, taskVars
<1>3. CASE LaunchStep
  BY <1>1, <1>3 DEF LaunchStep, Connect, KeepHandle, LaunchEnds, taskVars
<1>4. ASSUME NEW c \in Callers, ShutdownStep(c) \/ TimeOut(c)
      PROVE  /\ UNCHANGED <<sessionVars, workVars>>
             /\ \A k \in Tasks : pc'[k] \in {"aborted", pc[k]}
  BY <1>1, <1>4 DEF ShutdownStep, TakeHandle, Joined, TimeOut, Aborts, taskVars
<1>5. QED
  BY <1>2, <1>3, <1>4

\* Every step keeps the invariant of the work.
LEMMA WorkStep == Work /\ [Next]_vars => Work'
<1> SUFFICES ASSUME Work, [Next]_vars PROVE Work'
  OBVIOUS
<1>1. TypeOK'
  BY TypeStep DEF Work
<1>2. pc \in [Tasks -> PCs] /\ TypeOK
  BY DEF Work, TypeOK, PCs
<1>3. CASE UNCHANGED vars
  BY <1>1, <1>3, ProgressKept DEF vars, Work, taskVars, sessionVars, workVars
<1>4. CASE \/ Launch \/ LaunchStep \/ LaunchFails \/ Shutdown
           \/ \E c \in Callers : ShutdownStep(c) \/ TimeOut(c)
  <2>1. UNCHANGED <<request, left, outcome, applied, answer>>
    BY <1>2, <1>4, CallsDoNoWork DEF sessionVars, workVars
  <2>2. \A k \in Tasks : pc'[k] \in {"begun", "aborted", pc[k]}
    BY <1>2, <1>4, CallsDoNoWork
  <2>3. Progress' /\ OkMeansAll'
    BY <2>1, <2>2, ProgressKept
  <2>4. QED
    BY <1>1, <2>3 DEF Work
<1>5. ASSUME NEW k \in Tasks, Begin(k) \/ Connected(k) \/ Pause(k) PROVE Work'
  <2>1. UNCHANGED <<request, left, outcome, applied, answer>>
    BY <1>5 DEF Begin, Connected, Pause, Stay, sessionVars, workVars
  <2>2. \A j \in Tasks : pc'[j] \in {"ended", "connecting", "idle", "begun", pc[j]}
    BY <1>2, <1>5 DEF Begin, Connected, Pause, Become
  <2>3. Progress' /\ OkMeansAll'
    BY <2>1, <2>2, ProgressKept
  <2>4. QED
    BY <1>1, <2>3 DEF Work
<1>6. ASSUME NEW k \in Tasks, Close(k) \/ Lost(k) PROVE Work'
  <2>1. /\ UNCHANGED <<applied, answer, outcome>> /\ pc'[k] \in {"ended", "pausing"}
        /\ \A j \in Tasks \ {k} : pc'[j] = pc[j] /\ request'[j] = request[j] /\ left'[j] = left[j]
    BY <1>2, <1>6
       DEF Close, Lost, Disconnected, Become, SessionOver, Over, Stay, workVars, TypeOK
  <2>2. Progress' /\ OkMeansAll'
    BY <2>1, ProgressKept
  <2>3. QED
    BY <1>1, <2>2 DEF Work
<1>7. ASSUME NEW k \in Tasks, NEW r \in Requests, Send(k, r) PROVE Work'
  <2>1. UNCHANGED <<pc, request, left, outcome, applied, answer>>
    BY <1>7 DEF Send
  <2>2. QED
    BY <1>1, <2>1, ProgressKept DEF Work
<1>8. ASSUME NEW k \in Tasks, Read(k) \/ Handled(k) \/ Reply(k) PROVE Work'
  BY <1>1, <1>8, ReadProgress, HandledProgress, ReplyProgress DEF Work
<1>9. ASSUME NEW k \in Tasks, NEW i \in Ids, HandleId(k, i) \/ HandleFails(k, i) PROVE Work'
  BY <1>1, <1>9, HandleIdProgress, HandleFailsProgress DEF Work
<1>10. QED
  BY <1>3, <1>4, <1>5, <1>6, <1>7, <1>8, <1>9 DEF Next, TaskStep
-----------------------------------------------------------------------------
(* No session forgets a request.                                           *)

\* Most steps leave the requests of a session where they are, or end it.
LEMMA SessionsKept ==
  ASSUME Sessions, answer' = answer,
         \A k \in Tasks :
           \/ pc'[k] = pc[k] /\ UNCHANGED <<inbox[k], request[k], arrived[k]>>
           \/ pc'[k] = "aborted"
           \/ pc'[k] \in {"pausing", "ended"} /\ request'[k] = None /\ arrived'[k] = {}
           \/ /\ pc[k] \in {"unborn", "begun", "connecting", "pausing"}
              /\ pc'[k] \in {"begun", "connecting", "idle", "ended"}
              /\ UNCHANGED <<request[k], arrived[k]>>
           \/ /\ pc[k] = "handling" /\ pc'[k] = "replying"
              /\ UNCHANGED <<inbox[k], request[k], arrived[k]>>
  PROVE  Sessions'
<1>1. NoneForgotten'
  <2> SUFFICES ASSUME NEW k \in Tasks, InSession(k)', NEW r \in arrived'[k], answer'[r] = "none"
               PROVE  Waiting(k, r)'
    BY DEF NoneForgotten
  <2>1. /\ InSession(k) /\ UNCHANGED <<inbox[k], request[k], arrived[k]>>
    BY DEF Sessions, InSession
  <2>2. QED
    BY <2>1 DEF Sessions, NoneForgotten, Waiting
<1>2. QED
  BY <1>1 DEF Sessions

\* What a step does to one session, it does to no other.
LEMMA OneSession ==
  ASSUME Sessions, NEW k \in Tasks,
         \A r \in Requests : answer[r] # "none" => answer'[r] # "none",
         TypeOK,
         \A j \in Tasks \ {k} :
           pc'[j] = pc[j] /\ UNCHANGED <<inbox[j], request[j], arrived[j]>>,
         pc'[k] \in {"idle", "handling", "replying"},
         pc'[k] = "idle" => request'[k] = None,
         \A r \in arrived'[k] : Waiting(k, r)' \/ answer'[r] # "none"
  PROVE  Sessions'
<1>1. NoneForgotten'
  <2> SUFFICES ASSUME NEW j \in Tasks, InSession(j)', NEW r \in arrived'[j]
               PROVE  Waiting(j, r)' \/ answer'[r] # "none"
    BY DEF NoneForgotten
  <2>1. CASE j = k
    BY <2>1
  <2>2. CASE j # k
    <3>1. /\ pc'[j] = pc[j] /\ inbox'[j] = inbox[j] /\ request'[j] = request[j]
          /\ arrived'[j] = arrived[j] /\ arrived[j] \subseteq Requests
      BY <2>2 DEF TypeOK
    <3>2. InSession(j) /\ r \in arrived[j] /\ r \in Requests
      BY <3>1 DEF InSession
    <3>3. QED
      BY <3>1, <3>2 DEF Sessions, NoneForgotten, Waiting
  <2>3. QED
    BY <2>1, <2>2
<1>2. QED
  BY <1>1 DEF Sessions

\* A message is read: the request that was waiting longest is handled.
LEMMA ReadSession ==
  ASSUME TypeOK, Sessions, NEW k \in Tasks, Read(k)
  PROVE  Sessions'
<1>1. /\ inbox[k] \in Seq(Requests) /\ inbox[k] # <<>> /\ pc[k] = "idle" /\ answer' = answer
      /\ pc \in [Tasks -> PCs] /\ request \in [Tasks -> Requests \cup {None}]
      /\ arrived \in [Tasks -> SUBSET Requests] /\ inbox \in [Tasks -> Seq(Requests)]
      /\ request[k] = None
  BY DEF Read, Stay, workVars, TypeOK, PCs, Sessions
<1> DEFINE r == Head(inbox[k])
<1>2. CASE r \in Bad
  <2>1. /\ pc' = [pc EXCEPT ![k] = "pausing"] /\ request' = [request EXCEPT ![k] = None]
        /\ arrived' = [arrived EXCEPT ![k] = {}] /\ inbox' = [inbox EXCEPT ![k] = <<>>]
    BY <1>2 DEF Read, Undecodable, Disconnected, Become, SessionOver, Over
  <2>2. QED
    BY <1>1, <2>1, SessionsKept
<1>3. CASE r \notin Bad
  <2>1. /\ pc' = [pc EXCEPT ![k] = "handling"] /\ request' = [request EXCEPT ![k] = r]
        /\ inbox' = [inbox EXCEPT ![k] = Tail(inbox[k])] /\ arrived' = arrived
    BY <1>1, <1>3 DEF Read, Become
  <2>2. ASSUME NEW q \in arrived[k], answer[q] = "none" PROVE Waiting(k, q)'
    <3>1. Waiting(k, q)
      BY <1>1, <2>2 DEF Sessions, NoneForgotten, InSession
    <3>2. PICK n \in DOMAIN inbox[k] : inbox[k][n] = q
      BY <1>1, <3>1, ConductorAssumption DEF Waiting
    <3>3. CASE n = 1
      BY <1>1, <2>1, <3>2, <3>3 DEF Waiting
    <3>4. CASE n # 1
      <4>1. n - 1 \in DOMAIN Tail(inbox[k]) /\ Tail(inbox[k])[n - 1] = q
        BY <1>1, <3>2, <3>4
      <4>2. QED
        BY <1>1, <2>1, <4>1 DEF Waiting
    <3>5. QED
      BY <3>3, <3>4
  <2>3. \A q \in arrived'[k] : Waiting(k, q)' \/ answer'[q] # "none"
    BY <1>1, <2>1, <2>2
  <2>4. pc'[k] = "handling" /\ \A j \in Tasks \ {k} :
          pc'[j] = pc[j] /\ inbox'[j] = inbox[j] /\ request'[j] = request[j] /\ arrived'[j] = arrived[j]
    BY <1>1, <2>1
  <2> HIDE DEF r
  <2>5. QED
    BY <1>1, <2>3, <2>4, OneSession
<1>4. QED
  BY <1>2, <1>3

\* A request arrives behind the others.
LEMMA SendSession ==
  ASSUME TypeOK, Sessions, NEW k \in Tasks, NEW r \in Requests, Send(k, r)
  PROVE  Sessions'
<1>1. /\ inbox' = [inbox EXCEPT ![k] = Append(inbox[k], r)]
      /\ arrived' = [arrived EXCEPT ![k] = arrived[k] \cup {r}]
      /\ UNCHANGED <<pc, request, answer>> /\ InSession(k)
      /\ inbox \in [Tasks -> Seq(Requests)] /\ arrived \in [Tasks -> SUBSET Requests]
  BY DEF Send, TypeOK
<1>2. ASSUME NEW q \in arrived[k], answer[q] = "none" PROVE Waiting(k, q)'
  <2>1. request[k] = q \/ \E n \in DOMAIN inbox[k] : inbox[k][n] = q
    BY <1>1, <1>2 DEF Sessions, NoneForgotten, Waiting
  <2>2. CASE request[k] = q
    BY <1>1, <2>2 DEF Waiting
  <2>3. ASSUME NEW n \in DOMAIN inbox[k], inbox[k][n] = q PROVE Waiting(k, q)'
    <3>1. n \in DOMAIN Append(inbox[k], r) /\ Append(inbox[k], r)[n] = q
      BY <1>1, <2>3
    <3>2. QED
      BY <1>1, <3>1 DEF Waiting
  <2>4. QED
    BY <2>1, <2>2, <2>3
<1>3. Waiting(k, r)'
  <2>1. /\ Len(inbox[k]) + 1 \in DOMAIN Append(inbox[k], r)
        /\ Append(inbox[k], r)[Len(inbox[k]) + 1] = r
    BY <1>1
  <2>2. QED
    BY <1>1, <2>1 DEF Waiting
<1>4. \A q \in arrived'[k] : Waiting(k, q)' \/ answer'[q] # "none"
  BY <1>1, <1>2, <1>3
<1>5. /\ pc'[k] \in {"idle", "handling", "replying"} /\ (pc'[k] = "idle" => request'[k] = None)
      /\ \A j \in Tasks \ {k} :
           pc'[j] = pc[j] /\ inbox'[j] = inbox[j] /\ request'[j] = request[j] /\ arrived'[j] = arrived[j]
  BY <1>1 DEF Sessions, InSession
<1>6. QED
  BY <1>1, <1>4, <1>5, OneSession

\* A request is answered.
LEMMA ReplySession ==
  ASSUME TypeOK, Sessions, NEW k \in Tasks, Reply(k)
  PROVE  Sessions'
<1>1. /\ pc[k] = "replying" /\ pc' = [pc EXCEPT ![k] = "idle"]
      /\ answer' = [answer EXCEPT ![request[k]] = outcome[k]]
      /\ request' = [request EXCEPT ![k] = None] /\ UNCHANGED <<inbox, arrived>>
      /\ pc \in [Tasks -> PCs] /\ request \in [Tasks -> Requests \cup {None}]
      /\ answer \in [Requests -> {"none", "ok", "error"}] /\ outcome[k] \in {"ok", "error"}
      /\ arrived[k] \subseteq Requests
  BY DEF Reply, Become, TypeOK, PCs
<1>2. \A r \in Requests : answer[r] # "none" => answer'[r] # "none"
  BY <1>1
<1>3. ASSUME NEW q \in arrived[k] PROVE Waiting(k, q)' \/ answer'[q] # "none"
  <2>1. q \in Requests /\ (Waiting(k, q) \/ answer[q] # "none")
    BY <1>1 DEF Sessions, NoneForgotten, InSession
  <2>2. CASE request[k] = q
    BY <1>1, <2>1, <2>2
  <2>3. CASE request[k] # q
    BY <1>1, <1>2, <2>1, <2>3 DEF Waiting
  <2>4. QED
    BY <2>2, <2>3
<1>4. /\ pc'[k] = "idle" /\ request'[k] = None
      /\ \A j \in Tasks \ {k} :
           pc'[j] = pc[j] /\ inbox'[j] = inbox[j] /\ request'[j] = request[j] /\ arrived'[j] = arrived[j]
  BY <1>1
<1>5. QED
  BY <1>1, <1>2, <1>3, <1>4, OneSession

\* Every step keeps the invariant of the sessions.
LEMMA SessionsStep == TypeOK /\ Sessions /\ [Next]_vars => Sessions'
<1> SUFFICES ASSUME TypeOK, Sessions, [Next]_vars PROVE Sessions'
  OBVIOUS
<1>1. /\ pc \in [Tasks -> PCs] /\ request \in [Tasks -> Requests \cup {None}]
      /\ arrived \in [Tasks -> SUBSET Requests] /\ inbox \in [Tasks -> Seq(Requests)]
  BY DEF TypeOK, PCs
<1>2. CASE UNCHANGED vars
  BY <1>2, SessionsKept DEF vars, taskVars, sessionVars, workVars
<1>3. CASE \/ Launch \/ LaunchStep \/ LaunchFails \/ Shutdown
           \/ \E c \in Callers : ShutdownStep(c) \/ TimeOut(c)
  <2>1. /\ UNCHANGED <<inbox, request, arrived, answer>>
        /\ \A k \in Tasks : \/ pc'[k] \in {"aborted", pc[k]}
                            \/ pc[k] = "unborn" /\ pc'[k] = "begun"
    BY <1>3, CallsDoNoWork DEF sessionVars, workVars
  <2>2. QED
    BY <2>1, SessionsKept
<1>4. ASSUME NEW k \in Tasks, Begin(k) \/ Connected(k) \/ Pause(k) \/ Handled(k) PROVE Sessions'
  <2>1. UNCHANGED <<inbox, request, arrived, answer>>
    BY <1>4 DEF Begin, Connected, Pause, Handled, Stay, sessionVars, workVars
  <2>2. /\ \A j \in Tasks \ {k} : pc'[j] = pc[j]
        /\ \/ /\ pc[k] \in {"begun", "connecting", "pausing"}
              /\ pc'[k] \in {"begun", "connecting", "idle", "ended"}
           \/ pc[k] = "handling" /\ pc'[k] = "replying"
    BY <1>1, <1>4 DEF Begin, Connected, Pause, Handled, Become
  <2>3. QED
    BY <2>1, <2>2, SessionsKept
<1>5. ASSUME NEW k \in Tasks, Close(k) \/ Lost(k) PROVE Sessions'
  <2>1. /\ answer' = answer /\ pc'[k] \in {"ended", "pausing"} /\ request'[k] = None
        /\ arrived'[k] = {}
        /\ \A j \in Tasks \ {k} :
             pc'[j] = pc[j] /\ inbox'[j] = inbox[j] /\ request'[j] = request[j]
             /\ arrived'[j] = arrived[j]
    BY <1>1, <1>5 DEF Close, Lost, Disconnected, Become, SessionOver, Over, Stay, workVars
  <2>2. QED
    BY <2>1, SessionsKept
<1>6. ASSUME NEW k \in Tasks, NEW i \in Ids, HandleId(k, i) \/ HandleFails(k, i) PROVE Sessions'
  <2>1. /\ UNCHANGED <<inbox, request, arrived, answer>>
        /\ \A j \in Tasks : pc'[j] = pc[j] \/ (pc[j] = "handling" /\ pc'[j] = "replying")
    BY <1>1, <1>6 DEF HandleId, HandleFails, Refused, Become
  <2>2. QED
    BY <2>1, SessionsKept
<1>7. ASSUME NEW k \in Tasks, NEW r \in Requests, Send(k, r) PROVE Sessions'
  BY <1>7, SendSession
<1>8. ASSUME NEW k \in Tasks, Read(k) \/ Reply(k) PROVE Sessions'
  BY <1>8, ReadSession, ReplySession
<1>9. QED
  BY <1>2, <1>3, <1>4, <1>5, <1>6, <1>7, <1>8 DEF Next, TaskStep
-----------------------------------------------------------------------------
(* A shutdown leaves no task.                                              *)

\* The work of tasks brings none to life and leaves the calls alone.
LEMMA TasksKeep ==
  ASSUME TypeOK, Kept, UNCHANGED <<callVars, raced>>, \A k \in Tasks : Alive(k)' => Alive(k)
  PROVE  Kept'
BY DEF Kept, callVars

\* Each step of a task is such work.
LEMMA TaskStepKept ==
  ASSUME TypeOK, Kept, NEW k \in Tasks,
         \/ TaskStep(k) \/ Lost(k)
         \/ \E r \in Requests : Send(k, r)
         \/ \E i \in Ids : HandleFails(k, i)
  PROVE  Kept'
<1>1. pc \in [Tasks -> PCs]
  BY DEF TypeOK, PCs
<1>2. UNCHANGED <<callVars, raced>>
  BY DEF TaskStep, Lost, Begin, Connected, Close, Pause, Read, Handled, Reply, HandleId,
         HandleFails, Send, Stay
<1>3. pc' = pc \/ (Alive(k) /\ \E stage \in PCs : pc' = [pc EXCEPT ![k] = stage])
  <2>1. CASE Begin(k) \/ Connected(k) \/ Pause(k) \/ Handled(k)
    BY <2>1 DEF Begin, Connected, Pause, Handled, Become, Alive, PCs
  <2>2. CASE Close(k) \/ Lost(k)
    BY <2>2 DEF Close, Lost, Disconnected, Become, Alive, InSession, PCs
  <2>3. CASE Read(k)
    BY <2>3 DEF Read, Undecodable, Disconnected, Become, Alive, PCs
  <2>4. CASE Reply(k)
    BY <2>4 DEF Reply, Become, Alive, PCs
  <2>5. ASSUME NEW i \in Ids, HandleId(k, i) \/ HandleFails(k, i)
        PROVE  pc' = pc \/ (Alive(k) /\ \E stage \in PCs : pc' = [pc EXCEPT ![k] = stage])
    BY <2>5 DEF HandleId, HandleFails, Refused, Become, Alive, PCs
  <2>6. CASE \E r \in Requests : Send(k, r)
    BY <2>6 DEF Send
  <2>7. QED
    BY <2>1, <2>2, <2>3, <2>4, <2>5, <2>6 DEF TaskStep
<1>4. \A j \in Tasks : Alive(j)' => Alive(j)
  BY <1>1, <1>3 DEF Alive
<1>5. QED
  BY <1>2, <1>4, TasksKeep

\* The steps of launch: a task that is spawned is held by the launch, then by the context.
LEMMA LaunchKept ==
  ASSUME TypeOK, Kept, Launch \/ LaunchStep \/ LaunchFails
  PROVE  Kept'
<1>1. /\ pc \in [Tasks -> PCs] /\ at \in [Callers -> Stages]
      /\ holds \in [Callers -> Tasks \cup {None}] /\ Callers = {"launcher", "stopper"}
  BY DEF TypeOK, PCs, Stages, Callers
<1>2. CASE Launch
  BY <1>1, <1>2 DEF Launch, Goto, Kept, taskVars, Alive, Stages
<1>3. ASSUME NEW k \in Tasks, Connect(k) PROVE Kept'
  <2>1. /\ at["launcher"] = "starting" /\ at' = [at EXCEPT !["launcher"] = "keeping"]
        /\ holds' = [holds EXCEPT !["launcher"] = k] /\ UNCHANGED <<launched, handle, raced>>
        /\ \A j \in Tasks : Alive(j)' => Alive(j) \/ j = k
    BY <1>1, <1>3 DEF Connect, Goto, Alive
  <2>2. QED
    BY <1>1, <2>1 DEF Kept
<1>4. CASE KeepHandle
  <2>1. /\ at["launcher"] = "keeping" /\ at' = [at EXCEPT !["launcher"] = "recovering"]
        /\ handle' = holds["launcher"] /\ holds' = [holds EXCEPT !["launcher"] = None]
        /\ UNCHANGED <<launched, raced>> /\ \A j \in Tasks : Alive(j)' => Alive(j)
    BY <1>1, <1>4 DEF KeepHandle, Goto, Alive
  <2>2. QED
    BY <1>1, <2>1, ConductorAssumption DEF Kept
<1>5. CASE LaunchEnds
  <2>1. /\ at["launcher"] = "recovering" /\ at' = [at EXCEPT !["launcher"] = "idle"]
        /\ UNCHANGED <<launched, raced, handle, holds>>
        /\ \A j \in Tasks : Alive(j)' => Alive(j)
    BY <1>1, <1>5 DEF LaunchEnds, Goto, Alive, taskVars
  <2>2. QED
    BY <1>1, <2>1 DEF Kept
<1>6. CASE LaunchFails
  <2>1. /\ at["launcher"] \in {"starting", "recovering"}
        /\ at' = [at EXCEPT !["launcher"] = "taking"] /\ launched' = FALSE
        /\ UNCHANGED <<raced, handle, holds>> /\ \A j \in Tasks : Alive(j)' => Alive(j)
    BY <1>1, <1>6 DEF LaunchFails, Goto, Alive, taskVars
  <2>2. QED
    BY <1>1, <2>1 DEF Kept
<1>7. QED
  BY <1>2, <1>3, <1>4, <1>5, <1>6 DEF LaunchStep

\* The steps of shutdown: the handle goes to the call, which ends after the task.
LEMMA ShutdownKept ==
  ASSUME TypeOK, Kept, \/ Shutdown
                       \/ \E c \in Callers : ShutdownStep(c) \/ TimeOut(c)
  PROVE  Kept'
<1>1. /\ pc \in [Tasks -> PCs] /\ at \in [Callers -> Stages]
      /\ holds \in [Callers -> Tasks \cup {None}] /\ Callers = {"launcher", "stopper"}
  BY DEF TypeOK, PCs, Stages, Callers
<1>2. CASE Shutdown
  <2>1. /\ at["stopper"] = "idle" /\ at' = [at EXCEPT !["stopper"] = "taking"] /\ launched' = FALSE
        /\ raced' = (raced \/ at["launcher"] # "idle")
        /\ UNCHANGED <<handle, holds>> /\ \A j \in Tasks : Alive(j)' => Alive(j)
    BY <1>1, <1>2 DEF Shutdown, Goto, Alive, taskVars
  <2>2. QED
    BY <1>1, <2>1 DEF Kept
<1>3. ASSUME NEW c \in Callers, TakeHandle(c) PROVE Kept'
  <2>1. /\ at[c] = "taking" /\ UNCHANGED <<launched, raced>>
        /\ \A j \in Tasks : Alive(j)' => Alive(j)
    BY <1>3 DEF TakeHandle, Alive
  <2>2. CASE handle = None
    <3>1. at' = [at EXCEPT ![c] = "idle"] /\ UNCHANGED <<handle, holds>>
      BY <1>3, <2>2 DEF TakeHandle, Goto
    <3>2. QED
      BY <1>1, <2>1, <2>2, <3>1 DEF Kept
  <2>3. CASE handle # None
    <3>1. /\ at' = [at EXCEPT ![c] = "waiting"] /\ holds' = [holds EXCEPT ![c] = handle]
          /\ handle' = None
      BY <1>3, <2>3 DEF TakeHandle, Take, Goto
    <3>2. QED
      BY <1>1, <2>1, <2>3, <3>1 DEF Kept
  <2>4. QED
    BY <2>2, <2>3
<1>4. ASSUME NEW c \in Callers, Joined(c) \/ TimeOut(c) PROVE Kept'
  <2>1. /\ at[c] = "waiting" /\ at' = [at EXCEPT ![c] = "idle"]
        /\ holds' = [holds EXCEPT ![c] = None] /\ UNCHANGED <<launched, handle, raced>>
        /\ \A j \in Tasks : Alive(j)' => Alive(j) /\ j # holds[c]
    BY <1>1, <1>4 DEF Joined, TimeOut, Stopped, Aborts, Goto, Alive, taskVars
  <2>2. QED
    BY <1>1, <2>1 DEF Kept
<1>5. QED
  BY <1>2, <1>3, <1>4 DEF ShutdownStep

\* Every step keeps the handles.
LEMMA KeptStep == TypeOK /\ Kept /\ [Next]_vars => Kept'
<1> SUFFICES ASSUME TypeOK, Kept, [Next]_vars PROVE Kept'
  OBVIOUS
<1>1. CASE UNCHANGED vars
  <2>1. UNCHANGED <<callVars, raced, pc>>
    BY <1>1 DEF vars, taskVars
  <2>2. QED
    BY <2>1, TasksKeep DEF Alive
<1>2. CASE Launch \/ LaunchStep \/ LaunchFails
  BY <1>2, LaunchKept
<1>3. CASE Shutdown \/ \E c \in Callers : ShutdownStep(c) \/ TimeOut(c)
  BY <1>3, ShutdownKept
<1>4. ASSUME NEW k \in Tasks,
             \/ TaskStep(k) \/ Lost(k)
             \/ \E r \in Requests : Send(k, r)
             \/ \E i \in Ids : HandleFails(k, i)
      PROVE  Kept'
  BY <1>4, TaskStepKept
<1>5. QED
  BY <1>1, <1>2, <1>3, <1>4 DEF Next
-----------------------------------------------------------------------------
(* No request is carried out more often than it was sent.                  *)

\* A request is in the stream of a task.
Listed(k, r) == \E n \in DOMAIN inbox[k] : inbox[k][n] = r

\* A session has each request at one place only: once in its stream, or handled.
DistinctAt(k) ==
  /\ \A n \in DOMAIN inbox[k] : inbox[k][n] \in arrived[k]
  /\ \A m, n \in DOMAIN inbox[k] : inbox[k][m] = inbox[k][n] => m = n
  /\ pc[k] = "handling" => request[k] \in arrived[k] /\ ~Listed(k, request[k])
Distinct == \A k \in Tasks : DistinctAt(k)

\* The tasks that may still carry a request out for an id: each of them has been sent it
\* once, and no sending of it is carried out twice.
Owes(k, r, i) == Listed(k, r) \/ (pc[k] = "handling" /\ request[k] = r /\ i \in left[k])
Owing(r, i) == {k \in Tasks : Owes(k, r, i)}
CountedAt(r, i) ==
  /\ IsFiniteSet(Owing(r, i))
  /\ applied[r][i] + Cardinality(Owing(r, i)) <= sent[r]
Counted == \A r \in Requests, i \in Ids : CountedAt(r, i)

\* What a count needs of the types.
LEMMA CountTypes ==
  TypeOK => \A r \in Requests, i \in Ids :
              applied[r][i] \in Nat /\ sent[r] \in Nat
BY DEF TypeOK

\* No task comes to owe anything.
LEMMA OwesLess ==
  ASSUME TypeOK, Counted, UNCHANGED <<applied, sent>>,
         \A k \in Tasks, r \in Requests, i \in Ids : Owes(k, r, i)' => Owes(k, r, i)
  PROVE  Counted'
<1> SUFFICES ASSUME NEW r \in Requests, NEW i \in Ids PROVE CountedAt(r, i)'
  BY DEF Counted
<1> DEFINE S == Owing(r, i)
           T == Owing(r, i)'
<1>1. IsFiniteSet(S) /\ applied[r][i] + Cardinality(S) <= sent[r]
  BY DEF Counted, CountedAt
<1>2. T \in SUBSET S
  BY DEF Owing
<1>3. IsFiniteSet(T) /\ Cardinality(T) <= Cardinality(S)
      /\ Cardinality(T) \in Nat /\ Cardinality(S) \in Nat
  <2> HIDE DEF S, T
  <2>1. IsFiniteSet(T) /\ Cardinality(T) <= Cardinality(S)
    BY <1>1, <1>2, FS_Subset
  <2>2. QED
    BY <1>1, <2>1, FS_CardinalityType
<1>4. applied[r][i] \in Nat /\ sent[r] \in Nat
  BY CountTypes
<1>5. applied'[r][i] = applied[r][i] /\ sent'[r] = sent[r]
  OBVIOUS
<1>6. applied[r][i] + Cardinality(T) <= sent[r]
  <2> HIDE DEF S, T
  <2>1. QED
    BY <1>1, <1>3, <1>4
<1>7. QED
  BY <1>3, <1>5, <1>6 DEF CountedAt

\* A task carries out what it owes, for an id, and owes it no longer.
LEMMA OwesOneLess ==
  ASSUME TypeOK, Counted, NEW k \in Tasks, NEW q \in Requests, NEW i \in Ids,
         applied' = [applied EXCEPT ![q][i] = @ + 1], sent' = sent,
         Owes(k, q, i), ~Owes(k, q, i)',
         \A j \in Tasks, r \in Requests, n \in Ids : Owes(j, r, n)' => Owes(j, r, n)
  PROVE  Counted'
<1> SUFFICES ASSUME NEW r \in Requests, NEW n \in Ids PROVE CountedAt(r, n)'
  BY DEF Counted
<1> DEFINE S == Owing(r, n)
           T == Owing(r, n)'
<1>1. IsFiniteSet(S) /\ applied[r][n] + Cardinality(S) <= sent[r]
  BY DEF Counted, CountedAt
<1>2. applied[r][n] \in Nat /\ sent[r] \in Nat /\ Cardinality(S) \in Nat
  BY <1>1, CountTypes, FS_CardinalityType
<1>3. applied'[r][n] = (IF r = q /\ n = i THEN applied[r][n] + 1 ELSE applied[r][n])
  BY DEF TypeOK
<1>4. CASE r = q /\ n = i
  <2>1. T \in SUBSET (S \ {k}) /\ k \in S
    BY <1>4 DEF Owing
  <2>2. IsFiniteSet(S \ {k}) /\ Cardinality(S \ {k}) = Cardinality(S) - 1
    <3> HIDE DEF S, T
    <3>1. QED
      BY <1>1, <2>1, FS_RemoveElement
  <2>3. IsFiniteSet(T) /\ Cardinality(T) <= Cardinality(S) - 1
    <3> HIDE DEF S, T
    <3>1. QED
      BY <2>1, <2>2, FS_Subset
  <2>4. applied[r][n] + 1 + Cardinality(T) <= sent[r]
    <3> HIDE DEF S, T
    <3>1. Cardinality(T) \in Nat
      BY <2>3, FS_CardinalityType
    <3>2. QED
      BY <1>1, <1>2, <2>3, <3>1
  <2>5. QED
    BY <1>3, <1>4, <2>3, <2>4 DEF CountedAt
<1>5. CASE ~(r = q /\ n = i)
  <2>1. T \in SUBSET S
    BY DEF Owing
  <2>2. IsFiniteSet(T) /\ Cardinality(T) <= Cardinality(S)
    <3> HIDE DEF S, T
    <3>1. QED
      BY <1>1, <2>1, FS_Subset
  <2>3. applied[r][n] + Cardinality(T) <= sent[r]
    <3> HIDE DEF S, T
    <3>1. Cardinality(T) \in Nat
      BY <2>2, FS_CardinalityType
    <3>2. QED
      BY <1>1, <1>2, <2>2, <3>1
  <2>4. QED
    BY <1>3, <1>5, <2>2, <2>3 DEF CountedAt
<1>6. QED
  BY <1>4, <1>5

\* A task that is sent a request may owe it, for each of its ids.
LEMMA OwesOneMore ==
  ASSUME TypeOK, Counted, NEW k \in Tasks, NEW q \in Requests,
         applied' = applied, sent' = [sent EXCEPT ![q] = @ + 1],
         \A j \in Tasks, r \in Requests, n \in Ids :
           Owes(j, r, n)' => Owes(j, r, n) \/ (j = k /\ r = q)
  PROVE  Counted'
<1> SUFFICES ASSUME NEW r \in Requests, NEW n \in Ids PROVE CountedAt(r, n)'
  BY DEF Counted
<1> DEFINE S == Owing(r, n)
           T == Owing(r, n)'
<1>1. IsFiniteSet(S) /\ applied[r][n] + Cardinality(S) <= sent[r]
  BY DEF Counted, CountedAt
<1>2. applied[r][n] \in Nat /\ sent[r] \in Nat /\ Cardinality(S) \in Nat
  BY <1>1, CountTypes, FS_CardinalityType
<1>3. sent'[r] = (IF r = q THEN sent[r] + 1 ELSE sent[r]) /\ applied'[r][n] = applied[r][n]
  BY DEF TypeOK
<1>4. CASE r = q
  <2>1. T \in SUBSET (S \cup {k})
    BY <1>4 DEF Owing
  <2>2. IsFiniteSet(S \cup {k}) /\ Cardinality(S \cup {k}) <= Cardinality(S) + 1
    <3> HIDE DEF S, T
    <3>1. /\ IsFiniteSet(S \cup {k})
          /\ Cardinality(S \cup {k}) = IF k \in S THEN Cardinality(S) ELSE Cardinality(S) + 1
      BY <1>1, FS_AddElement, Zenon
    <3>2. QED
      BY <1>2, <3>1
  <2>3. IsFiniteSet(T) /\ Cardinality(T) <= Cardinality(S \cup {k})
    <3> HIDE DEF S, T
    <3>1. QED
      BY <2>1, <2>2, FS_Subset
  <2>4. applied[r][n] + Cardinality(T) <= sent[r] + 1
    <3> HIDE DEF S, T
    <3>1. Cardinality(T) \in Nat /\ Cardinality(S \cup {k}) \in Nat
      BY <2>2, <2>3, FS_CardinalityType
    <3>2. QED
      BY <1>1, <1>2, <2>2, <2>3, <3>1
  <2>5. QED
    BY <1>3, <1>4, <2>3, <2>4 DEF CountedAt
<1>5. CASE r # q
  <2>1. T \in SUBSET S
    BY <1>5 DEF Owing
  <2>2. IsFiniteSet(T) /\ Cardinality(T) <= Cardinality(S)
    <3> HIDE DEF S, T
    <3>1. QED
      BY <1>1, <2>1, FS_Subset
  <2>3. applied[r][n] + Cardinality(T) <= sent[r]
    <3> HIDE DEF S, T
    <3>1. Cardinality(T) \in Nat
      BY <2>2, FS_CardinalityType
    <3>2. QED
      BY <1>1, <1>2, <2>2, <3>1
  <2>4. QED
    BY <1>3, <1>5, <2>2, <2>3 DEF CountedAt
<1>6. QED
  BY <1>4, <1>5

\* Most steps leave a session's requests where they are, or stop them being handled, or
\* lose them.
LEMMA NothingMoves ==
  ASSUME TypeOK, Distinct, Counted, UNCHANGED <<applied, sent>>,
         \A k \in Tasks :
           \/ /\ UNCHANGED <<inbox[k], request[k], arrived[k], left[k]>>
              /\ pc'[k] = "handling" => pc[k] = "handling"
           \/ pc'[k] # "handling" /\ inbox'[k] = <<>>
  PROVE  Distinct' /\ Counted'
<1>1. ASSUME NEW k \in Tasks PROVE DistinctAt(k)'
  <2>1. DistinctAt(k)
    BY DEF Distinct
  <2>2. QED
    BY <2>1 DEF DistinctAt, Listed
<1>2. ASSUME NEW k \in Tasks, NEW r \in Requests, NEW i \in Ids, Owes(k, r, i)'
      PROVE  Owes(k, r, i)
  BY <1>2 DEF Owes, Listed
<1>3. Counted'
  BY <1>2, OwesLess
<1>4. QED
  BY <1>1, <1>3 DEF Distinct

\* The oldest request of the stream is read.
LEMMA ReadCounts ==
  ASSUME TypeOK, Distinct, Counted, NEW k \in Tasks, Read(k)
  PROVE  Distinct' /\ Counted'
<1>1. /\ inbox[k] \in Seq(Requests) /\ inbox[k] # <<>> /\ UNCHANGED <<applied, sent>>
      /\ pc \in [Tasks -> PCs] /\ request \in [Tasks -> Requests \cup {None}]
      /\ arrived \in [Tasks -> SUBSET Requests] /\ inbox \in [Tasks -> Seq(Requests)]
      /\ left \in [Tasks -> SUBSET Ids]
  BY DEF Read, Stay, workVars, TypeOK, PCs
<1> DEFINE r == Head(inbox[k])
<1>2. CASE r \in Bad
  <2>1. /\ pc' = [pc EXCEPT ![k] = "pausing"] /\ request' = [request EXCEPT ![k] = None]
        /\ arrived' = [arrived EXCEPT ![k] = {}] /\ inbox' = [inbox EXCEPT ![k] = <<>>]
        /\ left' = [left EXCEPT ![k] = {}]
    BY <1>2 DEF Read, Undecodable, Disconnected, Become, SessionOver, Over
  <2>2. QED
    BY <1>1, <2>1, NothingMoves
<1>3. CASE r \notin Bad
  <2>1. /\ pc' = [pc EXCEPT ![k] = "handling"] /\ request' = [request EXCEPT ![k] = r]
        /\ inbox' = [inbox EXCEPT ![k] = Tail(inbox[k])] /\ arrived' = arrived
        /\ left' = [left EXCEPT ![k] = Batch[r]]
    BY <1>1, <1>3 DEF Read, Become
  <2>2. \A n \in DOMAIN Tail(inbox[k]) :
          n + 1 \in DOMAIN inbox[k] /\ n + 1 # 1 /\ Tail(inbox[k])[n] = inbox[k][n + 1]
    BY <1>1
  <2>3. 1 \in DOMAIN inbox[k] /\ inbox[k][1] = r /\ DistinctAt(k)
    BY <1>1 DEF Distinct
  <2>4. \A n \in DOMAIN Tail(inbox[k]) : Tail(inbox[k])[n] # r /\ Tail(inbox[k])[n] \in arrived[k]
    BY <2>2, <2>3 DEF DistinctAt
  <2>5. \A m, n \in DOMAIN Tail(inbox[k]) : Tail(inbox[k])[m] = Tail(inbox[k])[n] => m = n
    <3>1. DOMAIN Tail(inbox[k]) \subseteq Nat
      BY <1>1
    <3>2. QED
      BY <2>2, <2>3, <3>1 DEF DistinctAt
  <2> HIDE DEF r
  <2>6. inbox'[k] = Tail(inbox[k]) /\ arrived'[k] = arrived[k] /\ request'[k] = r
    BY <1>1, <2>1
  <2>7. DistinctAt(k)'
    BY <2>3, <2>4, <2>5, <2>6 DEF DistinctAt, Listed
  <2>8. ASSUME NEW j \in Tasks, j # k PROVE DistinctAt(j)'
    BY <1>1, <2>1, <2>8 DEF Distinct, DistinctAt, Listed
  <2>9. ASSUME NEW j \in Tasks, NEW q \in Requests, NEW i \in Ids, Owes(j, q, i)'
        PROVE  Owes(j, q, i)
    <3>1. CASE j # k
      BY <1>1, <2>1, <2>9, <3>1 DEF Owes, Listed
    <3>2. CASE j = k /\ q = r
      BY <2>3, <3>2 DEF Owes, Listed
    <3>3. CASE j = k /\ q # r
      BY <2>2, <2>6, <2>9, <3>3 DEF Owes, Listed
    <3>4. QED
      BY <3>1, <3>2, <3>3
  <2>10. Counted'
    BY <1>1, <2>9, OwesLess
  <2>11. QED
    BY <2>7, <2>8, <2>10 DEF Distinct
<1>4. QED
  BY <1>2, <1>3

\* A request arrives, that had not arrived in this session.
LEMMA SendCounts ==
  ASSUME TypeOK, Distinct, Counted, NEW k \in Tasks, NEW r \in Requests, Send(k, r)
  PROVE  Distinct' /\ Counted'
<1>1. /\ inbox' = [inbox EXCEPT ![k] = Append(inbox[k], r)] /\ r \notin arrived[k]
      /\ arrived' = [arrived EXCEPT ![k] = arrived[k] \cup {r}]
      /\ UNCHANGED <<pc, request, left, applied>> /\ sent' = [sent EXCEPT ![r] = @ + 1]
      /\ inbox \in [Tasks -> Seq(Requests)] /\ arrived \in [Tasks -> SUBSET Requests]
  BY DEF Send, TypeOK
<1>2. \A n \in DOMAIN Append(inbox[k], r) :
        \/ n \in DOMAIN inbox[k] /\ Append(inbox[k], r)[n] = inbox[k][n]
        \/ n = Len(inbox[k]) + 1 /\ Append(inbox[k], r)[n] = r
  BY <1>1
<1>3. /\ inbox'[k] = Append(inbox[k], r) /\ arrived'[k] = arrived[k] \cup {r}
      /\ pc'[k] = pc[k] /\ request'[k] = request[k] /\ DistinctAt(k)
  BY <1>1 DEF Distinct
<1>4. DistinctAt(k)'
  <2>1. \A n \in DOMAIN inbox'[k] : inbox'[k][n] \in arrived'[k]
    BY <1>2, <1>3 DEF DistinctAt
  <2>2. \A m, n \in DOMAIN inbox'[k] : inbox'[k][m] = inbox'[k][n] => m = n
    BY <1>1, <1>2, <1>3 DEF DistinctAt
  <2>3. pc'[k] = "handling" => request'[k] \in arrived'[k] /\ ~Listed(k, request[k])'
    BY <1>1, <1>2, <1>3 DEF DistinctAt, Listed
  <2>4. QED
    BY <1>1, <2>1, <2>2, <2>3 DEF DistinctAt
<1>5. ASSUME NEW j \in Tasks, j # k PROVE DistinctAt(j)'
  BY <1>1, <1>5 DEF Distinct, DistinctAt, Listed
<1>6. ASSUME NEW j \in Tasks, NEW q \in Requests, NEW i \in Ids, Owes(j, q, i)'
      PROVE  Owes(j, q, i) \/ (j = k /\ q = r)
  <2>1. CASE j # k
    BY <1>1, <1>6, <2>1 DEF Owes, Listed
  <2>2. CASE j = k
    BY <1>1, <1>2, <1>3, <1>6, <2>2 DEF Owes, Listed
  <2>3. QED
    BY <2>1, <2>2
<1>7. Counted'
  BY <1>1, <1>6, OwesOneMore
<1>8. QED
  BY <1>4, <1>5, <1>7 DEF Distinct

\* An id is handled, or fails, applied or not; it was left, and is not left any more.
LEMMA HandleCounts ==
  ASSUME TypeOK, Progress, Distinct, Counted, NEW k \in Tasks, NEW i \in Ids,
         HandleId(k, i) \/ HandleFails(k, i)
  PROVE  Distinct' /\ Counted'
<1>0. PICK q \in Requests : q = request[k]
  BY DEF HandleId, HandleFails, Progress
<1>1. /\ pc[k] = "handling" /\ i \in left[k] /\ UNCHANGED <<inbox, request, arrived, sent>>
      /\ pc'[k] = "handling" => left'[k] = left[k] \ {i}
      /\ \A j \in Tasks \ {k} : pc'[j] = pc[j] /\ left'[j] = left[j]
      /\ request[k] = q /\ request'[k] = q
  BY <1>0 DEF HandleId, HandleFails, Refused, Become, TypeOK
<1>2. Applied(q, i) \/ UNCHANGED applied
  BY <1>0 DEF HandleId, HandleFails
<1>3. Distinct'
  <2>1. \A j \in Tasks : pc'[j] = "handling" => pc[j] = "handling"
    BY <1>1
  <2>2. QED
    BY <1>1, <2>1 DEF Distinct, DistinctAt, Listed
<1>4. ASSUME NEW j \in Tasks, NEW r \in Requests, NEW n \in Ids, Owes(j, r, n)'
      PROVE  Owes(j, r, n)
  BY <1>1, <1>4 DEF Owes, Listed
<1>5. Owes(k, q, i) /\ ~Owes(k, q, i)'
  <2>1. ~Listed(k, q)
    BY <1>1 DEF Distinct, DistinctAt
  <2>2. Owes(k, q, i)
    BY <1>1 DEF Owes
  <2>3. ~Listed(k, q)' /\ ~(pc'[k] = "handling" /\ i \in left'[k])
    BY <1>1, <2>1 DEF Listed
  <2>4. QED
    BY <2>2, <2>3 DEF Owes
<1>6. CASE UNCHANGED applied
  BY <1>1, <1>3, <1>4, <1>6, OwesLess
<1>7. CASE Applied(q, i)
  <2>1. applied' = [applied EXCEPT ![q][i] = @ + 1]
    BY <1>7 DEF Applied
  <2>2. Counted'
    BY <1>1, <1>4, <1>5, <2>1, OwesOneLess
  <2>3. QED
    BY <1>3, <2>2
<1>8. QED
  BY <1>2, <1>6, <1>7

\* Every step keeps the count.
LEMMA CountedStep == TypeOK /\ Progress /\ Distinct /\ Counted /\ [Next]_vars => Distinct' /\ Counted'
<1> SUFFICES ASSUME TypeOK, Progress, Distinct, Counted, [Next]_vars PROVE Distinct' /\ Counted'
  OBVIOUS
<1>1. /\ pc \in [Tasks -> PCs] /\ request \in [Tasks -> Requests \cup {None}]
      /\ arrived \in [Tasks -> SUBSET Requests] /\ inbox \in [Tasks -> Seq(Requests)]
      /\ left \in [Tasks -> SUBSET Ids]
  BY DEF TypeOK, PCs
<1>2. CASE UNCHANGED vars
  BY <1>2, NothingMoves DEF vars, taskVars, sessionVars, workVars
<1>3. CASE \/ Launch \/ LaunchStep \/ LaunchFails \/ Shutdown
           \/ \E c \in Callers : ShutdownStep(c) \/ TimeOut(c)
  <2>1. /\ UNCHANGED <<inbox, request, left, arrived, applied, sent>>
        /\ \A k \in Tasks : pc'[k] \in {"begun", "aborted", pc[k]}
    BY <1>3, CallsDoNoWork DEF sessionVars, workVars
  <2>2. QED
    BY <2>1, NothingMoves
<1>4. ASSUME NEW k \in Tasks, Begin(k) \/ Connected(k) \/ Pause(k) \/ Handled(k)
      PROVE  Distinct' /\ Counted'
  <2>1. UNCHANGED <<inbox, request, left, arrived, applied, sent>>
    BY <1>4 DEF Begin, Connected, Pause, Handled, Stay, sessionVars, workVars
  <2>2. \A j \in Tasks : pc'[j] = "handling" => pc[j] = "handling"
    BY <1>1, <1>4 DEF Begin, Connected, Pause, Handled, Become
  <2>3. QED
    BY <2>1, <2>2, NothingMoves
<1>5. ASSUME NEW k \in Tasks, Close(k) \/ Lost(k) PROVE Distinct' /\ Counted'
  <2>1. /\ UNCHANGED <<applied, sent>> /\ pc'[k] \in {"ended", "pausing"} /\ inbox'[k] = <<>>
        /\ \A j \in Tasks \ {k} :
             /\ pc'[j] = pc[j] /\ inbox'[j] = inbox[j] /\ request'[j] = request[j]
             /\ arrived'[j] = arrived[j] /\ left'[j] = left[j]
    BY <1>1, <1>5 DEF Close, Lost, Disconnected, Become, SessionOver, Over, Stay, workVars
  <2>2. QED
    BY <2>1, NothingMoves
<1>6. ASSUME NEW k \in Tasks, NEW i \in Ids, HandleId(k, i) \/ HandleFails(k, i)
      PROVE  Distinct' /\ Counted'
  BY <1>6, HandleCounts
<1>7. ASSUME NEW k \in Tasks, NEW r \in Requests, Send(k, r) PROVE Distinct' /\ Counted'
  BY <1>7, SendCounts
<1>8. ASSUME NEW k \in Tasks, Read(k) PROVE Distinct' /\ Counted'
  BY <1>8, ReadCounts
<1>9. ASSUME NEW k \in Tasks, Reply(k) PROVE Distinct' /\ Counted'
  <2>1. /\ UNCHANGED <<inbox, left, arrived, applied, sent>> /\ pc[k] = "replying"
        /\ pc' = [pc EXCEPT ![k] = "idle"] /\ request' = [request EXCEPT ![k] = None]
    BY <1>9 DEF Reply, Become
  <2>2. ASSUME NEW j \in Tasks PROVE DistinctAt(j)'
    BY <1>1, <2>1 DEF Distinct, DistinctAt, Listed
  <2>3. ASSUME NEW j \in Tasks, NEW r \in Requests, NEW i \in Ids, Owes(j, r, i)'
        PROVE  Owes(j, r, i)
    BY <1>1, <2>1, <2>3 DEF Owes, Listed
  <2>4. Counted'
    BY <2>1, <2>3, OwesLess
  <2>5. QED
    BY <2>2, <2>4 DEF Distinct
<1>10. QED
  BY <1>2, <1>3, <1>4, <1>5, <1>6, <1>7, <1>8, <1>9 DEF Next, TaskStep
-----------------------------------------------------------------------------
(* The theorems.                                                           *)

\* The initial state satisfies all of it.
LEMMA InitAll == Init => Work /\ Sessions /\ Kept /\ Distinct /\ Counted
<1> SUFFICES ASSUME Init PROVE Work /\ Sessions /\ Kept /\ Distinct /\ Counted
  OBVIOUS
<1>1. TypeOK
  BY InitType
<1>2. Progress /\ OkMeansAll
  BY DEF Init, Progress, OkMeansAll
<1>3. Sessions
  BY DEF Init, Sessions, NoneForgotten, InSession
<1>4. Kept
  BY DEF Init, Kept, Alive, Callers
<1>5. Distinct
  BY DEF Init, Distinct, DistinctAt
<1>6. Counted
  <2> SUFFICES ASSUME NEW r \in Requests, NEW i \in Ids PROVE CountedAt(r, i)
    BY DEF Counted
  <2>1. Owing(r, i) = {}
    BY DEF Init, Owing, Owes, Listed
  <2>2. applied[r][i] = 0 /\ sent[r] = 0
    BY DEF Init
  <2>3. QED
    BY <2>1, <2>2, FS_EmptySet DEF CountedAt
<1>7. QED
  BY <1>1, <1>2, <1>3, <1>4, <1>5, <1>6 DEF Work

\* Throughout an execution, all of it holds.
LEMMA Invariance == Spec => [](Work /\ Sessions /\ Kept /\ Distinct /\ Counted)
<1>1. Work /\ Sessions /\ Kept /\ Distinct /\ Counted /\ [Next]_vars =>
        (Work /\ Sessions /\ Kept /\ Distinct /\ Counted)'
  BY WorkStep, SessionsStep, KeptStep, CountedStep DEF Work
<1>2. QED
  BY <1>1, InitAll, PTL DEF Spec

\* Every variable keeps its type, whatever fails.
THEOREM TypeCorrect == Spec => []TypeOK
<1>1. Work => TypeOK
  BY DEF Work
<1>2. QED
  BY <1>1, Invariance, PTL

\* A batch that was answered ok was carried out for all of its ids (the handlers of the
\* Conductor's requests return at the first error).
THEOREM OkIsWhole == Spec => []OkMeansAll
<1>1. Work => OkMeansAll
  BY DEF Work
<1>2. QED
  BY <1>1, Invariance, PTL

\* An open session has answered what has arrived, or has it waiting.
THEOREM NothingForgotten == Spec => []NoneForgotten
<1>1. Sessions => NoneForgotten
  BY DEF Sessions
<1>2. QED
  BY <1>1, Invariance, PTL

\* A request is carried out for an id at most once for each time it was sent, over all the
\* sessions that may have it at once: a connection that is lost, an answer that is lost and
\* an id that fails make no task handle it again.
THEOREM HandledOncePerSending == Spec => []OncePerSending
<1>1. Work /\ Counted => OncePerSending
  <2> SUFFICES ASSUME Work, Counted, NEW r \in Requests, NEW i \in Ids
               PROVE  applied[r][i] <= sent[r]
    BY DEF OncePerSending
  <2>1. /\ IsFiniteSet(Owing(r, i)) /\ applied[r][i] + Cardinality(Owing(r, i)) <= sent[r]
        /\ applied[r][i] \in Nat /\ sent[r] \in Nat
    BY CountTypes DEF Counted, CountedAt, Work
  <2>2. Cardinality(Owing(r, i)) \in Nat
    BY <2>1, FS_CardinalityType
  <2>3. QED
    BY <2>1, <2>2
<1>2. QED
  BY <1>1, Invariance, PTL

\* A shutdown that no launch has overlapped leaves no task of the connection, though the
\* handle passes from the launch to the context and to the shutdown.
THEOREM ShutdownIsFinal == Spec => []NothingAfterShutdown
<1>1. Kept => NothingAfterShutdown
  <2> SUFFICES ASSUME Kept, ~raced, ~launched, \A c \in Callers : at[c] = "idle",
                      NEW k \in Tasks, Alive(k)
               PROVE  FALSE
    BY DEF NothingAfterShutdown
  <2>1. handle = None
    BY DEF Kept
  <2>2. QED
    BY <2>1, ConductorAssumption DEF Kept, Callers
<1>2. QED
  BY <1>1, Invariance, PTL
=============================================================================
