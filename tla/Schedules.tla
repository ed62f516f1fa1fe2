------------------------------- MODULE Schedules -------------------------------
(***************************************************************************)
(* Schedules: the schedule supervisors of several processes list the        *)
(* schedules that are active, enqueue a workflow for each that is due, and   *)
(* save the row they listed with the time of the round, while users create, *)
(* pause, resume, delete, trigger and backfill the same schedules.          *)
(*                                                                         *)
(* Every read and every write of a schedule row is a store call of its own, *)
(* and every write is of a whole row.                                       *)
(***************************************************************************)
EXTENDS Naturals, FiniteSets, Functions

CONSTANTS
  Schedules,   \* the names of schedules
  Supervisors, \* one for each process that is launched
  Users,       \* callers of the schedule operations
  MaxTime,     \* bound on the clock, in seconds
  Cron,        \* for each schedule the instants of its cron expression
  Ranges,      \* the start and the end that a backfill may be called with
  Budget,      \* bound on calls of users, store calls that fail, and crashes together
  None

Time == 0..MaxTime

ASSUME ScheduleAssumption ==
  /\ MaxTime \in Nat
  /\ Cron \in [Schedules -> SUBSET Time]
  /\ Ranges \subseteq Time \X Time
  /\ Budget \in Nat
  /\ None \notin Schedules \cup Time

VARIABLES
  now,       \* the clock
  row,       \* the row of each schedule
  round,     \* each supervisor's round: the rows it has still to look at, and its time
  call,      \* each user's call under way
  fires,     \* how many workflows rounds have enqueued for each instant
  filled,    \* the times of the workflows enqueued by backfills
  first,     \* history: when a row without a time was last saved with one
  promised,  \* history: the backfills that were answered without an error
  disturbed, \* history: schedules that a stale write or a broken round has touched
  stopped,   \* history: schedules paused or deleted while no one held a copy of them
  budget

vars == <<now, row, round, call, fires, filled, first, promised, disturbed, stopped, budget>>
histories == <<first, promised, disturbed, stopped>>
-----------------------------------------------------------------------------
Row == [status : {"active", "paused"}, last : Time \cup {None}]
NoRow == [status |-> "none", last |-> None]
NewRow == [status |-> "active", last |-> None]
Filling == [of : Schedules, from : Time, to : Time]

NoCall == [op |-> "none", of |-> None, copy |-> NoRow, left |-> {}, range |-> <<0, 0>>]
Idle == [phase |-> "idle", at |-> 0, todo |-> [d \in {} |-> NewRow], of |-> None]

Init ==
  /\ now = 0
  /\ row \in [Schedules -> {NoRow, NewRow}]
  /\ round = [p \in Supervisors |-> Idle]
  /\ call = [u \in Users |-> NoCall]
  /\ fires = [d \in Schedules |-> [i \in Time |-> 0]]
  /\ filled = [d \in Schedules |-> {}]
  /\ first = [d \in Schedules |-> None]
  /\ promised = {}
  /\ disturbed = {}
  /\ stopped = {}
  /\ budget = Budget

Spend == budget > 0 /\ budget' = budget - 1

Exists(d) == row[d] # NoRow
Active(d) == row[d].status = "active"

\* The instants after from, until to.
Window(d, from, to) == {i \in Cron[d] : from < i /\ i <= to}

\* A supervisor holds a copy of the row, or a user does.
Held(d) == \E p \in Supervisors : d \in DOMAIN round[p].todo
Tick ==
  /\ now < MaxTime
  /\ now' = now + 1
  /\ UNCHANGED <<row, round, call, fires, filled, histories, budget>>
-----------------------------------------------------------------------------
(* A round of schedule_supervisor: reconcile_schedules.                    *)

Listed_All == {d \in Schedules : Exists(d)}
Listed == {d \in Schedules : Active(d)}

List(p) ==
  /\ round[p] = Idle
  /\ Listed # {}
  /\ round' = [round EXCEPT ![p].phase = "clock", ![p].todo = [d \in Listed |-> row[d]]]
  /\ disturbed' = disturbed \cup {d \in Listed : Held(d)}
  /\ UNCHANGED <<now, row, call, fires, filled, first, promised, stopped, budget>>

\* The clock is read once the rows are here.
Clock(p) ==
  /\ round[p].phase = "clock"
  /\ round' = [round EXCEPT ![p].phase = "scan", ![p].at = now]
  /\ UNCHANGED <<now, row, call, fires, filled, histories, budget>>

Last_Second(p, d) == IF round[p].at = 0 THEN 0 ELSE round[p].at - 1

\* A row that was never saved by a round looks back one second.
Last(p, d) ==
  LET last == round[p].todo[d].last
      t == round[p].at
  IN IF last # None THEN last ELSE IF t = 0 THEN 0 ELSE t - 1

ShouldFire(p, d) == Window(d, Last(p, d), round[p].at) # {}

Without_Ends(p, d) ==
  [round[p] EXCEPT !.phase = "scan", !.of = None, !.todo = Restrict(@, DOMAIN round[p].todo \ {d})]

\* The round without the row of d, or its end.
Without(p, d) ==
  IF DOMAIN round[p].todo = {d} THEN Idle
  ELSE [round[p] EXCEPT !.phase = "scan", !.of = None,
                        !.todo = Restrict(@, DOMAIN round[p].todo \ {d})]

\* The next row is not due.
Skip(p, d) ==
  /\ round[p].phase = "scan" /\ d \in DOMAIN round[p].todo
  /\ ~ShouldFire(p, d)
  /\ round' = [round EXCEPT ![p] = Without(p, d)]
  /\ UNCHANGED <<now, row, call, fires, filled, histories, budget>>

\* The next row is due: the supervisor sleeps for a while before it enqueues.
Choose(p, d) ==
  /\ round[p].phase = "scan" /\ d \in DOMAIN round[p].todo
  /\ ShouldFire(p, d)
  /\ round' = [round EXCEPT ![p].phase = "enqueue", ![p].of = d]
  /\ UNCHANGED <<now, row, call, fires, filled, histories, budget>>

\* The id of the workflow has the time of the round, so that no two rounds share one.
Fired(p) ==
  LET d == round[p].of IN
  fires' = [fires EXCEPT ![d] =
    [i \in Time |-> @[i] + (IF i \in Window(d, Last(p, d), round[p].at) THEN 1 ELSE 0)]]

Enqueue(p) ==
  /\ round[p].phase = "enqueue"
  /\ Fired(p)
  /\ round' = [round EXCEPT ![p].phase = "save"]
  /\ UNCHANGED <<now, row, call, filled, histories, budget>>

FiredAt_Now(p) == now
FiredAt(p) == round[p].at

SaveRow_Fresh(p) ==
  LET d == round[p].of IN
  /\ row' = [row EXCEPT ![d].last = FiredAt(p)]
  /\ first' = [first EXCEPT ![d] = IF round[p].todo[d].last = None THEN now ELSE @]
  /\ stopped' = stopped \ {d}

\* The row that was listed is upserted with the time of the round.
SaveRow(p) ==
  LET d == round[p].of IN
  /\ row' = [row EXCEPT ![d] = [round[p].todo[d] EXCEPT !.last = FiredAt(p)]]
  /\ first' = [first EXCEPT ![d] = IF round[p].todo[d].last = None THEN now ELSE @]
  /\ stopped' = stopped \ {d}

Save(p) ==
  /\ round[p].phase = "save"
  /\ SaveRow(p)
  /\ round' = [round EXCEPT ![p] = Without(p, round[p].of)]
  /\ UNCHANGED <<now, call, fires, filled, promised, disturbed, budget>>

\* A store call of the round fails, applied or not: the rest of the round is given up.
Fail(p) ==
  /\ round[p].phase \in {"enqueue", "save"}
  /\ Spend
  /\ \/ UNCHANGED <<fires, row, first, stopped>>
     \/ round[p].phase = "enqueue" /\ Fired(p) /\ UNCHANGED <<row, first, stopped>>
     \/ round[p].phase = "save" /\ SaveRow(p) /\ UNCHANGED fires
  /\ disturbed' = disturbed \cup {round[p].of}
  /\ round' = [round EXCEPT ![p] = Idle]
  /\ UNCHANGED <<now, call, filled, promised>>

\* The process dies, or is shut down, which aborts the supervisor; it is launched again.
Crash(p) ==
  /\ DOMAIN round[p].todo # {}
  /\ Spend
  /\ disturbed' = IF round[p].phase = "save" THEN disturbed \cup {round[p].of} ELSE disturbed
  /\ round' = [round EXCEPT ![p] = Idle]
  /\ UNCHANGED <<now, row, call, fires, filled, first, promised, stopped>>
-----------------------------------------------------------------------------
(* The operations of users.                                                *)

\* A row that a user writes while no one else holds a copy stays as it is.
Quiet(u, d) == ~Held(d) /\ \A v \in Users \ {u} : call[v].of # d

\* create_schedule overwrites the row there is.
Create(u, d) ==
  /\ call[u] = NoCall
  /\ Spend
  /\ row' = [row EXCEPT ![d] = NewRow]
  /\ first' = [first EXCEPT ![d] = None]
  /\ disturbed' = IF \E i \in Time : fires[d][i] > 0 THEN disturbed \cup {d} ELSE disturbed
  /\ stopped' = stopped \ {d}
  /\ UNCHANGED <<now, round, call, fires, filled, promised>>

Delete(u, d) ==
  /\ call[u] = NoCall
  /\ Exists(d)
  /\ Spend
  /\ row' = [row EXCEPT ![d] = NoRow]
  /\ first' = [first EXCEPT ![d] = None]
  /\ stopped' = IF Quiet(u, d) THEN stopped \cup {d} ELSE stopped
  /\ UNCHANGED <<now, round, call, fires, filled, promised, disturbed>>

\* pause, resume, trigger and backfill get the row first.  The instants of a backfill
\* are after its start, until its end.
Get(u, d) ==
  /\ call[u] = NoCall
  /\ Exists(d)
  /\ Spend
  /\ \/ \E op \in {"pause", "resume", "trigger"} :
          call' = [call EXCEPT ![u] = [NoCall EXCEPT !.op = op, !.of = d, !.copy = row[d]]]
     \/ \E range \in Ranges :
          call' = [call EXCEPT ![u] = [NoCall EXCEPT !.op = "backfill", !.of = d, !.copy = row[d],
                     !.left = Window(d, range[1], range[2]), !.range = range]]
  /\ stopped' = IF call'[u].op = "resume" THEN stopped \ {d} ELSE stopped
  /\ UNCHANGED <<now, row, round, fires, filled, first, promised, disturbed>>

Return(u) == call' = [call EXCEPT ![u] = NoCall]

\* The whole row is upserted: it loses what was saved since it was read.
SetStatus(u) ==
  LET d == call[u].of
      pause == call[u].op = "pause"
  IN
  /\ call[u].op \in {"pause", "resume"}
  /\ row' = [row EXCEPT ![d] = [call[u].copy EXCEPT !.status = IF pause THEN "paused" ELSE "active"]]
  /\ disturbed' = IF Exists(d) /\ call[u].copy.last = row[d].last THEN disturbed ELSE disturbed \cup {d}
  /\ stopped' = IF pause /\ Quiet(u, d) THEN stopped \cup {d} ELSE stopped \ {d}
  /\ first' = IF call[u].copy.last = None THEN [first EXCEPT ![d] = None] ELSE first
  /\ Return(u)
  /\ UNCHANGED <<now, round, fires, filled, promised, budget>>

\* The workflow of a trigger has an id of its own, with the time of the call.
Trigger(u) ==
  /\ call[u].op = "trigger"
  /\ Return(u)
  /\ UNCHANGED <<now, row, round, fires, filled, histories, budget>>

\* The id of the workflow has the instant: it is inserted once, whoever asks again.
Backfill(u) ==
  /\ call[u].op = "backfill"
  /\ \E i \in call[u].left :
       /\ \A j \in call[u].left : i <= j
       /\ filled' = [filled EXCEPT ![call[u].of] = @ \cup {i}]
       /\ call' = [call EXCEPT ![u].left = @ \ {i}]
  /\ UNCHANGED <<now, row, round, fires, histories, budget>>

BackfillEnds(u) ==
  /\ call[u].op = "backfill" /\ call[u].left = {}
  /\ promised' = promised \cup
       {[of |-> call[u].of, from |-> call[u].range[1], to |-> call[u].range[2]]}
  /\ Return(u)
  /\ UNCHANGED <<now, row, round, fires, filled, first, disturbed, stopped, budget>>

GivesUp_KeepsOn(u) == call' = [call EXCEPT ![u].left = {}]
GivesUp(u) == Return(u)

\* An insert of a backfill fails: the rest of it is given up.
BackfillFails(u) ==
  /\ call[u].op = "backfill" /\ call[u].left # {}
  /\ Spend
  /\ GivesUp(u)
  /\ UNCHANGED <<now, row, round, fires, filled, histories>>
-----------------------------------------------------------------------------
Reconcile(p) ==
  \/ List(p) \/ Clock(p) \/ Enqueue(p) \/ Save(p)
  \/ \E d \in Schedules : Skip(p, d) \/ Choose(p, d)

Operation(u) ==
  \/ \E d \in Schedules : Create(u, d) \/ Delete(u, d) \/ Get(u, d)
  \/ SetStatus(u) \/ Trigger(u) \/ Backfill(u) \/ BackfillEnds(u) \/ BackfillFails(u)

Next ==
  \/ Tick
  \/ \E p \in Supervisors : Reconcile(p) \/ Fail(p) \/ Crash(p)
  \/ \E u \in Users : Operation(u)

\* The clock moves, and a supervisor that is launched goes on polling.
Fairness == WF_vars(Tick) /\ \A p \in Supervisors : WF_vars(Reconcile(p))

Spec == Init /\ [][Next]_vars /\ Fairness
-----------------------------------------------------------------------------
Round == [phase : {"idle", "clock", "scan", "enqueue", "save"}, at : Time,
          todo : UNION {[D -> Row] : D \in SUBSET Schedules}, of : Schedules \cup {None}]
Call == [op : {"none", "pause", "resume", "trigger", "backfill"}, of : Schedules \cup {None},
         copy : Row \cup {NoRow}, left : SUBSET Time, range : Time \X Time]

TypeOK ==
  /\ now \in Time
  /\ row \in [Schedules -> Row \cup {NoRow}]
  /\ round \in [Supervisors -> Round]
  /\ call \in [Users -> Call]
  /\ fires \in [Schedules -> [Time -> Nat]]
  /\ filled \in [Schedules -> SUBSET Time]
  /\ first \in [Schedules -> Time \cup {None}]
  /\ promised \subseteq Filling
  /\ disturbed \subseteq Schedules /\ stopped \subseteq Schedules
  /\ budget \in Nat

\* No instant is fired for twice.  It takes a broken round, two supervisors that hold one
\* row, a create over the row, or a pause or resume that writes back an older time or a row
\* that was deleted.
FiredOnce ==
  \A d \in Schedules \ disturbed : \A i \in Cron[d] : fires[d][i] <= 1

\* Once it has a time, a schedule leaves no instant out that its row has passed, whatever
\* rounds, crashes, pauses and stale writes have come between.
NoGap ==
  \A d \in Schedules :
    first[d] # None /\ row[d].last # None =>
      \A i \in Window(d, first[d], row[d].last) : fires[d][i] > 0

\* A schedule that was paused or deleted while no copy of it was held is not active, and no
\* round has it, until it is resumed or created.
StopHolds == \A d \in stopped : ~Active(d) /\ ~Held(d)

\* A backfill that was answered without an error has a workflow for every instant.
BackfillWhole == \A f \in promised : Window(f.of, f.from, f.to) \subseteq filled[f.of]

\* The row has a time, and so has every copy that a supervisor holds.
Timed(d) ==
  row[d].last # None /\ \A p \in Supervisors : d \in DOMAIN round[p].todo => round[p].todo[d].last # None

\* A schedule is active, and an instant that its row has not passed has no workflow.
Behind(d) ==
  Active(d) /\ Timed(d) /\ \E i \in Window(d, row[d].last, now) : fires[d][i] = 0

\* A schedule that is behind is caught up with, whatever rounds are broken and stale rows
\* written, unless it is stopped or a row without a time is written back.
CaughtUp == \A d \in Schedules : Behind(d) ~> ~Behind(d)
=============================================================================
