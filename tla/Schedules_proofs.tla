---------------------------- MODULE Schedules_proofs ----------------------------
(***************************************************************************)
(* Theorems about Schedules, for every value of its constants: types, that *)
(* no instant is skipped and none is fired for twice, that a stop holds,   *)
(* and that a backfill is whole.                                           *)
(***************************************************************************)
EXTENDS Schedules, TLAPS

\* What is under way has what it needs.
Shape ==
  /\ \A p \in Supervisors :
       /\ round[p].phase \in {"enqueue", "save"} => round[p].of \in DOMAIN round[p].todo
       /\ round[p].at <= now
  /\ \A u \in Users :
       /\ call[u].op # "none" => call[u].of \in Schedules /\ call[u].copy \in Row
       /\ call[u].op = "none" => call[u] = NoCall

Typed == TypeOK /\ Shape

-----------------------------------------------------------------------------
(* Types.                                                                  *)

\* The rows that a round has are a function to rows.
LEMMA RowsOfRound ==
  ASSUME TypeOK, NEW p \in Supervisors
  PROVE  /\ DOMAIN round[p].todo \subseteq Schedules
         /\ round[p].todo \in [DOMAIN round[p].todo -> Row]
         /\ \A d \in DOMAIN round[p].todo : d \in Schedules /\ round[p].todo[d] \in Row
<1>1. round[p].todo \in UNION {[D -> Row] : D \in SUBSET Schedules}
  BY DEF TypeOK, Round
<1>2. PICK D \in SUBSET Schedules : round[p].todo \in [D -> Row]
  BY <1>1
<1>3. DOMAIN round[p].todo = D
  BY <1>2
<1>4. QED
  BY <1>2, <1>3

\* A function from schedules to rows is what a round may have.
LEMMA RoundRows ==
  ASSUME NEW D \in SUBSET Schedules, NEW f \in [D -> Row]
  PROVE  f \in UNION {[E -> Row] : E \in SUBSET Schedules}
OBVIOUS

\* An idle round.
LEMMA IdleRound == Idle \in Round /\ DOMAIN Idle.todo = {} /\ Idle.phase = "idle" /\ Idle.at = 0
<1> DEFINE none == [d \in {} |-> NewRow]
<1>1. none \in [{} -> Row]
  OBVIOUS
<1>2. none \in UNION {[E -> Row] : E \in SUBSET Schedules}
  BY <1>1, RoundRows
<1>3. 0 \in Time
  BY ScheduleAssumption DEF Time
<1> HIDE DEF none
<1>4. Idle = [phase |-> "idle", at |-> 0, todo |-> none, of |-> None]
  BY DEF Idle, none
<1>5. DOMAIN none = {}
  BY <1>1
<1>6. QED
  BY <1>2, <1>3, <1>4, <1>5 DEF Round

\* No call under way.
LEMMA NoCallType == NoCall \in Call
<1>1. 0 \in Time
  BY ScheduleAssumption DEF Time
<1>2. QED
  BY <1>1 DEF NoCall, Call

\* A row and no row are told apart by the status.
LEMMA Rows ==
  /\ NewRow \in Row /\ NewRow.last = None
  /\ NoRow \notin Row /\ NoRow.last = None /\ NoRow.status = "none"
BY DEF NewRow, NoRow, Row

\* A round without one of its rows.
LEMMA WithoutRow ==
  ASSUME TypeOK, NEW p \in Supervisors, NEW d \in DOMAIN round[p].todo
  PROVE  /\ Without(p, d) \in Round
         /\ DOMAIN Without(p, d).todo = DOMAIN round[p].todo \ {d}
         /\ \A e \in DOMAIN Without(p, d).todo : Without(p, d).todo[e] = round[p].todo[e]
         /\ Without(p, d).phase \in {"idle", "scan"}
         /\ Without(p, d).at \in {0, round[p].at}
         /\ Without(p, d).phase = "scan" => Without(p, d).at = round[p].at
<1>1. CASE DOMAIN round[p].todo = {d}
  BY <1>1, IdleRound DEF Without
<1>2. CASE DOMAIN round[p].todo # {d}
  <2> DEFINE rest == Restrict(round[p].todo, DOMAIN round[p].todo \ {d})
  <2>1. /\ DOMAIN round[p].todo \ {d} \in SUBSET Schedules
        /\ rest \in [DOMAIN round[p].todo \ {d} -> Row]
        /\ DOMAIN rest = DOMAIN round[p].todo \ {d}
        /\ \A e \in DOMAIN rest : rest[e] = round[p].todo[e]
    BY RowsOfRound DEF Restrict
  <2>2. rest \in UNION {[E -> Row] : E \in SUBSET Schedules}
    BY <2>1, RoundRows
  <2> HIDE DEF rest
  <2>3. round[p] \in Round
    BY DEF TypeOK
  <2>4. Without(p, d) = [round[p] EXCEPT !.phase = "scan", !.of = None, !.todo = rest]
    BY <1>2, <2>3 DEF Without, rest, Round
  <2>5. QED
    BY <2>1, <2>2, <2>3, <2>4 DEF Round
<1>3. QED
  BY <1>1, <1>2
-----------------------------------------------------------------------------
(* Types.                                                                  *)

\* The first state.
LEMMA InitTyped == Init => Typed
<1> SUFFICES ASSUME Init PROVE Typed
  OBVIOUS
<1>1. 0 \in Time
  BY ScheduleAssumption DEF Time
<1>2. fires \in [Schedules -> [Time -> Nat]]
  BY DEF Init
<1>3. TypeOK
  BY <1>1, <1>2, IdleRound, NoCallType, Rows, ScheduleAssumption DEF Init, TypeOK
<1>4. Shape
  BY <1>1, IdleRound DEF Init, Shape, NoCall
<1>5. QED
  BY <1>3, <1>4 DEF Typed

\* What a step may leave of the types of the round of a supervisor.
RoundOK(p, r) ==
  /\ r \in Round /\ r.at <= now
  /\ r.phase \in {"enqueue", "save"} => r.of \in DOMAIN r.todo

\* A step that changes the round of one supervisor.
LEMMA RoundTyped ==
  ASSUME Typed, NEW p \in Supervisors, NEW r, RoundOK(p, r),
         round' = [round EXCEPT ![p] = r], UNCHANGED <<now, call>>,
         row' \in [Schedules -> Row \cup {NoRow}],
         fires' \in [Schedules -> [Time -> Nat]],
         UNCHANGED <<filled, promised>>,
         first' \in [Schedules -> Time \cup {None}],
         disturbed' \subseteq Schedules, stopped' \subseteq Schedules,
         budget' \in Nat
  PROVE  Typed'
<1>1. round' \in [Supervisors -> Round] /\ round'[p] = r
  BY DEF Typed, TypeOK, RoundOK
<1>2. \A q \in Supervisors : q # p => round'[q] = round[q]
  BY DEF Typed, TypeOK
<1>3. TypeOK'
  BY <1>1 DEF Typed, TypeOK
<1>4. Shape'
  BY <1>1, <1>2 DEF Typed, Shape, RoundOK
<1>5. QED
  BY <1>3, <1>4 DEF Typed

\* The call of one user changes, and with it the row of a schedule.
LEMMA CallTyped ==
  ASSUME Typed, NEW u \in Users, NEW c \in Call, 
         c.op # "none" => c.of \in Schedules /\ c.copy \in Row,
         c.op = "none" => c = NoCall,
         call' = [call EXCEPT ![u] = c], UNCHANGED <<now, round, fires>>,
         row' \in [Schedules -> Row \cup {NoRow}],
         filled' \in [Schedules -> SUBSET Time],
         first' \in [Schedules -> Time \cup {None}],
         promised' \subseteq Filling,
         disturbed' \subseteq Schedules, stopped' \subseteq Schedules,
         budget' \in Nat
  PROVE  Typed'
<1>1. call' \in [Users -> Call] /\ call'[u] = c
  BY DEF Typed, TypeOK
<1>2. \A v \in Users : v # u => call'[v] = call[v]
  BY DEF Typed, TypeOK
<1>3. TypeOK'
  BY <1>1 DEF Typed, TypeOK
<1>4. Shape'
  BY <1>1, <1>2 DEF Typed, Shape
<1>5. QED
  BY <1>3, <1>4 DEF Typed

\* The row that a round saves, and what it leaves.
LEMMA SavedRow ==
  ASSUME Typed, NEW p \in Supervisors, round[p].of \in DOMAIN round[p].todo, SaveRow(p)
  PROVE  LET d == round[p].of IN
         /\ d \in Schedules
         /\ row' \in [Schedules -> Row \cup {NoRow}]
         /\ row'[d] \in Row
         /\ row'[d].last = round[p].at
         /\ row'[d].status = round[p].todo[d].status
         /\ \A e \in Schedules : e # d => row'[e] = row[e] /\ first'[e] = first[e]
         /\ first' \in [Schedules -> Time \cup {None}]
         /\ first'[d] = IF round[p].todo[d].last = None THEN now ELSE first[d]
         /\ stopped' = stopped \ {d} /\ stopped' \subseteq Schedules
<1> DEFINE d == round[p].of
<1>1. d \in Schedules /\ round[p].todo[d] \in Row /\ round[p] \in Round
  BY RowsOfRound DEF Typed, TypeOK
<1>2. round[p].at \in Time /\ now \in Time
  BY <1>1 DEF Round, Typed, TypeOK
<1>3. [round[p].todo[d] EXCEPT !.last = FiredAt(p)]
        = [status |-> round[p].todo[d].status, last |-> round[p].at]
  BY <1>1, <1>2 DEF Row, FiredAt
<1>4. [round[p].todo[d] EXCEPT !.last = FiredAt(p)] \in Row
  BY <1>1, <1>2, <1>3 DEF Row
<1>5. QED
  BY <1>1, <1>2, <1>3, <1>4 DEF SaveRow, Typed, TypeOK

\* The workflow of a round is counted.
LEMMA FiredTyped ==
  ASSUME Typed, NEW p \in Supervisors, round[p].of \in Schedules, Fired(p)
  PROVE  LET d == round[p].of IN
         /\ fires' \in [Schedules -> [Time -> Nat]]
         /\ \A e \in Schedules : \A i \in Time :
              fires'[e][i] = fires[e][i] +
                (IF e = d /\ i \in Window(d, Last(p, d), round[p].at) THEN 1 ELSE 0)
<1> DEFINE d == round[p].of
           more == [i \in Time |-> fires[d][i] +
                     (IF i \in Window(d, Last(p, d), round[p].at) THEN 1 ELSE 0)]
<1>1. fires' = [fires EXCEPT ![d] = more]
  BY DEF Fired, Typed, TypeOK
<1>2. more \in [Time -> Nat]
  BY DEF Typed, TypeOK
<1>3. QED
  BY <1>1, <1>2 DEF Typed, TypeOK

\* Every step keeps the types.
LEMMA TypedStep == Typed /\ [Next]_vars => Typed'
<1> SUFFICES ASSUME Typed, [Next]_vars PROVE Typed'
  OBVIOUS
<1> USE DEF histories
<1>a. TypeOK /\ Shape
  BY DEF Typed
<1>1. CASE Tick
  <2>1. now' \in Time /\ now' \in Nat /\ now <= now'
    BY <1>1, <1>a, ScheduleAssumption DEF Tick, TypeOK, Time
  <2>2. \A p \in Supervisors : round[p].at \in Nat
    BY <1>a, ScheduleAssumption DEF TypeOK, Round, Time
  <2>3. now \in Nat
    BY <1>a, ScheduleAssumption DEF TypeOK, Time
  <2>4. Shape'
    BY <1>1, <1>a, <2>1, <2>2, <2>3 DEF Tick, Shape
  <2>5. QED
    BY <1>1, <1>a, <2>1, <2>4 DEF Tick, TypeOK, Typed
<1>2. ASSUME NEW p \in Supervisors, List(p) PROVE Typed'
  <2> DEFINE rows == [d \in Listed |-> row[d]]
             r == [round[p] EXCEPT !.phase = "clock", !.todo = rows]
  <2>1. rows \in [Listed -> Row] /\ Listed \subseteq Schedules
    BY <1>a DEF Listed, Active, TypeOK, NoRow
  <2>2. rows \in UNION {[E -> Row] : E \in SUBSET Schedules}
    BY <2>1, RoundRows
  <2>3. round' = [round EXCEPT ![p].phase = "clock", ![p].todo = rows]
    BY <1>2 DEF List
  <2> HIDE DEF rows
  <2>4. round[p] \in Round /\ round' = [round EXCEPT ![p] = r]
    BY <2>3, <1>a DEF TypeOK, Round
  <2>5. RoundOK(p, r)
    BY <2>2, <2>4, <1>a DEF Round, RoundOK, Shape
  <2>6. disturbed' \subseteq Schedules
    BY <1>2, <1>a, <2>1 DEF List, TypeOK
  <2> HIDE DEF r
  <2>7. QED
    BY <1>2, <1>a, <2>4, <2>5, <2>6, RoundTyped DEF List, TypeOK
<1>3. ASSUME NEW p \in Supervisors, Clock(p) PROVE Typed'
  <2> DEFINE r == [round[p] EXCEPT !.phase = "scan", !.at = now]
  <2>1. round' = [round EXCEPT ![p] = r] /\ round[p] \in Round /\ now \in Time
    BY <1>3, <1>a DEF Clock, TypeOK, Round
  <2>2. r \in Round /\ r.phase = "scan" /\ r.at = now
    BY <2>1 DEF Round
  <2>3. now <= now
    BY <2>1, ScheduleAssumption DEF Time
  <2>4. RoundOK(p, r)
    BY <2>2, <2>3 DEF RoundOK
  <2> HIDE DEF r
  <2>5. QED
    BY <1>3, <1>a, <2>1, <2>4, RoundTyped DEF Clock, TypeOK
<1>4. ASSUME NEW p \in Supervisors, NEW d \in Schedules, Skip(p, d) PROVE Typed'
  <2>1. d \in DOMAIN round[p].todo
    BY <1>4 DEF Skip
  <2>2. RoundOK(p, Without(p, d))
    <3>1. 0 <= now
      BY <1>a, ScheduleAssumption DEF TypeOK, Time
    <3>2. QED
      BY <2>1, <3>1, <1>a, WithoutRow DEF RoundOK, Shape
  <2>3. QED
    BY <1>4, <1>a, <2>2, RoundTyped DEF Skip, TypeOK
<1>5. ASSUME NEW p \in Supervisors, NEW d \in Schedules, Choose(p, d) PROVE Typed'
  <2> DEFINE r == [round[p] EXCEPT !.phase = "enqueue", !.of = d]
  <2>1. round' = [round EXCEPT ![p] = r]
    BY <1>5, <1>a DEF Choose, TypeOK, Round
  <2>2. RoundOK(p, r)
    BY <1>5, <1>a DEF Choose, RoundOK, TypeOK, Shape, Round
  <2> HIDE DEF r
  <2>3. QED
    BY <1>5, <1>a, <2>1, <2>2, RoundTyped DEF Choose, TypeOK
<1>6. ASSUME NEW p \in Supervisors, Enqueue(p) PROVE Typed'
  <2> DEFINE r == [round[p] EXCEPT !.phase = "save"]
  <2>1. round' = [round EXCEPT ![p] = r]
    BY <1>6, <1>a DEF Enqueue, TypeOK, Round
  <2>2. RoundOK(p, r)
    BY <1>6, <1>a DEF Enqueue, RoundOK, TypeOK, Shape, Round
  <2>3. round[p].of \in Schedules /\ Fired(p)
    BY <1>6, <1>a, RowsOfRound DEF Enqueue, Shape
  <2>4. fires' \in [Schedules -> [Time -> Nat]]
    BY <2>3, FiredTyped
  <2> HIDE DEF r
  <2>5. QED
    BY <1>6, <1>a, <2>1, <2>2, <2>4, RoundTyped DEF Enqueue, TypeOK
<1>7. ASSUME NEW p \in Supervisors, Save(p) PROVE Typed'
  <2>1. round[p].of \in DOMAIN round[p].todo /\ SaveRow(p)
    BY <1>7, <1>a DEF Save, Shape
  <2>2. RoundOK(p, Without(p, round[p].of))
    <3>1. 0 <= now
      BY <1>a, ScheduleAssumption DEF TypeOK, Time
    <3>2. QED
      BY <2>1, <3>1, <1>a, WithoutRow DEF RoundOK, Shape
  <2>3. /\ row' \in [Schedules -> Row \cup {NoRow}] /\ first' \in [Schedules -> Time \cup {None}]
        /\ stopped' \subseteq Schedules
    BY <2>1, SavedRow
  <2>4. QED
    BY <1>7, <1>a, <2>2, <2>3, RoundTyped DEF Save, TypeOK
<1>8. ASSUME NEW p \in Supervisors, Fail(p) PROVE Typed'
  <2>1. round[p].of \in DOMAIN round[p].todo /\ round[p].of \in Schedules
    BY <1>8, <1>a, RowsOfRound DEF Fail, Shape
  <2>2. RoundOK(p, Idle)
    BY <1>a, IdleRound, ScheduleAssumption DEF RoundOK, TypeOK, Time
  <2>3. /\ row' \in [Schedules -> Row \cup {NoRow}] /\ first' \in [Schedules -> Time \cup {None}]
        /\ stopped' \subseteq Schedules /\ fires' \in [Schedules -> [Time -> Nat]]
    <3>1. CASE UNCHANGED <<fires, row, first, stopped>>
      BY <3>1, <1>a DEF TypeOK
    <3>2. CASE Fired(p) /\ UNCHANGED <<row, first, stopped>>
      BY <3>2, <1>a, <2>1, FiredTyped DEF TypeOK
    <3>3. CASE SaveRow(p) /\ UNCHANGED fires
      BY <3>3, <1>a, <2>1, SavedRow DEF TypeOK
    <3>4. QED
      BY <1>8, <3>1, <3>2, <3>3 DEF Fail
  <2>4. budget' \in Nat /\ disturbed' \subseteq Schedules
    BY <1>8, <1>a, <2>1 DEF Fail, Spend, TypeOK
  <2>5. QED
    BY <1>8, <2>2, <2>3, <2>4, RoundTyped DEF Fail
<1>9. ASSUME NEW p \in Supervisors, Crash(p) PROVE Typed'
  <2>1. round[p].phase = "save" => round[p].of \in Schedules
    BY <1>a, RowsOfRound DEF Shape
  <2>2. RoundOK(p, Idle)
    BY <1>a, IdleRound, ScheduleAssumption DEF RoundOK, TypeOK, Time
  <2>3. budget' \in Nat /\ disturbed' \subseteq Schedules
    BY <1>9, <1>a, <2>1 DEF Crash, Spend, TypeOK
  <2>4. QED
    BY <1>9, <1>a, <2>2, <2>3, RoundTyped DEF Crash, TypeOK
<1>10. ASSUME NEW u \in Users, NEW d \in Schedules, Create(u, d) PROVE Typed'
  <2>1. row' \in [Schedules -> Row \cup {NoRow}] /\ budget' \in Nat
    BY <1>10, <1>a, Rows DEF Create, Spend, TypeOK
  <2>2. /\ first' \in [Schedules -> Time \cup {None}] /\ disturbed' \subseteq Schedules
        /\ stopped' \subseteq Schedules
    BY <1>10, <1>a DEF Create, TypeOK
  <2>3. Shape'
    BY <1>10, <1>a DEF Create, Shape
  <2>4. QED
    BY <1>10, <1>a, <2>1, <2>2, <2>3 DEF Create, TypeOK, Typed
<1>11. ASSUME NEW u \in Users, NEW d \in Schedules, Delete(u, d) PROVE Typed'
  <2>1. row' \in [Schedules -> Row \cup {NoRow}] /\ budget' \in Nat
    BY <1>11, <1>a DEF Delete, Spend, TypeOK
  <2>2. first' \in [Schedules -> Time \cup {None}] /\ stopped' \subseteq Schedules
    BY <1>11, <1>a DEF Delete, TypeOK
  <2>3. Shape'
    BY <1>11, <1>a DEF Delete, Shape
  <2>4. QED
    BY <1>11, <1>a, <2>1, <2>2, <2>3 DEF Delete, TypeOK, Typed
<1>12. ASSUME NEW u \in Users, NEW d \in Schedules, Get(u, d) PROVE Typed'
  <2>1. row[d] \in Row /\ budget' \in Nat /\ stopped' \subseteq Schedules
    <3>1. Exists(d) /\ Spend /\ stopped' \in {stopped, stopped \ {d}}
      BY <1>12 DEF Get
    <3>2. QED
      BY <3>1, <1>a DEF Exists, Spend, TypeOK
  <2>2. PICK c : /\ call' = [call EXCEPT ![u] = c]
                 /\ \/ \E op \in {"pause", "resume", "trigger"} :
                         c = [NoCall EXCEPT !.op = op, !.of = d, !.copy = row[d]]
                    \/ \E range \in Ranges :
                         c = [NoCall EXCEPT !.op = "backfill", !.of = d, !.copy = row[d],
                                !.left = Window(d, range[1], range[2]), !.range = range]
    BY <1>12 DEF Get
  <2>3. c \in Call /\ c.of = d /\ c.copy = row[d] /\ c.op # "none"
    <3>1. CASE \E op \in {"pause", "resume", "trigger"} :
                 c = [NoCall EXCEPT !.op = op, !.of = d, !.copy = row[d]]
      BY <3>1, <2>1, NoCallType DEF Call
    <3>2. CASE \E range \in Ranges :
                 c = [NoCall EXCEPT !.op = "backfill", !.of = d, !.copy = row[d],
                        !.left = Window(d, range[1], range[2]), !.range = range]
      <4>1. PICK range \in Ranges :
              c = [NoCall EXCEPT !.op = "backfill", !.of = d, !.copy = row[d],
                     !.left = Window(d, range[1], range[2]), !.range = range]
        BY <3>2
      <4>2. range \in Time \X Time /\ Window(d, range[1], range[2]) \in SUBSET Time
        BY ScheduleAssumption DEF Window
      <4>3. QED
        BY <4>1, <4>2, <2>1, NoCallType DEF Call
    <3>3. QED
      BY <2>2, <3>1, <3>2
  <2>4. QED
    BY <1>12, <1>a, <2>1, <2>2, <2>3, CallTyped DEF Get, TypeOK
<1>13. ASSUME NEW u \in Users, SetStatus(u) PROVE Typed'
  <2> DEFINE d == call[u].of
             pause == call[u].op = "pause"
             saved == [call[u].copy EXCEPT !.status = IF pause THEN "paused" ELSE "active"]
  <2>1. d \in Schedules /\ call[u].copy \in Row
    BY <1>13, <1>a DEF SetStatus, Shape
  <2>2. saved \in Row
    BY <2>1 DEF Row
  <2>3. row' = [row EXCEPT ![d] = saved]
    BY <1>13 DEF SetStatus
  <2> HIDE DEF saved
  <2>4. row' \in [Schedules -> Row \cup {NoRow}]
    BY <2>2, <2>3, <1>a DEF TypeOK
  <2>5. /\ first' \in [Schedules -> Time \cup {None}] /\ disturbed' \subseteq Schedules
        /\ stopped' \subseteq Schedules
    BY <1>13, <1>a, <2>1 DEF SetStatus, TypeOK
  <2>6. QED
    BY <1>13, <1>a, <2>4, <2>5, NoCallType, CallTyped DEF SetStatus, Return, TypeOK, NoCall
<1>14. ASSUME NEW u \in Users, Trigger(u) PROVE Typed'
  BY <1>14, <1>a, NoCallType, CallTyped DEF Trigger, Return, TypeOK, NoCall
<1>15. ASSUME NEW u \in Users, Backfill(u) PROVE Typed'
  <2>1. PICK i \in call[u].left :
          /\ filled' = [filled EXCEPT ![call[u].of] = @ \cup {i}]
          /\ call' = [call EXCEPT ![u].left = @ \ {i}]
    BY <1>15 DEF Backfill
  <2> DEFINE c == [call[u] EXCEPT !.left = @ \ {i}]
  <2>2. call[u] \in Call /\ call[u].left \subseteq Time /\ call[u].of \in Schedules /\ call[u].copy \in Row
    BY <1>15, <1>a DEF Backfill, TypeOK, Call, Shape
  <2>3. c \in Call /\ c.of = call[u].of /\ c.copy = call[u].copy /\ c.op = call[u].op /\ c.op # "none"
    BY <2>2, <1>15 DEF Call, Backfill
  <2>4. call' = [call EXCEPT ![u] = c]
    BY <2>1, <1>a DEF TypeOK
  <2>5. filled' \in [Schedules -> SUBSET Time]
    BY <2>1, <2>2, <1>a DEF TypeOK
  <2> HIDE DEF c
  <2>6. QED
    BY <1>15, <1>a, <2>2, <2>3, <2>4, <2>5, CallTyped DEF Backfill, TypeOK
<1>16. ASSUME NEW u \in Users, BackfillEnds(u) PROVE Typed'
  <2>1. promised' \subseteq Filling
    BY <1>16, <1>a DEF BackfillEnds, TypeOK, Shape, Call, Filling
  <2>2. QED
    BY <1>16, <1>a, <2>1, NoCallType, CallTyped DEF BackfillEnds, Return, TypeOK, NoCall
<1>17. ASSUME NEW u \in Users, BackfillFails(u) PROVE Typed'
  <2>1. budget' \in Nat
    BY <1>17, <1>a DEF BackfillFails, Spend, TypeOK
  <2>2. QED
    BY <1>17, <1>a, <2>1, NoCallType, CallTyped DEF BackfillFails, GivesUp, Return, TypeOK, NoCall
<1>18. CASE UNCHANGED vars
  BY <1>18, <1>a DEF vars, TypeOK, Shape, Typed
<1>19. QED
  BY <1>1, <1>2, <1>3, <1>4, <1>5, <1>6, <1>7, <1>8, <1>9, <1>10, <1>11, <1>12, <1>13, <1>14,
     <1>15, <1>16, <1>17, <1>18 DEF Next, Reconcile, Operation
-----------------------------------------------------------------------------
(* No gap.                                                                 *)

\* No instant after from, until to, is without a workflow.
Done(d, from, to) == \A i \in Window(d, from, to) : fires[d][i] > 0

\* A time that a row may have, of a schedule that has nothing left out until then.
Good(d, t) == t <= now /\ (first[d] # None => Done(d, first[d], t))

\* Every row and every copy of a row has a good time or none, and a round that is about to
\* save has fired for what it has passed.
Passed ==
  /\ \A d \in Schedules : row[d].last # None => Good(d, row[d].last)
  /\ \A p \in Supervisors : \A d \in DOMAIN round[p].todo :
       round[p].todo[d].last # None => Good(d, round[p].todo[d].last)
  /\ \A u \in Users :
       call[u].op # "none" /\ call[u].copy.last # None => Good(call[u].of, call[u].copy.last)
  /\ \A p \in Supervisors : round[p].phase = "save" =>
       Done(round[p].of, Last(p, round[p].of), round[p].at)

\* What every step does to the clock, the counts and the histories.
Onward ==
  /\ now <= now'
  /\ \A d \in Schedules : \A i \in Time : fires[d][i] <= fires'[d][i]
  /\ \A d \in Schedules : first'[d] \in {first[d], None, now}

\* A supervisor's round saves the row of d.
Saves(p, d) ==
  /\ round[p].phase = "save" /\ round[p].of = d
  /\ SaveRow(p) /\ UNCHANGED <<now, fires>>

\* Where the time of a row comes from.
RowFrom(d) ==
  \/ row'[d].last \in {None, row[d].last}
  \/ \E u \in Users : call[u].op # "none" /\ call[u].of = d /\ row'[d].last = call[u].copy.last
  \/ \E p \in Supervisors : Saves(p, d)

\* Where the copies come from, and what has been fired.
CopiesFrom ==
  /\ \A p \in Supervisors : \A d \in DOMAIN round'[p].todo :
       \/ d \in DOMAIN round[p].todo /\ round'[p].todo[d] = round[p].todo[d]
       \/ d \in Schedules /\ round'[p].todo[d] = row[d]
  /\ \A u \in Users : call'[u].op # "none" =>
       \/ call[u].op # "none" /\ call'[u].of = call[u].of /\ call'[u].copy = call[u].copy
       \/ call'[u].copy = row[call'[u].of]
  /\ \A p \in Supervisors : round'[p].phase = "save" => round'[p] = round[p] \/ Enqueue(p)

\* A good time stays good.
LEMMA GoodKept ==
  ASSUME Typed, Typed', Onward, NEW d \in Schedules, NEW t \in Time, Good(d, t)
  PROVE  Good(d, t)'
<1>1. t \in Nat /\ now \in Nat /\ now' \in Nat /\ now <= now'
  BY ScheduleAssumption DEF Typed, TypeOK, Time, Onward
<1>2. t <= now'
  BY <1>1 DEF Good
<1>3. ASSUME first'[d] # None, NEW i \in Window(d, first'[d], t) PROVE fires'[d][i] > 0
  <2>1. i \in Time /\ first'[d] < i /\ i <= t
    BY <1>3, ScheduleAssumption DEF Window
  <2>2. i \in Nat
    BY <2>1, ScheduleAssumption DEF Time
  <2>3. first'[d] # now
    BY <2>1, <2>2, <1>1 DEF Good
  <2>4. first'[d] = first[d]
    BY <2>3, <1>3 DEF Onward
  <2>5. fires[d][i] > 0
    BY <2>4, <1>3 DEF Good, Done, Window
  <2>6. fires[d][i] <= fires'[d][i] /\ fires[d][i] \in Nat /\ fires'[d][i] \in Nat
    BY <2>1 DEF Onward, Typed, TypeOK
  <2>7. QED
    BY <2>5, <2>6
<1>4. QED
  BY <1>2, <1>3 DEF Good, Done, Window

\* The time of a round that saves is good.
LEMMA SavedGood ==
  ASSUME Typed, Typed', Passed, NEW p \in Supervisors, NEW d \in Schedules, Saves(p, d),
         NEW t, t = row'[d].last
  PROVE  Good(d, t)'
<1>1. /\ d \in DOMAIN round[p].todo
      /\ t = round[p].at
      /\ first'[d] = IF round[p].todo[d].last = None THEN now ELSE first[d]
  BY SavedRow DEF Saves, Typed, Shape
<1>2. /\ round[p].at \in Time /\ round[p].at <= now
      /\ round[p].todo[d] \in Row
  BY <1>1, RowsOfRound DEF Typed, TypeOK, Shape, Round
<1>3. round[p].at \in Nat /\ now \in Nat
  BY <1>2, ScheduleAssumption DEF Typed, TypeOK, Time
<1>4. ASSUME first'[d] # None, NEW i \in Window(d, first'[d], round[p].at) PROVE fires[d][i] > 0
  <2>1. i \in Cron[d] /\ i \in Nat /\ first'[d] < i /\ i <= round[p].at
    BY <1>4, ScheduleAssumption DEF Window, Time
  <2>2. round[p].todo[d].last # None
    BY <1>1, <1>2, <1>3, <2>1
  <2>3. first'[d] = first[d] /\ Last(p, d) = round[p].todo[d].last
    BY <1>1, <2>2 DEF Last
  <2>4. CASE i <= round[p].todo[d].last
    BY <1>1, <1>4, <2>1, <2>2, <2>3, <2>4 DEF Passed, Good, Done, Window
  <2>5. CASE round[p].todo[d].last < i
    BY <2>1, <2>3, <2>5 DEF Passed, Done, Window, Saves
  <2>6. round[p].todo[d].last \in Nat
    BY <1>2, <2>2, ScheduleAssumption DEF Row, Time
  <2>7. QED
    BY <2>1, <2>4, <2>5, <2>6
<1>5. fires' = fires /\ now' = now
  BY DEF Saves
<1>6. QED
  BY <1>1, <1>2, <1>4, <1>5 DEF Good, Done, Window, Saves

\* What the steps do to the copies.
LEMMA Sources == Typed /\ [Next]_vars => Onward /\ CopiesFrom /\ \A d \in Schedules : RowFrom(d)
<1> SUFFICES ASSUME Typed, [Next]_vars PROVE Onward /\ CopiesFrom /\ \A d \in Schedules : RowFrom(d)
  OBVIOUS
<1> USE DEF histories
<1>a. TypeOK /\ Shape /\ now \in Nat /\ MaxTime \in Nat
  BY ScheduleAssumption DEF Typed, TypeOK, Time
<1>b. \A d \in Schedules : \A i \in Time : fires[d][i] \in Nat /\ fires[d][i] <= fires[d][i]
  BY <1>a DEF TypeOK
<1>c. UNCHANGED <<now, fires, first>> => Onward
  BY <1>a, <1>b DEF Onward
<1>e. ASSUME NEW p \in Supervisors, NEW r, round' = [round EXCEPT ![p] = r], UNCHANGED call,
             \A d \in DOMAIN r.todo : \/ d \in DOMAIN round[p].todo /\ r.todo[d] = round[p].todo[d]
                                      \/ d \in Schedules /\ r.todo[d] = row[d],
             r.phase = "save" => Enqueue(p)
      PROVE  CopiesFrom
  <2>1. round'[p] = r /\ \A q \in Supervisors : q # p => round'[q] = round[q]
    BY <1>a, <1>e DEF TypeOK
  <2>2. QED
    BY <1>e, <2>1 DEF CopiesFrom
<1>1. CASE Tick
  BY <1>1, <1>a, <1>b DEF Tick, Onward, CopiesFrom, RowFrom
<1>2. ASSUME NEW p \in Supervisors, List(p) PROVE Onward /\ CopiesFrom /\ \A d \in Schedules : RowFrom(d)
  <2> DEFINE rows == [d \in Listed |-> row[d]]
             r == [round[p] EXCEPT !.phase = "clock", !.todo = rows]
  <2>1. round' = [round EXCEPT ![p] = r] /\ round[p] \in Round
    BY <1>2, <1>a DEF List, TypeOK, Round
  <2>2. r.todo = rows /\ r.phase = "clock" /\ UNCHANGED call
    BY <1>2, <2>1 DEF Round, List
  <2>3. \A d \in DOMAIN r.todo : d \in Schedules /\ r.todo[d] = row[d]
    BY <2>2 DEF Listed
  <2> HIDE DEF r
  <2>4. CopiesFrom
    BY <2>1, <2>2, <2>3, <1>e
  <2>5. QED
    BY <1>2, <1>c, <2>4 DEF List, RowFrom
<1>3. ASSUME NEW p \in Supervisors, Clock(p) PROVE Onward /\ CopiesFrom /\ \A d \in Schedules : RowFrom(d)
  <2> DEFINE r == [round[p] EXCEPT !.phase = "scan", !.at = now]
  <2>1. round' = [round EXCEPT ![p] = r] /\ round[p] \in Round
    BY <1>3, <1>a DEF Clock, TypeOK, Round
  <2>2. r.todo = round[p].todo /\ r.phase = "scan" /\ UNCHANGED call
    BY <1>3, <2>1 DEF Round, Clock
  <2> HIDE DEF r
  <2>3. CopiesFrom
    BY <2>1, <2>2, <1>e
  <2>4. QED
    BY <1>3, <1>c, <2>3 DEF Clock, RowFrom
<1>4. ASSUME NEW p \in Supervisors, NEW d \in Schedules, Skip(p, d)
      PROVE  Onward /\ CopiesFrom /\ \A e \in Schedules : RowFrom(e)
  <2>1. CopiesFrom
    <3>1. d \in DOMAIN round[p].todo
      BY <1>4 DEF Skip
    <3>2. QED
      BY <1>4, <3>1, <1>a, <1>e, WithoutRow DEF Skip
  <2>2. QED
    BY <1>4, <1>c, <2>1 DEF Skip, RowFrom
<1>5. ASSUME NEW p \in Supervisors, NEW d \in Schedules, Choose(p, d)
      PROVE  Onward /\ CopiesFrom /\ \A e \in Schedules : RowFrom(e)
  <2> DEFINE r == [round[p] EXCEPT !.phase = "enqueue", !.of = d]
  <2>1. round' = [round EXCEPT ![p] = r] /\ round[p] \in Round
    BY <1>5, <1>a DEF Choose, TypeOK, Round
  <2>2. r.todo = round[p].todo /\ r.phase = "enqueue" /\ UNCHANGED call
    BY <1>5, <2>1 DEF Round, Choose
  <2> HIDE DEF r
  <2>3. CopiesFrom
    BY <2>1, <2>2, <1>e
  <2>4. QED
    BY <1>5, <1>c, <2>3 DEF Choose, RowFrom
<1>6. ASSUME NEW p \in Supervisors, Enqueue(p) PROVE Onward /\ CopiesFrom /\ \A d \in Schedules : RowFrom(d)
  <2> DEFINE r == [round[p] EXCEPT !.phase = "save"]
  <2>1. round' = [round EXCEPT ![p] = r] /\ round[p] \in Round
    BY <1>6, <1>a DEF Enqueue, TypeOK, Round
  <2>2. r.todo = round[p].todo /\ UNCHANGED call
    BY <1>6, <2>1 DEF Round, Enqueue
  <2> HIDE DEF r
  <2>3. CopiesFrom
    BY <2>1, <2>2, <1>6, <1>e
  <2>4. Onward
    BY <1>6, <1>a, <1>b, RowsOfRound, FiredTyped DEF Enqueue, Onward, Typed, Shape
  <2>5. QED
    BY <1>6, <2>3, <2>4 DEF Enqueue, RowFrom
<1>7. ASSUME NEW p \in Supervisors, Save(p) PROVE Onward /\ CopiesFrom /\ \A d \in Schedules : RowFrom(d)
  <2>1. round[p].of \in DOMAIN round[p].todo /\ SaveRow(p) /\ round[p].phase = "save"
    BY <1>7, <1>a DEF Save, Shape
  <2>2. CopiesFrom
    BY <1>7, <2>1, <1>a, <1>e, WithoutRow DEF Save
  <2>3. Onward
    BY <1>7, <2>1, <1>a, <1>b, SavedRow DEF Save, Onward
  <2>4. ASSUME NEW d \in Schedules PROVE RowFrom(d)
    BY <1>7, <2>1, SavedRow DEF Save, RowFrom, Saves
  <2>5. QED
    BY <2>2, <2>3, <2>4
<1>8. ASSUME NEW p \in Supervisors, Fail(p) PROVE Onward /\ CopiesFrom /\ \A d \in Schedules : RowFrom(d)
  <2>1. round[p].of \in DOMAIN round[p].todo /\ round[p].of \in Schedules
    BY <1>8, <1>a, RowsOfRound DEF Fail, Shape
  <2>2. CopiesFrom
    BY <1>8, <1>e, IdleRound DEF Fail
  <2>3. CASE UNCHANGED <<fires, row, first, stopped>>
    BY <1>8, <2>2, <2>3, <1>c DEF Fail, RowFrom
  <2>4. CASE Fired(p) /\ UNCHANGED <<row, first, stopped>>
    <3>1. Onward
      BY <1>8, <2>1, <2>4, <1>a, <1>b, FiredTyped DEF Fail, Onward
    <3>2. QED
      BY <2>2, <2>4, <3>1 DEF RowFrom
  <2>5. CASE round[p].phase = "save" /\ SaveRow(p) /\ UNCHANGED fires
    <3>1. Onward
      BY <1>8, <2>1, <2>5, <1>a, <1>b, SavedRow DEF Fail, Onward
    <3>2. ASSUME NEW d \in Schedules PROVE RowFrom(d)
      BY <1>8, <2>1, <2>5, SavedRow DEF Fail, RowFrom, Saves
    <3>3. QED
      BY <2>2, <3>1, <3>2
  <2>6. QED
    BY <1>8, <2>3, <2>4, <2>5 DEF Fail
<1>9. ASSUME NEW p \in Supervisors, Crash(p) PROVE Onward /\ CopiesFrom /\ \A d \in Schedules : RowFrom(d)
  <2>1. CopiesFrom
    BY <1>9, <1>e, IdleRound DEF Crash
  <2>2. QED
    BY <1>9, <2>1, <1>c DEF Crash, RowFrom
<1>10. ASSUME NEW u \in Users, NEW d \in Schedules, Create(u, d) \/ Delete(u, d)
       PROVE  Onward /\ CopiesFrom /\ \A e \in Schedules : RowFrom(e)
  <2>1. Onward
    BY <1>10, <1>a, <1>b DEF Create, Delete, Onward, TypeOK
  <2>2. CopiesFrom
    BY <1>10 DEF Create, Delete, CopiesFrom
  <2>3. \A e \in Schedules : RowFrom(e)
    BY <1>10, <1>a, Rows DEF Create, Delete, RowFrom, TypeOK
  <2>4. QED
    BY <2>1, <2>2, <2>3
<1>11. ASSUME NEW u \in Users, NEW d \in Schedules, Get(u, d)
       PROVE  Onward /\ CopiesFrom /\ \A e \in Schedules : RowFrom(e)
  <2>1. PICK c : /\ call' = [call EXCEPT ![u] = c]
                 /\ \/ \E op \in {"pause", "resume", "trigger"} :
                         c = [NoCall EXCEPT !.op = op, !.of = d, !.copy = row[d]]
                    \/ \E range \in Ranges :
                         c = [NoCall EXCEPT !.op = "backfill", !.of = d, !.copy = row[d],
                                !.left = Window(d, range[1], range[2]), !.range = range]
    BY <1>11 DEF Get
  <2>2. c.of = d /\ c.copy = row[d]
    BY <2>1 DEF NoCall
  <2>3. call'[u] = c /\ \A v \in Users : v # u => call'[v] = call[v]
    BY <2>1, <1>a DEF TypeOK
  <2>4. UNCHANGED <<now, row, round, fires, first>>
    BY <1>11 DEF Get
  <2>5. CopiesFrom
    BY <2>2, <2>3, <2>4 DEF CopiesFrom
  <2>6. QED
    BY <2>4, <2>5, <1>c DEF RowFrom
<1>12. ASSUME NEW u \in Users, SetStatus(u) PROVE Onward /\ CopiesFrom /\ \A d \in Schedules : RowFrom(d)
  <2> DEFINE status == IF call[u].op = "pause" THEN "paused" ELSE "active"
             saved == [call[u].copy EXCEPT !.status = status]
  <2>1. call[u].of \in Schedules /\ call[u].copy \in Row /\ call[u].op # "none"
    BY <1>12, <1>a DEF SetStatus, Shape
  <2>2. saved.last = call[u].copy.last
    BY <2>1 DEF Row
  <2>3. row' = [row EXCEPT ![call[u].of] = saved]
    BY <1>12 DEF SetStatus
  <2> HIDE DEF saved
  <2>4. \A d \in Schedules : RowFrom(d)
    BY <2>1, <2>2, <2>3, <1>a DEF TypeOK, RowFrom
  <2>5. Onward
    BY <1>12, <1>a, <1>b, <2>1 DEF SetStatus, Onward, TypeOK
  <2>6. CopiesFrom
    BY <1>12, <1>a DEF SetStatus, Return, NoCall, CopiesFrom, TypeOK
  <2>7. QED
    BY <2>4, <2>5, <2>6
<1>13. ASSUME NEW u \in Users, Trigger(u) \/ Backfill(u) \/ BackfillEnds(u) \/ BackfillFails(u)
       PROVE  Onward /\ CopiesFrom /\ \A d \in Schedules : RowFrom(d)
  <2>1. UNCHANGED <<now, row, round, fires, first>>
    BY <1>13 DEF Trigger, Backfill, BackfillEnds, BackfillFails
  <2>2. \A v \in Users : v # u => call'[v] = call[v]
    BY <1>13, <1>a DEF Trigger, Backfill, BackfillEnds, BackfillFails, GivesUp, Return, TypeOK
  <2>3. \/ call'[u] = NoCall
        \/ call[u].op # "none" /\ call'[u].of = call[u].of /\ call'[u].copy = call[u].copy
    BY <1>13, <1>a DEF Trigger, Backfill, BackfillEnds, BackfillFails, GivesUp, Return, TypeOK, Call
  <2>4. CopiesFrom
    BY <2>1, <2>2, <2>3 DEF CopiesFrom, NoCall
  <2>5. QED
    BY <2>1, <2>4, <1>c DEF RowFrom
<1>14. CASE UNCHANGED vars
  BY <1>14, <1>c DEF vars, CopiesFrom, RowFrom
<1>15. QED
  BY <1>1, <1>2, <1>3, <1>4, <1>5, <1>6, <1>7, <1>8, <1>9, <1>10, <1>11, <1>12, <1>13, <1>14
     DEF Next, Reconcile, Operation

\* Every step keeps the times of the rows and of their copies good.
LEMMA PassedStep == Typed /\ Passed /\ [Next]_vars => Passed'
<1> SUFFICES ASSUME Typed, Passed, [Next]_vars PROVE Passed'
  OBVIOUS
<1>1. Typed' /\ Onward /\ CopiesFrom /\ \A d \in Schedules : RowFrom(d)
  BY TypedStep, Sources
<1>2. ASSUME NEW d \in Schedules, NEW t \in Time, Good(d, t) PROVE Good(d, t)'
  BY <1>1, <1>2, GoodKept
<1>3. ASSUME NEW d \in Schedules, row[d].last # None
      PROVE  row[d].last \in Time /\ Good(d, row[d].last)
  BY <1>3 DEF Typed, TypeOK, Passed, Row, NoRow
<1>4. ASSUME NEW d \in Schedules, NEW t, t = row'[d].last, t # None PROVE Good(d, t)'
  <2>1. CASE t = row[d].last
    BY <1>2, <1>3, <1>4, <2>1
  <2>2. CASE \E u \in Users : call[u].op # "none" /\ call[u].of = d /\ t = call[u].copy.last
    <3>1. PICK u \in Users : call[u].op # "none" /\ call[u].of = d /\ t = call[u].copy.last
      BY <2>2
    <3>2. t \in Time /\ Good(d, t)
      BY <3>1, <1>4 DEF Typed, Shape, Passed, Row
    <3>3. QED
      BY <3>2, <1>2
  <2>3. CASE \E p \in Supervisors : Saves(p, d)
    BY <1>1, <1>4, <2>3, SavedGood
  <2>4. QED
    BY <1>1, <1>4, <2>1, <2>2, <2>3 DEF RowFrom
<1>5. ASSUME NEW p \in Supervisors, NEW d \in DOMAIN round'[p].todo, NEW t,
             t = round'[p].todo[d].last, t # None
      PROVE  Good(d, t)'
  <2>1. CASE d \in DOMAIN round[p].todo /\ round'[p].todo[d] = round[p].todo[d]
    <3>1. d \in Schedules /\ round[p].todo[d] \in Row /\ Good(d, t)
      BY <1>5, <2>1, RowsOfRound DEF Typed, Passed
    <3>2. t \in Time
      BY <1>5, <2>1, <3>1 DEF Row
    <3>3. QED
      BY <3>1, <3>2, <1>2
  <2>2. CASE d \in Schedules /\ round'[p].todo[d] = row[d]
    BY <1>2, <1>3, <1>5, <2>2
  <2>3. QED
    BY <1>1, <1>5, <2>1, <2>2 DEF CopiesFrom
<1>6. ASSUME NEW u \in Users, NEW d, NEW t, call'[u].op # "none", d = call'[u].of,
             t = call'[u].copy.last, t # None
      PROVE  Good(d, t)'
  <2>1. d \in Schedules
    BY <1>1, <1>6 DEF Typed, Shape
  <2>2. CASE call[u].op # "none" /\ call'[u].of = call[u].of /\ call'[u].copy = call[u].copy
    <3>1. t \in Time /\ Good(d, t)
      BY <1>6, <2>2 DEF Typed, Shape, Passed, Row
    <3>2. QED
      BY <2>1, <3>1, <1>2
  <2>3. CASE call'[u].copy = row[d]
    BY <1>2, <1>3, <1>6, <2>1, <2>3
  <2>4. QED
    BY <1>1, <1>6, <2>2, <2>3 DEF CopiesFrom
<1>7. ASSUME NEW p \in Supervisors, round'[p].phase = "save"
      PROVE  Done(round[p].of, Last(p, round[p].of), round[p].at)'
  <2> DEFINE d == round[p].of
  <2>1. CASE Enqueue(p)
    <3>1. d \in Schedules /\ Fired(p) /\ round[p] \in Round
      BY <2>1, RowsOfRound DEF Enqueue, Typed, TypeOK, Shape
    <3>2. \A i \in Window(d, Last(p, d), round[p].at) : fires'[d][i] > 0
      BY <3>1, FiredTyped, ScheduleAssumption DEF Window, Typed, TypeOK
    <3>3. round'[p] = [round[p] EXCEPT !.phase = "save"]
      BY <2>1, <3>1 DEF Enqueue, Typed, TypeOK, Round
    <3>4. round'[p].of = d /\ round'[p].at = round[p].at /\ round'[p].todo = round[p].todo
      BY <3>1, <3>3 DEF Round
    <3>5. QED
      BY <3>2, <3>4 DEF Done, Window, Last
  <2>2. CASE round'[p] = round[p]
    <3>1. d \in Schedules /\ Done(d, Last(p, d), round[p].at)
      BY <1>7, <2>2, RowsOfRound DEF Typed, Shape, Passed
    <3>2. ASSUME NEW i \in Window(d, Last(p, d), round[p].at) PROVE fires'[d][i] > 0
      <4>1. i \in Time /\ fires[d][i] > 0
        BY <3>1, <3>2, ScheduleAssumption DEF Done, Window
      <4>2. fires[d][i] <= fires'[d][i] /\ fires[d][i] \in Nat /\ fires'[d][i] \in Nat
        BY <1>1, <3>1, <4>1 DEF Onward, Typed, TypeOK
      <4>3. QED
        BY <4>1, <4>2
    <3>3. QED
      BY <2>2, <3>2 DEF Done, Window, Last
  <2>3. QED
    BY <1>1, <1>7, <2>1, <2>2 DEF CopiesFrom
<1>8. QED
  BY <1>4, <1>5, <1>6, <1>7 DEF Passed

\* A good time of a row is one before which nothing has been left out.
LEMMA PassedNoGap == Passed => NoGap
BY DEF Passed, NoGap, Good, Done
-----------------------------------------------------------------------------
(* Stops and backfills.                                                    *)

\* A schedule that is stopped is not active, and neither a round nor a resume has it.
Stops ==
  \A d \in stopped :
    /\ ~Active(d) /\ ~Held(d)
    /\ \A u \in Users : call[u].of = d => call[u].op # "resume"

\* A backfill under way has inserted what it has no longer to.
Backfills ==
  /\ BackfillWhole
  /\ \A u \in Users : call[u].op = "backfill" =>
       Window(call[u].of, call[u].range[1], call[u].range[2]) \subseteq filled[call[u].of] \cup call[u].left

\* Every step keeps what is stopped out of the rounds, and inactive.
LEMMA StopsStep == Typed /\ Stops /\ [Next]_vars => Stops'
<1> SUFFICES ASSUME Typed, Stops, [Next]_vars PROVE Stops'
  OBVIOUS
<1> USE DEF histories
<1>a. TypeOK /\ Shape
  BY DEF Typed
<1>b. ASSUME UNCHANGED <<row, round, call, stopped>> PROVE Stops'
  BY <1>b DEF Stops, Active, Held
<1>c. ASSUME NEW p \in Supervisors, NEW r, round' = [round EXCEPT ![p] = r], UNCHANGED call,
             stopped' \subseteq stopped,
             \A d \in stopped' : row'[d].status # "active" /\ d \notin DOMAIN r.todo
      PROVE  Stops'
  <2>1. round'[p] = r /\ \A q \in Supervisors : q # p => round'[q] = round[q]
    BY <1>a, <1>c DEF TypeOK
  <2>2. QED
    BY <1>c, <2>1 DEF Stops, Active, Held
<1>d. ASSUME NEW p \in Supervisors, NEW d \in stopped PROVE d \notin DOMAIN round[p].todo /\ row[d].status # "active"
  BY DEF Stops, Held, Active
<1>1. CASE Tick
  BY <1>1, <1>b DEF Tick
<1>2. ASSUME NEW p \in Supervisors, List(p) PROVE Stops'
  <2> DEFINE rows == [d \in Listed |-> row[d]]
             r == [round[p] EXCEPT !.phase = "clock", !.todo = rows]
  <2>1. round' = [round EXCEPT ![p] = r] /\ round[p] \in Round
    BY <1>2, <1>a DEF List, TypeOK, Round
  <2>2. DOMAIN r.todo = Listed
    BY <2>1 DEF Round
  <2> HIDE DEF r
  <2>3. QED
    BY <1>2, <2>1, <2>2, <1>c, <1>d DEF List, Listed, Active
<1>3. ASSUME NEW p \in Supervisors, NEW r, round' = [round EXCEPT ![p] = r], UNCHANGED <<row, call, stopped>>,
             DOMAIN r.todo \subseteq DOMAIN round[p].todo
      PROVE  Stops'
  BY <1>3, <1>c, <1>d
<1>4. ASSUME NEW p \in Supervisors, Clock(p) \/ Enqueue(p) PROVE Stops'
  <2>1. round[p] \in Round
    BY <1>a DEF TypeOK
  <2>2. CASE Clock(p)
    <3> DEFINE r == [round[p] EXCEPT !.phase = "scan", !.at = now]
    <3>1. round' = [round EXCEPT ![p] = r] /\ r.todo = round[p].todo
      BY <2>1, <2>2, <1>a DEF Clock, TypeOK, Round
    <3> HIDE DEF r
    <3>2. QED
      BY <2>2, <3>1, <1>3 DEF Clock
  <2>3. CASE Enqueue(p)
    <3> DEFINE r == [round[p] EXCEPT !.phase = "save"]
    <3>1. round' = [round EXCEPT ![p] = r] /\ r.todo = round[p].todo
      BY <2>1, <2>3, <1>a DEF Enqueue, TypeOK, Round
    <3> HIDE DEF r
    <3>2. QED
      BY <2>3, <3>1, <1>3 DEF Enqueue
  <2>4. QED
    BY <1>4, <2>2, <2>3
<1>5. ASSUME NEW p \in Supervisors, NEW d \in Schedules, Skip(p, d) \/ Choose(p, d) PROVE Stops'
  <2>1. d \in DOMAIN round[p].todo /\ UNCHANGED <<row, call, stopped>> /\ round[p] \in Round
    BY <1>5, <1>a DEF Skip, Choose, TypeOK
  <2>2. CASE Skip(p, d)
    <3>1. PICK r : r = Without(p, d)
      OBVIOUS
    <3>2. round' = [round EXCEPT ![p] = r] /\ DOMAIN r.todo = DOMAIN round[p].todo \ {d}
      BY <1>a, <2>1, <2>2, <3>1, WithoutRow DEF Skip
    <3>3. QED
      BY <1>3, <2>1, <3>2
  <2>3. CASE Choose(p, d)
    <3> DEFINE r == [round[p] EXCEPT !.phase = "enqueue", !.of = d]
    <3>1. round' = [round EXCEPT ![p] = r] /\ r.todo = round[p].todo
      BY <2>1, <2>3, <1>a DEF Choose, TypeOK, Round
    <3> HIDE DEF r
    <3>2. QED
      BY <2>1, <3>1, <1>3
  <2>4. QED
    BY <1>5, <2>2, <2>3
<1>6. ASSUME NEW p \in Supervisors, SaveRow(p), round[p].of \in DOMAIN round[p].todo
      PROVE  stopped' \subseteq stopped /\ \A d \in stopped' : row'[d].status # "active"
  BY <1>6, <1>a, <1>d, SavedRow DEF TypeOK
<1>7. ASSUME NEW p \in Supervisors, Save(p) PROVE Stops'
  <2>1. SaveRow(p) /\ round[p].of \in DOMAIN round[p].todo
    BY <1>7, <1>a DEF Save, Shape
  <2>2. DOMAIN Without(p, round[p].of).todo \subseteq DOMAIN round[p].todo
    BY <2>1, <1>a, WithoutRow
  <2>3. QED
    BY <1>7, <2>1, <2>2, <1>c, <1>d, <1>6 DEF Save
<1>8. ASSUME NEW p \in Supervisors, Fail(p) PROVE Stops'
  <2>1. round[p].of \in DOMAIN round[p].todo
    BY <1>8, <1>a DEF Fail, Shape
  <2>2. stopped' \subseteq stopped /\ \A d \in stopped' : row'[d].status # "active"
    <3>1. CASE SaveRow(p)
      BY <2>1, <3>1, <1>6
    <3>2. CASE UNCHANGED <<row, stopped>>
      BY <3>2, <1>d
    <3>3. QED
      BY <1>8, <3>1, <3>2 DEF Fail
  <2>3. QED
    BY <1>8, <2>2, <1>c, IdleRound DEF Fail
<1>9. ASSUME NEW p \in Supervisors, Crash(p) PROVE Stops'
  BY <1>9, <1>3, IdleRound DEF Crash
<1>10. ASSUME NEW u \in Users, NEW d \in Schedules, Create(u, d) PROVE Stops'
  BY <1>10, <1>a DEF Create, Stops, Active, Held, TypeOK
<1>11. ASSUME NEW u \in Users, NEW d \in Schedules, Delete(u, d) PROVE Stops'
  <2>1. ~Active(d)'
    BY <1>11, <1>a DEF Delete, Active, NoRow, TypeOK
  <2>2. CASE Quiet(u, d)
    BY <1>11, <2>1, <2>2, <1>a DEF Delete, Quiet, Stops, Active, Held, TypeOK, NoCall
  <2>3. CASE ~Quiet(u, d)
    BY <1>11, <2>1, <2>3, <1>a DEF Delete, Stops, Active, Held, TypeOK
  <2>4. QED
    BY <2>2, <2>3
<1>12. ASSUME NEW u \in Users, NEW d \in Schedules, Get(u, d) PROVE Stops'
  <2>1. UNCHANGED <<row, round>> /\ call'[u].op = "resume" => stopped' = stopped \ {d}
    BY <1>12 DEF Get
  <2>2. UNCHANGED <<row, round>> /\ stopped' \subseteq stopped
    BY <1>12 DEF Get
  <2>3. PICK c : /\ call' = [call EXCEPT ![u] = c]
                 /\ \/ \E op \in {"pause", "resume", "trigger"} :
                         c = [NoCall EXCEPT !.op = op, !.of = d, !.copy = row[d]]
                    \/ \E range \in Ranges :
                         c = [NoCall EXCEPT !.op = "backfill", !.of = d, !.copy = row[d],
                                !.left = Window(d, range[1], range[2]), !.range = range]
    BY <1>12 DEF Get
  <2>4. c.of = d
    BY <2>3 DEF NoCall
  <2>5. call'[u] = c /\ \A v \in Users : v # u => call'[v] = call[v]
    BY <2>3, <1>a DEF TypeOK
  <2>6. QED
    BY <2>1, <2>2, <2>4, <2>5 DEF Stops, Active, Held
<1>13. ASSUME NEW u \in Users, SetStatus(u) PROVE Stops'
  <2> PICK d : d = call[u].of
    OBVIOUS
  <2> DEFINE status == IF call[u].op = "pause" THEN "paused" ELSE "active"
             saved == [call[u].copy EXCEPT !.status = status]
  <2>1. d \in Schedules /\ call[u].copy \in Row
    BY <1>13, <1>a DEF SetStatus, Shape
  <2>2. saved.status = status
    BY <2>1 DEF Row
  <2>3. row' = [row EXCEPT ![d] = saved]
    BY <1>13 DEF SetStatus
  <2> HIDE DEF saved
  <2>4. row'[d].status = status /\ \A e \in Schedules : e # d => row'[e] = row[e]
    BY <2>1, <2>2, <2>3, <1>a DEF TypeOK
  <2>5. call'[u] = NoCall /\ UNCHANGED round /\ \A v \in Users : v # u => call'[v] = call[v]
    BY <1>13, <1>a DEF SetStatus, Return, TypeOK
  <2>6. CASE call[u].op = "pause" /\ Quiet(u, d)
    <3>1. stopped' = stopped \cup {d}
      BY <1>13, <2>6 DEF SetStatus
    <3>2. ~Held(d)' /\ \A v \in Users : v # u => call'[v].of # d
      BY <2>5, <2>6 DEF Quiet, Held
    <3>3. call'[u].op # "resume" /\ ~Active(d)'
      BY <2>4, <2>5, <2>6 DEF NoCall, Active
    <3>4. ASSUME NEW e \in stopped', e # d
          PROVE  /\ ~Active(e)' /\ ~Held(e)'
                 /\ \A v \in Users : call'[v].of = e => call'[v].op # "resume"
      BY <3>1, <3>3, <3>4, <2>4, <2>5, <1>a DEF Stops, Active, Held, TypeOK
    <3>5. QED
      BY <3>2, <3>3, <3>4 DEF Stops
  <2>7. CASE ~(call[u].op = "pause" /\ Quiet(u, d))
    <3>1. stopped' = stopped \ {d}
      BY <1>13, <2>7 DEF SetStatus
    <3>2. QED
      BY <3>1, <2>4, <2>5, <1>a DEF Stops, Active, Held, NoCall, TypeOK
  <2>8. QED
    BY <2>6, <2>7
<1>14. ASSUME NEW u \in Users, Trigger(u) \/ Backfill(u) \/ BackfillEnds(u) \/ BackfillFails(u)
       PROVE  Stops'
  <2>1. UNCHANGED <<row, round, stopped>>
    BY <1>14 DEF Trigger, Backfill, BackfillEnds, BackfillFails
  <2>2. \A v \in Users : v # u => call'[v] = call[v]
    BY <1>14, <1>a DEF Trigger, Backfill, BackfillEnds, BackfillFails, GivesUp, Return, TypeOK
  <2>3. call'[u].op # "resume"
    BY <1>14, <1>a DEF Trigger, Backfill, BackfillEnds, BackfillFails, GivesUp, Return, NoCall, TypeOK, Call
  <2>4. QED
    BY <2>1, <2>2, <2>3 DEF Stops, Active, Held
<1>15. CASE UNCHANGED vars
  BY <1>15, <1>b DEF vars
<1>16. QED
  BY <1>1, <1>2, <1>4, <1>5, <1>7, <1>8, <1>9, <1>10, <1>11, <1>12, <1>13, <1>14, <1>15
     DEF Next, Reconcile, Operation

\* Every step keeps what the backfills have inserted.
LEMMA BackfillsStep == Typed /\ Backfills /\ [Next]_vars => Backfills'
<1> SUFFICES ASSUME Typed, Backfills, [Next]_vars PROVE Backfills'
  OBVIOUS
<1> USE DEF histories
<1>a. TypeOK /\ Shape
  BY DEF Typed
<1> DEFINE Whole(u) == call[u].op = "backfill" =>
                         Window(call[u].of, call[u].range[1], call[u].range[2])
                           \subseteq filled[call[u].of] \cup call[u].left
<1>b. ASSUME UNCHANGED <<filled, promised>>,
             \A u \in Users : call'[u] = call[u] \/ call'[u].op # "backfill" \/ Whole(u)'
      PROVE  Backfills'
  <2>1. BackfillWhole'
    BY <1>b DEF Backfills, BackfillWhole, Window
  <2>2. ASSUME NEW u \in Users PROVE Whole(u)'
    BY <1>b DEF Backfills, Window
  <2>3. QED
    BY <2>1, <2>2 DEF Backfills
<1>1. CASE Tick \/ (\E p \in Supervisors : Reconcile(p) \/ Fail(p) \/ Crash(p))
             \/ (\E u \in Users : \E d \in Schedules : Create(u, d) \/ Delete(u, d)) \/ UNCHANGED vars
  <2>1. UNCHANGED <<filled, promised, call>>
    BY <1>1 DEF Tick, Reconcile, List, Clock, Enqueue, Save, Skip, Choose, Fail, Crash, Create, Delete, vars
  <2>2. QED
    BY <2>1, <1>b
<1>2. ASSUME NEW u \in Users, NEW d \in Schedules, Get(u, d) PROVE Backfills'
  <2>1. PICK c : /\ call' = [call EXCEPT ![u] = c]
                 /\ \/ \E op \in {"pause", "resume", "trigger"} :
                         c = [NoCall EXCEPT !.op = op, !.of = d, !.copy = row[d]]
                    \/ \E range \in Ranges :
                         c = [NoCall EXCEPT !.op = "backfill", !.of = d, !.copy = row[d],
                                !.left = Window(d, range[1], range[2]), !.range = range]
    BY <1>2 DEF Get
  <2>2. call'[u] = c /\ \A v \in Users : v # u => call'[v] = call[v]
    BY <2>1, <1>a DEF TypeOK
  <2>3. c.op # "backfill" \/ c.left = Window(c.of, c.range[1], c.range[2])
    BY <2>1 DEF NoCall
  <2>4. UNCHANGED <<filled, promised>>
    BY <1>2 DEF Get
  <2>5. c.op # "backfill" \/ Whole(u)'
    BY <2>2, <2>3 DEF Window
  <2>6. QED
    BY <2>2, <2>4, <2>5, <1>b
<1>3. ASSUME NEW u \in Users, SetStatus(u) \/ Trigger(u) \/ BackfillFails(u) PROVE Backfills'
  <2>1. UNCHANGED <<filled, promised>> /\ call'[u] = NoCall /\ \A v \in Users : v # u => call'[v] = call[v]
    BY <1>3, <1>a DEF SetStatus, Trigger, BackfillFails, GivesUp, Return, TypeOK
  <2>2. QED
    BY <2>1, <1>b DEF NoCall
<1>4. ASSUME NEW u \in Users, Backfill(u) PROVE Backfills'
  <2>1. PICK i \in call[u].left :
          /\ filled' = [filled EXCEPT ![call[u].of] = @ \cup {i}]
          /\ call' = [call EXCEPT ![u].left = @ \ {i}]
    BY <1>4 DEF Backfill
  <2>2. call[u] \in Call /\ call[u].of \in Schedules /\ call[u].op = "backfill" /\ UNCHANGED promised
    BY <1>4, <1>a DEF Backfill, TypeOK, Shape
  <2>3. /\ call'[u].of = call[u].of /\ call'[u].range = call[u].range
        /\ call'[u].left = call[u].left \ {i}
        /\ \A v \in Users : v # u => call'[v] = call[v]
    BY <2>1, <2>2, <1>a DEF TypeOK, Call
  <2>4. filled'[call[u].of] = filled[call[u].of] \cup {i} /\ \A d \in Schedules : filled[d] \subseteq filled'[d]
    BY <2>1, <2>2, <1>a DEF TypeOK
  <2>5. ASSUME NEW v \in Users PROVE Whole(v)'
    <3>1. Whole(v)
      BY DEF Backfills
    <3>2. CASE v = u
      BY <3>1, <3>2, <2>2, <2>3, <2>4 DEF Window
    <3>3. CASE v # u
      BY <3>1, <3>3, <2>3, <2>4, <1>a DEF Window, Shape
    <3>4. QED
      BY <3>2, <3>3
  <2>6. BackfillWhole'
    <3>1. \A f \in promised : f.of \in Schedules
      BY <1>a DEF TypeOK, Filling
    <3>2. QED
      BY <3>1, <2>2, <2>4 DEF Backfills, BackfillWhole, Window
  <2>7. QED
    BY <2>5, <2>6 DEF Backfills
<1>5. ASSUME NEW u \in Users, BackfillEnds(u) PROVE Backfills'
  <2> DEFINE f == [of |-> call[u].of, from |-> call[u].range[1], to |-> call[u].range[2]]
  <2>1. /\ promised' = promised \cup {f} /\ UNCHANGED filled
        /\ call'[u] = NoCall /\ \A v \in Users : v # u => call'[v] = call[v]
    BY <1>5, <1>a DEF BackfillEnds, Return, TypeOK
  <2>2. Window(f.of, f.from, f.to) \subseteq filled[f.of]
    BY <1>5 DEF BackfillEnds, Backfills
  <2>3. BackfillWhole'
    BY <2>1, <2>2 DEF Backfills, BackfillWhole, Window
  <2>4. ASSUME NEW v \in Users PROVE Whole(v)'
    BY <2>1 DEF NoCall, Backfills, Window
  <2>5. QED
    BY <2>3, <2>4 DEF Backfills
<1>6. QED
  BY <1>1, <1>2, <1>3, <1>4, <1>5 DEF Next, Operation
-----------------------------------------------------------------------------
(* Fired once.                                                             *)

\* A time, if it is one, is not before an instant.
Passes(t, i) == t # None /\ i <= t

\* A round is about to save the row of d.
Saving(p, d) == round[p].phase = "save" /\ round[p].of = d

\* One round at most has the row of d; no instant was fired for twice; and what was fired
\* for has been passed by the row of d and by the copy of it, or will be when it is saved.
Once(d) ==
  /\ \A p, q \in Supervisors : d \in DOMAIN round[p].todo /\ d \in DOMAIN round[q].todo => p = q
  /\ \A i \in Time : fires[d][i] <= 1
  /\ \A i \in Time : fires[d][i] > 0 =>
       /\ \A p \in Supervisors : d \in DOMAIN round[p].todo =>
            Passes(round[p].todo[d].last, i) \/ (Saving(p, d) /\ i <= round[p].at)
       /\ Exists(d) => Passes(row[d].last, i) \/ \E p \in Supervisors : Saving(p, d)

\* A round is not before the rows that it has.
Ordered ==
  \A p \in Supervisors : round[p].phase \notin {"idle", "clock"} =>
    \A d \in DOMAIN round[p].todo :
      round[p].todo[d].last # None => round[p].todo[d].last <= round[p].at

Firing == Ordered /\ \A d \in Schedules \ disturbed : Once(d)

\* Every step leaves the rounds later than their rows.
LEMMA OrderedStep == Typed /\ Passed /\ Ordered /\ [Next]_vars => Ordered'
<1> SUFFICES ASSUME Typed, Passed, Ordered, [Next]_vars PROVE Ordered'
  OBVIOUS
<1>a. TypeOK /\ Shape
  BY DEF Typed
<1>b. ASSUME UNCHANGED round PROVE Ordered'
  BY <1>b DEF Ordered
<1>c. ASSUME NEW p \in Supervisors, NEW r, round' = [round EXCEPT ![p] = r],
             \/ r.phase \in {"idle", "clock"}
             \/ \A d \in DOMAIN r.todo : r.todo[d].last # None => r.todo[d].last <= r.at
      PROVE  Ordered'
  <2>1. round'[p] = r /\ \A q \in Supervisors : q # p => round'[q] = round[q]
    BY <1>a, <1>c DEF TypeOK
  <2>2. QED
    BY <1>c, <2>1 DEF Ordered
<1>1. ASSUME NEW p \in Supervisors, List(p) PROVE Ordered'
  <2> DEFINE r == [round[p] EXCEPT !.phase = "clock", !.todo = [d \in Listed |-> row[d]]]
  <2>1. round' = [round EXCEPT ![p] = r] /\ round[p] \in Round
    BY <1>1, <1>a DEF List, TypeOK, Round
  <2>2. r.phase = "clock"
    BY <2>1 DEF Round
  <2> HIDE DEF r
  <2>3. QED
    BY <2>1, <2>2, <1>c
<1>2. ASSUME NEW p \in Supervisors, Clock(p) PROVE Ordered'
  <2> DEFINE r == [round[p] EXCEPT !.phase = "scan", !.at = now]
  <2>1. round' = [round EXCEPT ![p] = r] /\ round[p] \in Round
    BY <1>2, <1>a DEF Clock, TypeOK, Round
  <2>2. r.todo = round[p].todo /\ r.at = now
    BY <2>1 DEF Round
  <2> HIDE DEF r
  <2>3. QED
    BY <2>1, <2>2, <1>c DEF Passed, Good
<1>3. ASSUME NEW p \in Supervisors, NEW d \in DOMAIN round[p].todo, round' = [round EXCEPT ![p] = Without(p, d)],
             round[p].phase \in {"scan", "save"}
      PROVE  Ordered'
  BY <1>3, <1>a, <1>c, WithoutRow DEF Ordered
<1>4. ASSUME NEW p \in Supervisors, NEW d \in Schedules, Skip(p, d) PROVE Ordered'
  BY <1>4, <1>3 DEF Skip
<1>5. ASSUME NEW p \in Supervisors, NEW d \in Schedules, Choose(p, d) PROVE Ordered'
  <2> DEFINE r == [round[p] EXCEPT !.phase = "enqueue", !.of = d]
  <2>1. round' = [round EXCEPT ![p] = r] /\ round[p] \in Round /\ round[p].phase = "scan"
    BY <1>5, <1>a DEF Choose, TypeOK, Round
  <2>2. r.todo = round[p].todo /\ r.at = round[p].at
    BY <2>1 DEF Round
  <2> HIDE DEF r
  <2>3. QED
    BY <2>1, <2>2, <1>c DEF Ordered
<1>6. ASSUME NEW p \in Supervisors, Enqueue(p) PROVE Ordered'
  <2> DEFINE r == [round[p] EXCEPT !.phase = "save"]
  <2>1. round' = [round EXCEPT ![p] = r] /\ round[p] \in Round /\ round[p].phase = "enqueue"
    BY <1>6, <1>a DEF Enqueue, TypeOK, Round
  <2>2. r.todo = round[p].todo /\ r.at = round[p].at
    BY <2>1 DEF Round
  <2> HIDE DEF r
  <2>3. QED
    BY <2>1, <2>2, <1>c DEF Ordered
<1>7. ASSUME NEW p \in Supervisors, Save(p) PROVE Ordered'
  BY <1>7, <1>a, <1>3 DEF Save, Shape
<1>8. ASSUME NEW p \in Supervisors, Fail(p) \/ Crash(p) PROVE Ordered'
  BY <1>8, <1>c, IdleRound DEF Fail, Crash
<1>9. CASE Tick \/ (\E u \in Users : Operation(u)) \/ UNCHANGED vars
  BY <1>9, <1>b DEF Tick, Operation, Create, Delete, Get, SetStatus, Trigger, Backfill, BackfillEnds,
     BackfillFails, vars
<1>10. QED
  BY <1>1, <1>2, <1>4, <1>5, <1>6, <1>7, <1>8, <1>9 DEF Next, Reconcile

\* Every step keeps an undisturbed schedule fired once.
LEMMA FiringStep == Typed /\ Passed /\ Firing /\ [Next]_vars => Firing'
<1> SUFFICES ASSUME Typed, Passed, Firing, [Next]_vars, NEW d \in Schedules, d \notin disturbed'
             PROVE  Once(d)'
  BY OrderedStep DEF Firing
<1>a. TypeOK /\ Shape /\ Ordered
  BY DEF Typed, Firing
<1>b. d \notin disturbed
  BY DEF Next, Reconcile, Operation, Tick, List, Clock, Skip, Choose, Enqueue, Save, Fail, Crash, Create,
     Delete, Get, SetStatus, Trigger, Backfill, BackfillEnds, BackfillFails, vars, histories
<1>c. Once(d)
  BY <1>b DEF Firing
<1>d. ASSUME UNCHANGED <<round, fires>>, Exists(d)' => Exists(d) /\ row'[d].last = row[d].last
      PROVE  Once(d)'
  BY <1>c, <1>d DEF Once, Saving
<1>e. ASSUME NEW p \in Supervisors, NEW r, round' = [round EXCEPT ![p] = r], fires'[d] = fires[d], row'[d] = row[d],
             ~Saving(p, d), ~(r.phase = "save" /\ r.of = d),
             d \in DOMAIN r.todo => d \in DOMAIN round[p].todo /\ r.todo[d] = round[p].todo[d]
      PROVE  Once(d)'
  <2>1. round'[p] = r /\ \A q \in Supervisors : q # p => round'[q] = round[q]
    BY <1>a, <1>e DEF TypeOK
  <2>2. \A q \in Supervisors : Saving(q, d)' <=> Saving(q, d)
    BY <1>e, <2>1 DEF Saving
  <2>3. \A p1, q1 \in Supervisors : d \in DOMAIN round'[p1].todo /\ d \in DOMAIN round'[q1].todo => p1 = q1
    BY <1>c, <1>e, <2>1 DEF Once
  <2>4. ASSUME NEW i \in Time, fires'[d][i] > 0, NEW q \in Supervisors, d \in DOMAIN round'[q].todo
        PROVE  Passes(round'[q].todo[d].last, i) \/ (Saving(q, d)' /\ i <= round'[q].at)
    BY <1>c, <1>e, <2>1, <2>2, <2>4 DEF Once
  <2>5. ASSUME NEW i \in Time, fires'[d][i] > 0, Exists(d)'
        PROVE  Passes(row'[d].last, i) \/ \E q \in Supervisors : Saving(q, d)'
    BY <1>c, <1>e, <2>2, <2>5 DEF Once, Exists
  <2>6. QED
    BY <1>c, <1>e, <2>3, <2>4, <2>5 DEF Once, Passes
<1>1. ASSUME NEW p \in Supervisors, List(p) PROVE Once(d)'
  <2> DEFINE rows == [e \in Listed |-> row[e]]
             r == [round[p] EXCEPT !.phase = "clock", !.todo = rows]
  <2>1. round' = [round EXCEPT ![p] = r] /\ round[p] \in Round /\ round[p].phase = "idle"
    <3>1. round[p].phase = "idle"
      BY <1>1, IdleRound DEF List
    <3>2. QED
      BY <3>1, <1>1, <1>a DEF List, TypeOK, Round
  <2>2. r.todo = rows /\ r.phase = "clock"
    BY <2>1 DEF Round
  <2>3. UNCHANGED <<row, fires>> /\ ~Saving(p, d)
    BY <1>1, <2>1 DEF List, Saving
  <2>4. DOMAIN r.todo = Listed /\ \A e \in Listed : r.todo[e] = row[e]
    BY <2>2
  <2> HIDE DEF r
  <2>5. CASE d \notin Listed
    BY <2>1, <2>2, <2>3, <2>4, <2>5, <1>e
  <2>6. CASE d \in Listed
    <3>1. \A q \in Supervisors : d \notin DOMAIN round[q].todo
      BY <1>1, <2>6 DEF List, Held
    <3>2. \A q \in Supervisors : ~Saving(q, d)
      BY <3>1, <1>a DEF Saving, Shape
    <3>3. Exists(d)
      BY <2>6 DEF Listed, Active, Exists, NoRow
    <3>4. round'[p] = r /\ \A q \in Supervisors : q # p => round'[q] = round[q]
      BY <2>1, <1>a DEF TypeOK
    <3>5. \A i \in Time : fires[d][i] > 0 => Passes(row[d].last, i)
      BY <1>c, <3>2, <3>3 DEF Once
    <3>6. \A q \in Supervisors : d \in DOMAIN round'[q].todo => q = p /\ round'[q].todo[d] = row[d]
      BY <2>4, <2>6, <3>1, <3>4
    <3>7. QED
      BY <2>3, <3>5, <3>6, <1>c DEF Once, Passes
  <2>7. QED
    BY <2>5, <2>6
<1>2. ASSUME NEW p \in Supervisors, Clock(p) PROVE Once(d)'
  <2> DEFINE r == [round[p] EXCEPT !.phase = "scan", !.at = now]
  <2>1. round' = [round EXCEPT ![p] = r] /\ round[p] \in Round
    BY <1>2, <1>a DEF Clock, TypeOK, Round
  <2>2. r.todo = round[p].todo /\ r.phase = "scan"
    BY <2>1 DEF Round
  <2>3. /\ UNCHANGED <<row, fires>> /\ ~Saving(p, d)
        /\ ~(r.phase = "save" /\ r.of = d)
    BY <1>2, <2>2 DEF Clock, Saving
  <2> HIDE DEF r
  <2>4. QED
    BY <2>1, <2>2, <2>3, <1>e
<1>3. ASSUME NEW p \in Supervisors, NEW e \in Schedules, Skip(p, e) PROVE Once(d)'
  <2>1. /\ round[p].phase = "scan" /\ e \in DOMAIN round[p].todo
        /\ round' = [round EXCEPT ![p] = Without(p, e)] /\ UNCHANGED <<row, fires>>
    BY <1>3 DEF Skip
  <2>2. PICK r : r = Without(p, e)
    OBVIOUS
  <2>3. /\ DOMAIN r.todo = DOMAIN round[p].todo \ {e} /\ r.phase # "save"
        /\ \A f \in DOMAIN r.todo : r.todo[f] = round[p].todo[f]
    BY <1>a, <2>1, <2>2, WithoutRow
  <2>4. ~Saving(p, d)
    BY <2>1 DEF Saving
  <2>5. QED
    BY <1>e, <2>1, <2>2, <2>3, <2>4
<1>4. ASSUME NEW p \in Supervisors, NEW e \in Schedules, Choose(p, e) PROVE Once(d)'
  <2> DEFINE r == [round[p] EXCEPT !.phase = "enqueue", !.of = e]
  <2>1. round' = [round EXCEPT ![p] = r] /\ round[p] \in Round
    BY <1>4, <1>a DEF Choose, TypeOK, Round
  <2>2. r.todo = round[p].todo /\ r.phase = "enqueue"
    BY <2>1 DEF Round
  <2> HIDE DEF r
  <2>3. QED
    BY <2>1, <2>2, <1>4, <1>e DEF Choose, Saving
<1>5. ASSUME NEW p \in Supervisors, Enqueue(p) PROVE Once(d)'
  <2> DEFINE r == [round[p] EXCEPT !.phase = "save"]
  <2>1. /\ round' = [round EXCEPT ![p] = r] /\ round[p] \in Round /\ round[p].phase = "enqueue"
        /\ Fired(p) /\ UNCHANGED row
    BY <1>5, <1>a DEF Enqueue, TypeOK, Round
  <2>2. r.todo = round[p].todo /\ r.phase = "save" /\ r.of = round[p].of /\ r.at = round[p].at
    BY <2>1 DEF Round
  <2>3. round[p].of \in DOMAIN round[p].todo /\ round[p].of \in Schedules
    BY <2>1, <1>a, RowsOfRound DEF Shape
  <2>4. \A e \in Schedules : \A i \in Time : fires'[e][i] = fires[e][i] +
          (IF e = round[p].of /\ i \in Window(round[p].of, Last(p, round[p].of), round[p].at) THEN 1 ELSE 0)
    BY <2>1, <2>3, FiredTyped
  <2> HIDE DEF r
  <2>5. round'[p] = r /\ \A q \in Supervisors : q # p => round'[q] = round[q]
    BY <2>1, <1>a DEF TypeOK
  <2>6. \A i \in Time : fires[d][i] \in Nat
    BY <1>a DEF TypeOK
  <2>7. CASE d # round[p].of
    <3>1. \A i \in Time : fires'[d][i] = fires[d][i]
      BY <2>4, <2>6, <2>7
    <3>2. fires'[d] = fires[d]
      BY <1>5, <2>3, <2>7, <1>a DEF Enqueue, Fired, TypeOK
    <3>3. QED
      BY <2>1, <2>2, <2>7, <3>2, <1>e DEF Saving
  <2>8. CASE d = round[p].of
    <3>1. \A q \in Supervisors : d \in DOMAIN round[q].todo => q = p
      BY <1>c, <2>3, <2>8 DEF Once
    <3>2. \A i \in Time : fires[d][i] > 0 => Passes(round[p].todo[d].last, i)
      BY <1>c, <2>1, <2>3, <2>8 DEF Once, Saving
    <3>3. ASSUME NEW i \in Time, i \in Window(d, Last(p, d), round[p].at)
          PROVE  fires[d][i] = 0 /\ i <= round[p].at
      <4>1. ~Passes(round[p].todo[d].last, i)
        <5>1. round[p].todo[d].last \in Time \cup {None}
          BY <2>3, <2>8, <1>a, RowsOfRound DEF Row
        <5>2. CASE round[p].todo[d].last # None
          BY <5>1, <5>2, <3>3, ScheduleAssumption DEF Passes, Window, Last, Time
        <5>3. QED
          BY <5>2 DEF Passes
      <4>2. QED
        BY <3>2, <3>3, <4>1, <2>6 DEF Window
    <3>4. \A i \in Time : fires'[d][i] <= 1
      BY <1>c, <2>4, <2>6, <2>8, <3>3 DEF Once
    <3>5. \A i \in Time : fires'[d][i] > 0 => Passes(round[p].todo[d].last, i) \/ i <= round[p].at
      BY <2>4, <2>6, <2>8, <3>2, <3>3
    <3>6. Saving(p, d)'
      BY <2>2, <2>5, <2>8 DEF Saving
    <3>7. \A q \in Supervisors : d \in DOMAIN round'[q].todo => q = p
      BY <3>1, <2>5
    <3>8. QED
      BY <2>2, <2>5, <3>4, <3>5, <3>6, <3>7 DEF Once, Passes
  <2>9. QED
    BY <2>7, <2>8
<1>6. ASSUME NEW p \in Supervisors, Save(p) PROVE Once(d)'
  <2>1. /\ round[p].of \in DOMAIN round[p].todo /\ SaveRow(p) /\ UNCHANGED fires /\ round[p].phase = "save"
        /\ round' = [round EXCEPT ![p] = Without(p, round[p].of)]
    BY <1>6, <1>a DEF Save, Shape
  <2>2. CASE d # round[p].of
    <3>1. row'[d] = row[d]
      BY <2>1, <2>2, SavedRow
    <3>2. QED
      BY <2>1, <2>2, <3>1, <1>a, <1>e, WithoutRow DEF Saving
  <2>3. CASE d = round[p].of
    <3>1. row'[d].last = round[p].at
      BY <2>1, <2>3, SavedRow
    <3>2. round'[p] = Without(p, d) /\ \A q \in Supervisors : q # p => round'[q] = round[q]
      BY <2>1, <2>3, <1>a DEF TypeOK
    <3>3. \A q \in Supervisors : d \notin DOMAIN round'[q].todo
      BY <2>1, <2>3, <3>2, <1>a, <1>c, WithoutRow DEF Once
    <3>4. round[p].at \in Time /\ round[p].at \in Nat
      BY <1>a, ScheduleAssumption DEF TypeOK, Round, Time
    <3>5. ASSUME NEW i \in Time, fires[d][i] > 0 PROVE i <= round[p].at
      <4>1. CASE i <= round[p].at
        BY <4>1
      <4>2. CASE Passes(round[p].todo[d].last, i)
        <5>1. round[p].todo[d].last \in Time /\ round[p].todo[d].last <= round[p].at
          BY <4>2, <2>1, <2>3, <1>a, RowsOfRound DEF Passes, Ordered, Row
        <5>2. i \in Nat /\ round[p].todo[d].last \in Nat
          BY <5>1, ScheduleAssumption DEF Time
        <5>3. QED
          BY <5>1, <5>2, <3>4, <4>2 DEF Passes
      <4>3. QED
        BY <4>1, <4>2, <1>c, <2>1, <2>3, <3>5 DEF Once
    <3>6. round[p].at # None
      BY <3>4, ScheduleAssumption
    <3>7. QED
      BY <2>1, <3>1, <3>3, <3>5, <3>6, <1>c DEF Once, Passes
  <2>4. QED
    BY <2>2, <2>3
<1>7. ASSUME NEW p \in Supervisors, Fail(p) PROVE Once(d)'
  <2>1. round[p].of \in DOMAIN round[p].todo /\ round[p].of \in Schedules /\ d # round[p].of
    BY <1>7, <1>a, RowsOfRound DEF Fail, Shape
  <2>2. fires'[d] = fires[d] /\ row'[d] = row[d]
    <3>1. CASE UNCHANGED <<fires, row, first, stopped>>
      BY <3>1
    <3>2. CASE Fired(p) /\ UNCHANGED <<row, first, stopped>>
      BY <3>2, <2>1, <1>a DEF Fired, TypeOK
    <3>3. CASE SaveRow(p) /\ UNCHANGED fires
      BY <3>3, <2>1, SavedRow
    <3>4. QED
      BY <1>7, <3>1, <3>2, <3>3 DEF Fail
  <2>3. QED
    BY <1>7, <2>1, <2>2, <1>e, IdleRound DEF Fail, Saving
<1>8. ASSUME NEW p \in Supervisors, Crash(p) PROVE Once(d)'
  BY <1>8, <1>e, IdleRound DEF Crash, Saving
<1>9. ASSUME NEW u \in Users, NEW e \in Schedules, Create(u, e) PROVE Once(d)'
  <2>1. UNCHANGED <<round, fires>> /\ row' = [row EXCEPT ![e] = NewRow]
    BY <1>9 DEF Create
  <2>2. CASE d # e
    BY <2>1, <2>2, <1>a, <1>d DEF Exists, TypeOK
  <2>3. CASE d = e
    <3>1. \A i \in Time : ~(fires[d][i] > 0)
      BY <1>9, <2>3, <1>b DEF Create
    <3>2. QED
      BY <2>1, <3>1, <1>c DEF Once
  <2>4. QED
    BY <2>2, <2>3
<1>10. ASSUME NEW u \in Users, NEW e \in Schedules, Delete(u, e) PROVE Once(d)'
  BY <1>10, <1>a, <1>d DEF Delete, Exists, TypeOK
<1>11. ASSUME NEW u \in Users, SetStatus(u) PROVE Once(d)'
  <2> PICK e : e = call[u].of
    OBVIOUS
  <2> DEFINE status == IF call[u].op = "pause" THEN "paused" ELSE "active"
             saved == [call[u].copy EXCEPT !.status = status]
  <2>1. e \in Schedules /\ call[u].copy \in Row /\ UNCHANGED <<round, fires>>
    BY <1>11, <1>a DEF SetStatus, Shape
  <2>2. saved.last = call[u].copy.last
    BY <2>1 DEF Row
  <2>3. row' = [row EXCEPT ![e] = saved]
    BY <1>11 DEF SetStatus
  <2> HIDE DEF saved
  <2>4. CASE d # e
    BY <2>1, <2>3, <2>4, <1>a, <1>d DEF Exists, TypeOK
  <2>5. CASE d = e
    <3>1. Exists(d) /\ call[u].copy.last = row[d].last
      BY <1>11, <2>5 DEF SetStatus
    <3>2. row'[d].last = row[d].last
      BY <2>2, <2>3, <2>5, <3>1, <1>a DEF TypeOK
    <3>3. QED
      BY <2>1, <3>1, <3>2, <1>d
  <2>6. QED
    BY <2>4, <2>5
<1>12. CASE UNCHANGED <<round, fires, row>>
  BY <1>12, <1>d DEF Exists
<1>13. QED
  <2>1. \A u \in Users : \A e \in Schedules : Get(u, e) => UNCHANGED <<round, fires, row>>
    BY DEF Get
  <2>2. \A u \in Users : Trigger(u) \/ Backfill(u) \/ BackfillEnds(u) \/ BackfillFails(u) => UNCHANGED <<round, fires, row>>
    BY DEF Trigger, Backfill, BackfillEnds, BackfillFails
  <2>3. Tick \/ UNCHANGED vars => UNCHANGED <<round, fires, row>>
    BY DEF Tick, vars
  <2>4. QED
    BY <1>1, <1>2, <1>3, <1>4, <1>5, <1>6, <1>7, <1>8, <1>9, <1>10, <1>11, <1>12, <2>1, <2>2, <2>3
       DEF Next, Reconcile, Operation
-----------------------------------------------------------------------------
(* Theorems.                                                               *)

Inv == Typed /\ Passed /\ Stops /\ Backfills /\ Firing

\* The first state satisfies the invariant.
LEMMA InitInv == Init => Inv
<1> SUFFICES ASSUME Init PROVE Inv
  OBVIOUS
<1>1. Typed
  BY InitTyped
<1>2. Passed
  BY IdleRound, Rows DEF Init, Passed, NoCall
<1>3. Stops
  BY DEF Init, Stops
<1>4. Backfills
  BY DEF Init, Backfills, BackfillWhole, NoCall
<1>5. Firing
  BY IdleRound DEF Init, Firing, Ordered, Once
<1>6. QED
  BY <1>1, <1>2, <1>3, <1>4, <1>5 DEF Inv

\* Throughout an execution, the invariant holds.
LEMMA Invariance == Spec => []Inv
<1>1. Inv /\ [Next]_vars => Inv'
  BY TypedStep, PassedStep, StopsStep, BackfillsStep, FiringStep DEF Inv
<1>2. QED
  BY <1>1, InitInv, PTL DEF Spec

\* Every variable keeps its type, for any schedules, supervisors and users.
THEOREM TypeCorrect == Spec => []TypeOK
<1>1. Inv => TypeOK
  BY DEF Inv, Typed
<1>2. QED
  BY <1>1, Invariance, PTL

\* No instant that a row has passed is left out, though every save is of a row that was
\* listed before (reconcile_schedules, update_schedule_status).
THEOREM NothingSkipped == Spec => []NoGap
<1>1. Inv => NoGap
  BY PassedNoGap DEF Inv
<1>2. QED
  BY <1>1, Invariance, PTL

\* An instant is fired for once, of a schedule that no second round, stale write or broken
\* round has touched (reconcile_schedules).
THEOREM NothingTwice == Spec => []FiredOnce
<1>1. Inv => FiredOnce
  BY ScheduleAssumption DEF Inv, Firing, Once, FiredOnce
<1>2. QED
  BY <1>1, Invariance, PTL

\* A schedule that was paused or deleted while nobody held a copy of its row stays stopped
\* (update_schedule_status, delete_schedule).
THEOREM StopsStay == Spec => []StopHolds
<1>1. Inv => StopHolds
  BY DEF Inv, Stops, StopHolds
<1>2. QED
  BY <1>1, Invariance, PTL

\* A backfill that was answered without an error is whole (backfill_schedule).
THEOREM BackfillsWhole == Spec => []BackfillWhole
<1>1. Inv => BackfillWhole
  BY DEF Inv, Backfills
<1>2. QED
  BY <1>1, Invariance, PTL
=============================================================================
