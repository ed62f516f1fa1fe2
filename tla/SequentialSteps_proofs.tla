------------------------- MODULE SequentialSteps_proofs -------------------------
(***************************************************************************)
(* Theorems about StepReplay: what durable steps promise a handler that      *)
(* makes its steps one after the other, for any number of steps, of          *)
(* executions, of crashes and of failures.                                   *)
(***************************************************************************)
EXTENDS StepReplay_proofs
-----------------------------------------------------------------------------
(* Handlers that make their steps one after the other.                      *)

\* No step is spawned and none is made inside another one, and the numbers a call fixes
\* are its own.
SequentialHandler ==
  /\ \A c \in Calls : Body[c].kind = "run" /\ Body[c].inside = 0
  /\ OwnNumbers

\* The calls up to c that take a number from the counter, and the number c is made under.
Before(c) == {d \in 1..c : Body[d].fixed = None}
Place(c) == IF Body[c].fixed # None THEN Body[c].fixed ELSE Cardinality(Before(c))

\* What the assumptions say of the calls of such a handler.
LEMMA SequentialFacts ==
  ASSUME SequentialHandler
  PROVE  /\ Len(Body) \in Nat /\ Calls = 1..Len(Body) /\ Statements = Len(Body)
         /\ \A c \in Calls :
              /\ c \in 1..Statements /\ Body[c].kind = "run"
              /\ Inner(c) = {} /\ Body[c].waits = {}
              /\ \A e \in Executions : Alive(e, c) <=> life[e] = "running"
<1>1. Len(Body) \in Nat /\ Calls = 1..Len(Body) /\ Statements \in 1..Len(Body)
  BY BodyFacts DEF Calls
<1>2. \A c \in Calls : Body[c].kind = "run" /\ Body[c].inside = 0
  BY DEF SequentialHandler
<1>3. \A c \in Calls : c <= Statements
  BY <1>2, BodyAssumption
<1>4. Statements = Len(Body)
  <2>1. Len(Body) \in Calls
    BY <1>1
  <2>2. QED
    BY <1>1, <1>3, <2>1
<1>5. ASSUME NEW c \in Calls
      PROVE  /\ c \in 1..Statements /\ Body[c].kind = "run"
             /\ Inner(c) = {} /\ Body[c].waits = {}
             /\ \A e \in Executions : Alive(e, c) <=> life[e] = "running"
  <2>1. c \in 1..Statements /\ Body[c].kind = "run" /\ c # 0
    BY <1>1, <1>2, <1>4
  <2>2. Inner(c) = {}
    BY <1>2, <2>1 DEF Inner
  <2>3. Body[c].waits = {}
    <3>1. Body[c].waits \subseteq {d \in 1..(Root(c) - 1) : Body[d].kind = "spawn"}
      BY BodyAssumption
    <3>2. Body[c].waits \subseteq Calls
      BY BodyFacts
    <3>3. QED
      BY <1>2, <3>1, <3>2
  <2>4. \A e \in Executions : Alive(e, c) <=> life[e] = "running"
    BY <1>1, <2>1 DEF Alive, Detached, Root
  <2>5. QED
    BY <2>1, <2>2, <2>3, <2>4
<1>6. QED
  BY <1>1, <1>4, <1>5

\* The numbers the counter gives are numbers of calls.
LEMMA BeforeFacts ==
  ASSUME SequentialHandler, NEW c \in Calls
  PROVE  /\ Before(c) \subseteq Calls /\ IsFiniteSet(Before(c))
         /\ Body[c].fixed = None =>
              Cardinality(Before(c)) \in Calls /\ Cardinality(Before(c)) \in 1..Cardinality(CounterCalls)
<1>1. Len(Body) \in Nat /\ Calls = 1..Len(Body) /\ c \in Nat
  BY SequentialFacts
<1>2. Before(c) \subseteq Calls
  BY <1>1 DEF Before
<1>3. IsFiniteSet(Before(c)) /\ Cardinality(Before(c)) \in 0..Len(Body)
  BY <1>2, CallsFinite
<1>4. Cardinality(Before(c)) <= Cardinality(CounterCalls) /\ Cardinality(CounterCalls) \in Nat
  <2>1. Before(c) \in SUBSET CounterCalls /\ CounterCalls \in SUBSET Calls
    BY <1>2 DEF Before, CounterCalls, SequentialHandler
  <2>2. IsFiniteSet(CounterCalls) /\ Cardinality(CounterCalls) \in Nat
    BY <2>1, CallsFinite
  <2>3. QED
    BY <2>1, <2>2, FS_Subset
<1>5. ASSUME Body[c].fixed = None PROVE Cardinality(Before(c)) # 0
  <2>1. c \in Before(c)
    BY <1>1, <1>5 DEF Before
  <2>2. QED
    BY <1>3, <2>1, FS_EmptySet
<1>6. QED
  BY <1>1, <1>2, <1>3, <1>4, <1>5

\* Of two calls that take their number from the counter the later has the larger one.
LEMMA PlacesGrow ==
  ASSUME SequentialHandler, NEW c \in Calls, NEW d \in Calls, c < d,
         Body[c].fixed = None, Body[d].fixed = None
  PROVE  Cardinality(Before(c)) # Cardinality(Before(d))
<1>1. Calls = 1..Len(Body) /\ Len(Body) \in Nat
  BY SequentialFacts
<1>2. Before(c) \in SUBSET Before(d) /\ d \in Before(d) /\ d \notin Before(c)
  BY <1>1 DEF Before
<1>3. IsFiniteSet(Before(d))
  BY BeforeFacts
<1>4. Cardinality(Before(d)) = Cardinality(Before(c)) => Before(d) = Before(c)
  BY <1>2, <1>3, FS_Subset
<1>5. QED
  BY <1>2, <1>4

\* No two calls of such a handler are made under one number.
LEMMA PlaceInjective ==
  ASSUME SequentialHandler
  PROVE  /\ \A c \in Calls : Place(c) \in Ids
         /\ \A c, d \in Calls : Place(c) = Place(d) => c = d
<1>1. \A c \in Calls : Place(c) \in Ids
  BY BodyFacts, BeforeFacts DEF Place, Ids
<1>2. ASSUME NEW c \in Calls, NEW d \in Calls, Place(c) = Place(d), c # d PROVE FALSE
  <2>1. CASE Body[c].fixed = None /\ Body[d].fixed = None
    <3>1. c < d \/ d < c
      BY <1>2, SequentialFacts
    <3>2. QED
      BY <1>2, <2>1, <3>1, PlacesGrow DEF Place
  <2>2. CASE Body[c].fixed # None /\ Body[d].fixed = None
    BY <1>2, <2>2, BeforeFacts DEF Place, SequentialHandler, OwnNumbers
  <2>3. CASE Body[c].fixed = None /\ Body[d].fixed # None
    BY <1>2, <2>3, BeforeFacts DEF Place, SequentialHandler, OwnNumbers
  <2>4. CASE Body[c].fixed # None /\ Body[d].fixed # None
    BY <1>2, <2>4 DEF Place, SequentialHandler, OwnNumbers
  <2>5. QED
    BY <2>1, <2>2, <2>3, <2>4
<1>3. QED
  BY <1>1, <1>2
-----------------------------------------------------------------------------
(* What is true of such a handler at all times.                             *)

\* The calls are made in order, each under its number.
Order ==
  \A e \in Executions, c \in Calls :
    /\ stage[e][c] # "spawned"
    /\ c < next[e] => stage[e][c] = "done"
    /\ c > next[e] => stage[e][c] = "idle"
    /\ stage[e][c] # "idle" => number[e][c] = Place(c)
    /\ life[e] = "unborn" => stage[e][c] = "idle"

\* What an operation of call c may have answered.
Outcome(c, a) == a = Failed \/ \E n \in Nat : a = Ok(<<c, n>>)

\* What call c may have been answered.
Verdict(c, a) ==
  \/ Outcome(c, a)
  \/ a \in {Undecodable, Broken}
  \/ Body[c].nullable /\ a = Ok(Null)

Given ==
  \A e \in Executions, c \in Calls :
    /\ stage[e][c] \notin {"ran", "done"} => answer[e][c] = Nothing
    /\ stage[e][c] = "ran" => Outcome(c, answer[e][c])
    /\ stage[e][c] = "done" => Verdict(c, answer[e][c])

\* A row is an outcome of the call made under its number.
Rows ==
  \A i \in Ids : steps[i] # NoRow =>
    \E c \in Calls : /\ i = Place(c) /\ Outcome(c, steps[i].result)
                     /\ steps[i] = Row(c, steps[i].result)

\* The answer of call c comes from this row.
Held(c, a, row) ==
  /\ row # NoRow
  /\ row.result = a \/ (row.result = Failed /\ Body[c].nullable /\ a = Ok(Null))

\* While no two executions have been alive at the same time an operation is run for a call
\* without a row only, and a value that was answered is on record.
Alone ==
  ~overlapped =>
    /\ \A e, f \in Executions : life[e] = "running" /\ life[f] = "running" => e = f
    /\ \A e \in Executions, c \in Calls :
         /\ life[e] = "running" /\ stage[e][c] \in {"running", "ran"} => steps[Place(c)] = NoRow
         /\ stage[e][c] = "done" /\ answer[e][c].tag = "ok" => Held(c, answer[e][c], steps[Place(c)])

Inv == Typed /\ Order /\ Given /\ Rows /\ Alone

\* The steps of such a handler, told apart by what they do.
Stays ==
  /\ UNCHANGED <<steps, next, stage, number, answer, overlapped>>
  /\ \A f \in Executions : /\ life'[f] = "running" => life[f] = "running"
                           /\ life'[f] = "unborn" => life[f] = "unborn"
Moves(e, c, from, to) ==
  /\ life[e] = "running" /\ next[e] = c /\ stage[e][c] = from
  /\ stage' = [stage EXCEPT ![e][c] = to]
  /\ UNCHANGED <<steps, life, next, overlapped>>
Numbers(e, c) ==
  /\ Moves(e, c, "idle", "numbered")
  /\ number' = [number EXCEPT ![e][c] = Place(c)] /\ answer' = answer
Misses(e, c) ==
  /\ Moves(e, c, "numbered", "running") /\ steps[Place(c)] = NoRow
  /\ UNCHANGED <<number, answer>>
Runs(e, c) ==
  /\ Moves(e, c, "running", "ran") /\ number' = number
  /\ \E a : Outcome(c, a) /\ answer' = [answer EXCEPT ![e][c] = a]
Leaves(e, c, a) ==
  /\ life[e] = "running" /\ next[e] = c /\ Return(e, c, a)
  /\ UNCHANGED <<number, overlapped>>
Replays(e, c) ==
  /\ stage[e][c] = "numbered" /\ steps[Place(c)] # NoRow /\ steps' = steps
  /\ Leaves(e, c, Replayed(c, steps[Place(c)]))
Records(e, c) ==
  /\ stage[e][c] = "ran" /\ steps' = [steps EXCEPT ![Place(c)] = Row(c, answer[e][c])]
  /\ Leaves(e, c, answer[e][c]) \/ Leaves(e, c, Broken)
Faults(e, c) ==
  /\ stage[e][c] \in {"numbered", "ran"} /\ steps' = steps
  /\ Leaves(e, c, Broken)
CallMoves(e, c) ==
  \/ Numbers(e, c) \/ Misses(e, c) \/ Runs(e, c) \/ Replays(e, c) \/ Records(e, c)
  \/ Faults(e, c)

\* A call takes the number of its place.
LEMMA NumbersCase ==
  ASSUME SequentialHandler, Typed, Order, NEW e \in Executions, NEW c \in Calls, NextStepId(e, c)
  PROVE  Numbers(e, c)
<1>1. /\ ControlType /\ NumberType /\ TypeOK /\ Counted
      /\ Calls = 1..Len(Body) /\ Len(Body) \in Nat /\ Statements = Len(Body) /\ c \in 1..Statements
  BY TypeParts, SequentialFacts DEF Typed
<1>2. life[e] = "running" /\ next[e] = c /\ stage[e][c] = "idle"
  BY <1>1, SequentialFacts DEF NextStepId, Reached, Order
<1>3. Moves(e, c, "idle", "numbered") /\ answer' = answer
  BY <1>2 DEF NextStepId, Moves
<1>4. number' = [number EXCEPT ![e][c] = Place(c)]
  <2>1. CASE Body[c].fixed # None
    BY <2>1 DEF NextStepId, Place
  <2>2. CASE Body[c].fixed = None
    <3>1. number' = [number EXCEPT ![e][c] = counter[e] + 1]
      BY <2>2 DEF NextStepId, TakeNumber
    <3>2. counter[e] = Cardinality(Numbered(e))
      BY <1>1 DEF Counted
    <3>3. Numbered(e) \cup {c} = Before(c) /\ c \notin Numbered(e)
      <4>1. \A d \in Calls : d \in Numbered(e) <=> Body[d].fixed = None /\ d < c
        BY <1>1, <1>2, SequentialFacts DEF Numbered, Order
      <4>2. Numbered(e) \subseteq Calls /\ Before(c) \subseteq Calls
        BY BeforeFacts DEF Numbered
      <4>3. \A d \in Calls : d \in Before(c) <=> Body[d].fixed = None /\ (d < c \/ d = c)
        BY <1>1 DEF Before
      <4>4. c \notin Numbered(e)
        BY <1>1, <4>1
      <4>5. QED
        BY <2>2, <4>1, <4>2, <4>3, <4>4
    <3>4. IsFiniteSet(Numbered(e))
      BY CallsFinite DEF Numbered
    <3>5. Cardinality(Before(c)) = Cardinality(Numbered(e)) + 1
      BY <3>3, <3>4, FS_AddElement
    <3>6. Place(c) = counter[e] + 1
      BY <2>2, <3>2, <3>5 DEF Place
    <3>7. QED
      BY <3>1, <3>6
  <2>3. QED
    BY <2>1, <2>2
<1>5. QED
  BY <1>3, <1>4 DEF Numbers

\* A call under way is the one the handler has reached.
LEMMA UnderWay ==
  ASSUME SequentialHandler, Typed, Order, NEW e \in Executions, NEW c \in Calls, Alive(e, c),
         stage[e][c] \in {"numbered", "running", "ran"}
  PROVE  life[e] = "running" /\ next[e] = c /\ number[e][c] = Place(c)
<1>1. next[e] \in Nat /\ c \in Nat
  BY SequentialFacts, TypeParts DEF Typed, ControlType
<1>2. QED
  BY <1>1, SequentialFacts DEF Order

\* Every step of such a handler is one of these.
LEMMA StepCases ==
  ASSUME SequentialHandler, Typed, Order, [Next]_vars
  PROVE  \/ Stays
         \/ \E e \in Executions : Begin(e)
         \/ \E e \in Executions, c \in Calls : CallMoves(e, c)
<1>1. ControlType /\ RestType
  BY TypeParts DEF Typed
<1>2. CASE Crash \/ (\E e \in Executions : Abort(e)) \/ UNCHANGED vars
  BY <1>1, <1>2 DEF Crash, Abort, vars, Stays, ControlType
<1>3. ASSUME NEW e \in Executions, SpawnStep(e) \/ Join(e) PROVE FALSE
  <2>1. next[e] \in Calls
    BY <1>1, BodyFacts DEF ControlType, Calls
  <2>2. QED
    BY <1>3, <2>1, SequentialFacts DEF SpawnStep, Join
<1>4. ASSUME NEW e \in Executions, NEW c \in Calls, GetStep(e, c)
      PROVE  Misses(e, c) \/ Replays(e, c)
  <2>1. stage[e][c] = "numbered" /\ Alive(e, c)
    BY <1>4 DEF GetStep
  <2>2. life[e] = "running" /\ next[e] = c /\ number[e][c] = Place(c)
    BY <2>1, UnderWay
  <2>3. QED
    BY <1>4, <2>1, <2>2 DEF GetStep, ToRun, Misses, Moves, Replays, Leaves
<1>5. ASSUME NEW e \in Executions, NEW c \in Calls, Operate(e, c)
      PROVE  Runs(e, c) \/ Stays
  <2>1. stage[e][c] = "running" /\ Alive(e, c)
    BY <1>5 DEF Operate
  <2>2. life[e] = "running" /\ next[e] = c /\ number[e][c] = Place(c)
    BY <2>1, UnderWay
  <2>3. Outcomes(e, c) = {Ok(<<c, ran[c] + 1>>), Failed}
    BY SequentialFacts DEF Outcomes
  <2>4. ran[c] + 1 \in Nat
    BY <1>1 DEF RestType
  <2>5. \A a \in Outcomes(e, c) : Outcome(c, a)
    BY <2>3, <2>4 DEF Outcome
  <2>6. UNCHANGED <<steps, life, next, overlapped, number>>
    BY <1>5 DEF Operate, Retry
  <2>7. PICK a \in Outcomes(e, c) :
          \/ stage' = [stage EXCEPT ![e][c] = "ran"] /\ answer' = [answer EXCEPT ![e][c] = a]
          \/ UNCHANGED <<stage, answer>>
    BY <1>5 DEF Operate, Retry
  <2>8. CASE stage' = [stage EXCEPT ![e][c] = "ran"] /\ answer' = [answer EXCEPT ![e][c] = a]
    BY <2>1, <2>2, <2>5, <2>6, <2>8 DEF Runs, Moves
  <2>9. CASE UNCHANGED <<stage, answer>>
    BY <2>6, <2>9 DEF Stays
  <2>10. QED
    BY <2>7, <2>8, <2>9
<1>6. ASSUME NEW e \in Executions, NEW c \in Calls, RecordStep(e, c) \/ StepFault(e, c)
      PROVE  Records(e, c) \/ Faults(e, c)
  <2>1. stage[e][c] \in {"numbered", "ran"} /\ Alive(e, c)
    BY <1>6 DEF RecordStep, StepFault
  <2>2. life[e] = "running" /\ next[e] = c /\ number[e][c] = Place(c)
    BY <2>1, UnderWay
  <2>3. CASE RecordStep(e, c)
    BY <2>2, <2>3 DEF RecordStep, Write, Records, Leaves
  <2>4. CASE StepFault(e, c)
    BY <2>2, <2>4 DEF StepFault, Write, Records, Faults, Leaves
  <2>5. QED
    BY <1>6, <2>3, <2>4
<1>7. QED
  BY <1>2, <1>3, <1>4, <1>5, <1>6, NumbersCase DEF Next, CallMoves

\* What a call that returns changes.
LEMMA LeavesFacts ==
  ASSUME SequentialHandler, Typed, NEW e \in Executions, NEW c \in Calls, NEW a, Leaves(e, c, a)
  PROVE  /\ \A f \in Executions, d \in Calls :
              /\ stage'[f][d] = IF f = e /\ d = c THEN "done" ELSE stage[f][d]
              /\ answer'[f][d] = IF f = e /\ d = c THEN a ELSE answer[f][d]
         /\ \A f \in Executions : f # e => life'[f] = life[f] /\ next'[f] = next[f]
         /\ life'[e] \in {"running", "ended"} /\ next'[e] \in {c, c + 1}
<1>1. ControlType /\ AnswerType
  BY TypeParts DEF Typed
<1>2. c <= Statements /\ Body[c].kind = "run"
  BY SequentialFacts
<1>3. /\ stage' = [stage EXCEPT ![e][c] = "done"] /\ answer' = [answer EXCEPT ![e][c] = a]
      /\ Proceed(e, a.tag = "ok" \/ ~Body[c].strict)
      /\ life[e] = "running" /\ next[e] = c
  BY <1>2 DEF Leaves, Return
<1>4. \/ next' = [next EXCEPT ![e] = c + 1] /\ life' = life
      \/ life' = [life EXCEPT ![e] = "ended"] /\ next' = next
  BY <1>3 DEF Proceed
<1>5. /\ \A f \in Executions : f # e => life'[f] = life[f] /\ next'[f] = next[f]
      /\ life'[e] \in {"running", "ended"} /\ next'[e] \in {c, c + 1}
  BY <1>1, <1>3, <1>4 DEF ControlType
<1>6. \A f \in Executions, d \in Calls :
        /\ stage'[f][d] = IF f = e /\ d = c THEN "done" ELSE stage[f][d]
        /\ answer'[f][d] = IF f = e /\ d = c THEN a ELSE answer[f][d]
  BY <1>1, <1>3 DEF ControlType, AnswerType
<1>7. QED
  BY <1>5, <1>6

\* What a call that goes on without returning changes.
LEMMA MovesFacts ==
  ASSUME Typed, NEW e \in Executions, NEW c \in Calls, NEW s, NEW t, Moves(e, c, s, t)
  PROVE  \A f \in Executions, d \in Calls :
           stage'[f][d] = IF f = e /\ d = c THEN t ELSE stage[f][d]
<1>1. ControlType
  BY TypeParts DEF Typed
<1>2. QED
  BY <1>1 DEF Moves, ControlType

\* The call of a step that moves one is under way or about to take its number.
LEMMA MoverFacts ==
  ASSUME Order, NEW e \in Executions, NEW c \in Calls, CallMoves(e, c)
  PROVE  /\ life[e] = "running" /\ next[e] = c
         /\ ~Numbers(e, c) => stage[e][c] \in {"numbered", "running", "ran"} /\ number[e][c] = Place(c)
<1>1. life[e] = "running" /\ next[e] = c
  BY DEF CallMoves, Numbers, Misses, Runs, Replays, Records, Faults, Moves, Leaves
<1>2. ~Numbers(e, c) => stage[e][c] \in {"numbered", "running", "ran"}
  BY DEF CallMoves, Misses, Runs, Replays, Records, Faults, Moves
<1>3. QED
  BY <1>1, <1>2 DEF Order

\* What is true of such a handler is true at first.
LEMMA InitInv == Init => Inv
<1> SUFFICES ASSUME Init PROVE Inv
  OBVIOUS
<1>1. Typed
  BY InitTyped DEF Typed, Init, HasNumber
<1>2. Order
  <2>1. \A c \in Calls : ~(c < 1)
    BY BodyFacts
  <2>2. QED
    BY <2>1 DEF Init, Order
<1>3. Given
  BY DEF Init, Given
<1>4. Rows /\ Alone
  BY DEF Init, Rows, Alone
<1>5. QED
  BY <1>1, <1>2, <1>3, <1>4 DEF Inv

\* The calls are made in order.
LEMMA OrderKept ==
  ASSUME SequentialHandler, Typed, Order, Typed', [Next]_vars
  PROVE  Order'
<1>1. ControlType /\ ControlType' /\ NumberType
  BY TypeParts DEF Typed
<1>2. CASE Stays \/ \E e \in Executions : Begin(e)
  <2>1. UNCHANGED <<next, stage, number>>
    BY <1>2 DEF Stays, Begin
  <2>2. \A f \in Executions : life'[f] = "unborn" => life[f] = "unborn"
    BY <1>1, <1>2 DEF Stays, Begin, ControlType
  <2>3. QED
    BY <2>1, <2>2 DEF Order
<1>3. ASSUME NEW e \in Executions, NEW c \in Calls, CallMoves(e, c) PROVE Order'
  <2>1. life[e] = "running" /\ next[e] = c /\ c \in Nat /\ \A f \in Executions : next[f] \in Nat
    BY <1>1, <1>3, MoverFacts, BodyFacts DEF ControlType
  <2>2. CASE Numbers(e, c) \/ Misses(e, c) \/ Runs(e, c)
    <3>1. UNCHANGED <<life, next>>
      BY <2>2 DEF Numbers, Misses, Runs, Moves
    <3>2. PICK t \in {"numbered", "running", "ran"} :
            \A f \in Executions, d \in Calls :
              stage'[f][d] = IF f = e /\ d = c THEN t ELSE stage[f][d]
      BY <1>3, <2>2, MovesFacts DEF Numbers, Misses, Runs
    <3>3. \A f \in Executions, d \in Calls : f # e \/ d # c => number'[f][d] = number[f][d]
      BY <1>1, <2>2 DEF Numbers, Misses, Runs, NumberType
    <3>4. number'[e][c] = Place(c)
      <4>1. CASE Numbers(e, c)
        BY <1>1, <4>1 DEF Numbers, NumberType
      <4>2. CASE ~Numbers(e, c)
        BY <1>3, <2>2, <4>2, MoverFacts DEF Misses, Runs
      <4>3. QED
        BY <4>1, <4>2
    <3>5. ASSUME NEW f \in Executions, NEW d \in Calls
          PROVE  /\ stage'[f][d] # "spawned"
                 /\ d < next[f] => stage'[f][d] = "done"
                 /\ d > next[f] => stage'[f][d] = "idle"
                 /\ stage'[f][d] # "idle" => number'[f][d] = Place(d)
                 /\ life[f] = "unborn" => stage'[f][d] = "idle"
      <4>1. CASE f = e /\ d = c
        BY <2>1, <3>2, <3>4, <4>1
      <4>2. CASE f # e \/ d # c
        BY <3>2, <3>3, <4>2 DEF Order
      <4>3. QED
        BY <4>1, <4>2
    <3>6. QED
      BY <3>1, <3>5 DEF Order
  <2>3. ASSUME NEW a, Leaves(e, c, a), ~Numbers(e, c) PROVE Order'
    <3>1. number[e][c] = Place(c) /\ number' = number
      BY <1>3, <2>3, MoverFacts DEF Leaves
    <3>2. /\ \A f \in Executions, d \in Calls :
               stage'[f][d] = IF f = e /\ d = c THEN "done" ELSE stage[f][d]
          /\ \A f \in Executions : f # e => life'[f] = life[f] /\ next'[f] = next[f]
          /\ life'[e] \in {"running", "ended"} /\ next'[e] \in {c, c + 1}
      BY <2>3, LeavesFacts
    <3>3. ASSUME NEW f \in Executions, NEW d \in Calls
          PROVE  /\ stage'[f][d] # "spawned"
                 /\ d < next'[f] => stage'[f][d] = "done"
                 /\ d > next'[f] => stage'[f][d] = "idle"
                 /\ stage'[f][d] # "idle" => number[f][d] = Place(d)
                 /\ life'[f] = "unborn" => stage'[f][d] = "idle"
      <4>1. /\ stage[f][d] # "spawned"
            /\ d < next[f] => stage[f][d] = "done"
            /\ d > next[f] => stage[f][d] = "idle"
            /\ stage[f][d] # "idle" => number[f][d] = Place(d)
            /\ life[f] = "unborn" => stage[f][d] = "idle"
            /\ d \in Nat
        BY BodyFacts DEF Order
      <4>2. CASE f = e
        BY <2>1, <3>1, <3>2, <4>1, <4>2
      <4>3. CASE f # e
        BY <3>2, <4>1, <4>3
      <4>4. QED
        BY <4>2, <4>3
    <3>4. QED
      BY <3>1, <3>3 DEF Order
  <2>4. CASE Replays(e, c) \/ Records(e, c) \/ Faults(e, c)
    <3>1. stage[e][c] # "idle"
      BY <2>4 DEF Replays, Records, Faults
    <3>2. ~Numbers(e, c)
      BY <3>1 DEF Numbers, Moves
    <3>3. \E a : Leaves(e, c, a)
      BY <2>4 DEF Replays, Records, Faults
    <3>4. QED
      BY <2>3, <3>2, <3>3
  <2>5. QED
    BY <1>3, <2>2, <2>4 DEF CallMoves
<1>4. QED
  BY <1>2, <1>3, StepCases

\* A row of the call is answered with what it holds, and never taken for another call's.
LEMMA ReplayedRow ==
  ASSUME SequentialHandler, Rows, NEW c \in Calls, steps[Place(c)] # NoRow
  PROVE  /\ steps[Place(c)] = Row(c, steps[Place(c)].result) /\ Outcome(c, steps[Place(c)].result)
         /\ Verdict(c, Replayed(c, steps[Place(c)]))
         /\ Replayed(c, steps[Place(c)]).tag = "ok" =>
              Held(c, Replayed(c, steps[Place(c)]), steps[Place(c)])
<1>1. PICK row : row = steps[Place(c)]
  OBVIOUS
<1>2. PICK d \in Calls : /\ Place(c) = Place(d) /\ Outcome(d, steps[Place(c)].result)
                         /\ steps[Place(c)] = Row(d, steps[Place(c)].result)
  BY PlaceInjective DEF Rows
<1>3. d = c
  BY <1>2, PlaceInjective
<1>4. row = Row(c, row.result) /\ Outcome(c, row.result) /\ row # NoRow
  BY <1>1, <1>2, <1>3
<1>5. row.name = Body[c].name
  BY <1>4 DEF Row
<1>6. CASE row.result = Failed
  <2>1. Replayed(c, row) = IF Body[c].nullable THEN Ok(Null) ELSE Undecodable
    BY <1>5, <1>6 DEF Replayed
  <2>2. Undecodable.tag # "ok"
    BY DEF Undecodable
  <2>3. Verdict(c, Replayed(c, row)) /\ (Replayed(c, row).tag = "ok" => Held(c, Replayed(c, row), row))
    BY <1>4, <1>6, <2>1, <2>2 DEF Verdict, Held
  <2>4. QED
    BY <1>1, <1>4, <2>3
<1>7. CASE row.result # Failed
  <2>1. Replayed(c, row) = row.result
    BY <1>5, <1>7 DEF Replayed
  <2>2. QED
    BY <1>1, <1>4, <2>1 DEF Verdict, Held
<1>8. QED
  BY <1>6, <1>7

\* What a call is answered is a verdict on it.
LEMMA GivenKept ==
  ASSUME SequentialHandler, Inv, [Next]_vars
  PROVE  Given'
<1>1. Typed /\ Order /\ Given /\ Rows /\ AnswerType
  BY TypeParts DEF Inv, Typed
<1>2. CASE Stays \/ \E e \in Executions : Begin(e)
  BY <1>1, <1>2 DEF Stays, Begin, Given
<1>3. ASSUME NEW e \in Executions, NEW c \in Calls, CallMoves(e, c) PROVE Given'
  <2>1. CASE Numbers(e, c) \/ Misses(e, c)
    <3>1. PICK t \in {"numbered", "running"} :
            \A f \in Executions, d \in Calls :
              stage'[f][d] = IF f = e /\ d = c THEN t ELSE stage[f][d]
      BY <1>1, <2>1, MovesFacts DEF Numbers, Misses
    <3>2. answer' = answer /\ stage[e][c] \in {"idle", "numbered"}
      BY <2>1 DEF Numbers, Misses, Moves
    <3>3. QED
      BY <1>1, <3>1, <3>2 DEF Given
  <2>2. CASE Runs(e, c)
    <3>1. \A f \in Executions, d \in Calls :
            stage'[f][d] = IF f = e /\ d = c THEN "ran" ELSE stage[f][d]
      BY <1>1, <2>2, MovesFacts DEF Runs
    <3>2. PICK a : Outcome(c, a) /\ answer' = [answer EXCEPT ![e][c] = a]
      BY <2>2 DEF Runs
    <3>3. \A f \in Executions, d \in Calls :
            answer'[f][d] = IF f = e /\ d = c THEN a ELSE answer[f][d]
      BY <1>1, <3>2 DEF AnswerType
    <3>4. QED
      BY <1>1, <3>1, <3>2, <3>3 DEF Given
  <2>3. ASSUME NEW a, Leaves(e, c, a), Verdict(c, a) PROVE Given'
    <3>1. \A f \in Executions, d \in Calls :
            /\ stage'[f][d] = IF f = e /\ d = c THEN "done" ELSE stage[f][d]
            /\ answer'[f][d] = IF f = e /\ d = c THEN a ELSE answer[f][d]
      BY <1>1, <2>3, LeavesFacts
    <3>2. QED
      BY <1>1, <2>3, <3>1 DEF Given
  <2>4. CASE Replays(e, c)
    BY <1>1, <2>3, <2>4, ReplayedRow DEF Replays
  <2>5. CASE Records(e, c)
    <3>1. Outcome(c, answer[e][c])
      BY <1>1, <2>5 DEF Records, Given
    <3>2. QED
      BY <2>3, <2>5, <3>1 DEF Records, Verdict
  <2>6. CASE Faults(e, c)
    BY <2>3, <2>6 DEF Faults, Verdict
  <2>7. QED
    BY <1>3, <2>1, <2>2, <2>4, <2>5, <2>6 DEF CallMoves
<1>4. QED
  BY <1>1, <1>2, <1>3, StepCases

\* What a step does to the rows: nothing, or a call that has run records its answer.
LEMMA RowChange ==
  ASSUME SequentialHandler, Inv, [Next]_vars
  PROVE  \/ steps' = steps
         \/ \E e \in Executions, c \in Calls :
              /\ Records(e, c)
              /\ \A i \in Ids : steps'[i] = IF i = Place(c) THEN Row(c, answer[e][c]) ELSE steps[i]
              /\ Outcome(c, answer[e][c]) /\ Place(c) \in Ids
              /\ ~overlapped => steps[Place(c)] = NoRow
<1>1. Typed /\ Order /\ Given /\ Rows /\ Alone /\ RowsType
  BY TypeParts DEF Inv, Typed
<1>2. CASE Stays \/ \E e \in Executions : Begin(e)
  BY <1>2 DEF Stays, Begin
<1>3. ASSUME NEW e \in Executions, NEW c \in Calls, CallMoves(e, c), steps' # steps
      PROVE  /\ Records(e, c)
             /\ \A i \in Ids : steps'[i] = IF i = Place(c) THEN Row(c, answer[e][c]) ELSE steps[i]
             /\ Outcome(c, answer[e][c]) /\ Place(c) \in Ids
             /\ ~overlapped => steps[Place(c)] = NoRow
  <2>1. Records(e, c)
    BY <1>3 DEF CallMoves, Numbers, Misses, Runs, Moves, Replays, Faults
  <2>2. /\ stage[e][c] = "ran" /\ life[e] = "running"
        /\ steps' = [steps EXCEPT ![Place(c)] = Row(c, answer[e][c])]
    BY <2>1 DEF Records, Leaves
  <2>3. \A i \in Ids : steps'[i] = IF i = Place(c) THEN Row(c, answer[e][c]) ELSE steps[i]
    BY <1>1, <2>2 DEF RowsType
  <2>4. Outcome(c, answer[e][c]) /\ Place(c) \in Ids
    BY <1>1, <2>2, PlaceInjective DEF Given
  <2>5. ~overlapped => steps[Place(c)] = NoRow
    BY <1>1, <2>2 DEF Alone
  <2>6. QED
    BY <2>1, <2>3, <2>4, <2>5
<1>4. QED
  BY <1>1, <1>2, <1>3, StepCases

\* A row with a call is a row.
LEMMA RowFacts ==
  ASSUME NEW c \in Calls, NEW a
  PROVE  Row(c, a) # NoRow /\ Row(c, a).call = c /\ Row(c, a).result = a
<1>1. c # 0
  BY BodyFacts
<1>2. QED
  BY <1>1 DEF Row, NoRow

\* A row stays an outcome of the call made under its number.
LEMMA RowsKept ==
  ASSUME SequentialHandler, Inv, [Next]_vars
  PROVE  Rows'
<1>1. Rows
  BY DEF Inv
<1>2. CASE steps' = steps
  BY <1>1, <1>2 DEF Rows
<1>3. ASSUME NEW e \in Executions, NEW c \in Calls, Outcome(c, answer[e][c]),
             \A i \in Ids : steps'[i] = IF i = Place(c) THEN Row(c, answer[e][c]) ELSE steps[i]
      PROVE  Rows'
  <2> SUFFICES ASSUME NEW i \in Ids, steps'[i] # NoRow
               PROVE  \E d \in Calls : /\ i = Place(d) /\ Outcome(d, steps'[i].result)
                                       /\ steps'[i] = Row(d, steps'[i].result)
    BY DEF Rows
  <2>1. CASE i = Place(c)
    BY <1>3, <2>1, RowFacts
  <2>2. CASE i # Place(c)
    BY <1>1, <1>3, <2>2 DEF Rows
  <2>3. QED
    BY <2>1, <2>2
<1>4. QED
  BY <1>2, <1>3, RowChange

\* Of the calls of an execution only the one it has reached can be under way.
LEMMA OneUnderWay ==
  ASSUME Typed, Order, NEW e \in Executions, NEW d \in Calls, d # next[e]
  PROVE  stage[e][d] \in {"done", "idle"}
<1>1. next[e] \in Nat /\ d \in Nat
  BY TypeParts, BodyFacts DEF Typed, ControlType
<1>2. QED
  BY <1>1 DEF Order

\* A call is run only while it has no row, and the values answered are on record, for as
\* long as no two executions have been alive at the same time.
LEMMA AloneKept ==
  ASSUME SequentialHandler, Inv, [Next]_vars
  PROVE  Alone'
<1> SUFFICES ASSUME ~overlapped'
             PROVE  /\ \A e, f \in Executions : life'[e] = "running" /\ life'[f] = "running" => e = f
                    /\ \A e \in Executions, c \in Calls :
                         /\ life'[e] = "running" /\ stage'[e][c] \in {"running", "ran"}
                              => steps'[Place(c)] = NoRow
                         /\ stage'[e][c] = "done" /\ answer'[e][c].tag = "ok"
                              => Held(c, answer'[e][c], steps'[Place(c)])
  BY DEF Alone, Held
<1>1. /\ Typed /\ Order /\ Given /\ Rows /\ Alone
      /\ RowsType /\ ControlType /\ AnswerType
  BY TypeParts DEF Inv, Typed
<1>2. CASE Stays
  BY <1>1, <1>2 DEF Stays, Alone
<1>3. ASSUME NEW e \in Executions, Begin(e)
      PROVE  /\ \A f, g \in Executions : life'[f] = "running" /\ life'[g] = "running" => f = g
             /\ \A f \in Executions, c \in Calls :
                  /\ life'[f] = "running" /\ stage'[f][c] \in {"running", "ran"}
                       => steps'[Place(c)] = NoRow
                  /\ stage'[f][c] = "done" /\ answer'[f][c].tag = "ok"
                       => Held(c, answer'[f][c], steps'[Place(c)])
  <2>1. /\ life[e] = "unborn" /\ life' = [life EXCEPT ![e] = "running"]
        /\ ~overlapped /\ \A f \in Executions : life[f] # "running"
        /\ UNCHANGED <<steps, stage, answer>>
    BY <1>3 DEF Begin
  <2>2. \A f \in Executions : life'[f] = "running" => f = e
    BY <1>1, <2>1 DEF ControlType
  <2>3. \A c \in Calls : stage[e][c] = "idle"
    BY <1>1, <2>1 DEF Order
  <2>4. QED
    BY <1>1, <2>1, <2>2, <2>3 DEF Alone
<1>4. ASSUME NEW e \in Executions, NEW c \in Calls, CallMoves(e, c)
      PROVE  /\ \A f, g \in Executions : life'[f] = "running" /\ life'[g] = "running" => f = g
             /\ \A f \in Executions, d \in Calls :
                  /\ life'[f] = "running" /\ stage'[f][d] \in {"running", "ran"}
                       => steps'[Place(d)] = NoRow
                  /\ stage'[f][d] = "done" /\ answer'[f][d].tag = "ok"
                       => Held(d, answer'[f][d], steps'[Place(d)])
  <2>1. /\ ~overlapped /\ life[e] = "running" /\ next[e] = c
        /\ \A f \in Executions : life[f] = "running" => f = e
    <3>1. overlapped' = overlapped
      BY <1>4 DEF CallMoves, Numbers, Misses, Runs, Moves, Replays, Records, Faults, Leaves
    <3>2. QED
      BY <1>1, <1>4, <3>1, MoverFacts DEF Alone
  <2>2. CASE Numbers(e, c) \/ Misses(e, c) \/ Runs(e, c)
    <3>1. UNCHANGED <<steps, life>>
      BY <2>2 DEF Numbers, Misses, Runs, Moves
    <3>2. PICK t \in {"numbered", "running", "ran"} :
            /\ t # "numbered" => steps[Place(c)] = NoRow
            /\ \A f \in Executions, d \in Calls :
                 stage'[f][d] = IF f = e /\ d = c THEN t ELSE stage[f][d]
      <4>1. CASE Numbers(e, c)
        BY <1>1, <4>1, MovesFacts DEF Numbers
      <4>2. CASE Misses(e, c)
        BY <1>1, <4>2, MovesFacts DEF Misses
      <4>3. CASE Runs(e, c)
        BY <1>1, <2>1, <4>3, MovesFacts DEF Runs, Moves, Alone
      <4>4. QED
        BY <2>2, <4>1, <4>2, <4>3
    <3>3. \A f \in Executions, d \in Calls : f # e \/ d # c => answer'[f][d] = answer[f][d]
      BY <1>1, <2>2 DEF Numbers, Misses, Runs, AnswerType
    <3>4. QED
      BY <1>1, <2>1, <3>1, <3>2, <3>3 DEF Alone
  <2>3. ASSUME NEW a, Leaves(e, c, a), steps' = steps, a.tag = "ok" => Held(c, a, steps[Place(c)])
        PROVE  /\ \A f, g \in Executions : life'[f] = "running" /\ life'[g] = "running" => f = g
               /\ \A f \in Executions, d \in Calls :
                    /\ life'[f] = "running" /\ stage'[f][d] \in {"running", "ran"}
                         => steps'[Place(d)] = NoRow
                    /\ stage'[f][d] = "done" /\ answer'[f][d].tag = "ok"
                         => Held(d, answer'[f][d], steps'[Place(d)])
    <3>1. /\ \A f \in Executions, d \in Calls :
               /\ stage'[f][d] = IF f = e /\ d = c THEN "done" ELSE stage[f][d]
               /\ answer'[f][d] = IF f = e /\ d = c THEN a ELSE answer[f][d]
          /\ \A f \in Executions : f # e => life'[f] = life[f]
      BY <1>1, <2>3, LeavesFacts
    <3>2. QED
      BY <1>1, <2>1, <2>3, <3>1 DEF Alone
  <2>4. CASE Replays(e, c)
    BY <1>1, <2>3, <2>4, ReplayedRow DEF Replays
  <2>5. Broken.tag # "ok"
    BY DEF Broken
  <2>6. CASE Faults(e, c)
    BY <2>3, <2>5, <2>6 DEF Faults
  <2>7. CASE Records(e, c)
    <3>1. PICK a : a \in {answer[e][c], Broken} /\ Leaves(e, c, a)
      BY <2>7 DEF Records
    <3>2. /\ stage[e][c] = "ran" /\ Place(c) \in Ids
          /\ steps' = [steps EXCEPT ![Place(c)] = Row(c, answer[e][c])]
      BY <2>7, PlaceInjective DEF Records
    <3>3. \A i \in Ids : steps'[i] = IF i = Place(c) THEN Row(c, answer[e][c]) ELSE steps[i]
      BY <1>1, <3>2 DEF RowsType
    <3>4. steps[Place(c)] = NoRow
      BY <1>1, <2>1, <3>2 DEF Alone
    <3>5. /\ \A f \in Executions, d \in Calls :
               /\ stage'[f][d] = IF f = e /\ d = c THEN "done" ELSE stage[f][d]
               /\ answer'[f][d] = IF f = e /\ d = c THEN a ELSE answer[f][d]
          /\ \A f \in Executions : f # e => life'[f] = life[f]
      BY <1>1, <3>1, LeavesFacts
    <3>6. \A f, g \in Executions : life'[f] = "running" /\ life'[g] = "running" => f = g
      BY <2>1, <3>5
    <3>7. ASSUME NEW f \in Executions, NEW d \in Calls,
                 life'[f] = "running", stage'[f][d] \in {"running", "ran"}
          PROVE  FALSE
      <4>1. f = e
        BY <2>1, <3>5, <3>7
      <4>2. d # c /\ stage[e][d] \in {"running", "ran"}
        BY <3>5, <3>7, <4>1
      <4>3. QED
        BY <1>1, <2>1, <4>2, OneUnderWay
    <3>8. ASSUME NEW f \in Executions, NEW d \in Calls,
                 stage'[f][d] = "done", answer'[f][d].tag = "ok"
          PROVE  Held(d, answer'[f][d], steps'[Place(d)])
      <4>1. CASE f = e /\ d = c
        <5>1. answer'[f][d] = a /\ a = answer[e][c]
          BY <2>5, <3>1, <3>5, <3>8, <4>1
        <5>2. steps'[Place(d)] = Row(c, a)
          BY <3>2, <3>3, <4>1, <5>1
        <5>3. QED
          BY <5>1, <5>2, RowFacts DEF Held
      <4>2. CASE f # e \/ d # c
        <5>1. stage[f][d] = "done" /\ answer'[f][d] = answer[f][d]
          BY <3>5, <3>8, <4>2
        <5>2. Held(d, answer[f][d], steps[Place(d)])
          BY <1>1, <2>1, <3>8, <5>1 DEF Alone
        <5>3. d # c
          BY <3>4, <5>2 DEF Held
        <5>4. Place(d) # Place(c) /\ Place(d) \in Ids
          BY <5>3, PlaceInjective
        <5>5. QED
          BY <3>3, <5>1, <5>2, <5>4
      <4>3. QED
        BY <4>1, <4>2
    <3>9. QED
      BY <3>6, <3>7, <3>8
  <2>8. QED
    BY <1>4, <2>2, <2>4, <2>6, <2>7 DEF CallMoves
<1>5. QED
  BY <1>1, <1>2, <1>3, <1>4, StepCases

\* All of it is inductive.
LEMMA AlwaysInv == ASSUME SequentialHandler PROVE Spec => []Inv
<1>1. Init => Inv
  BY InitInv
<1>2. Inv /\ [Next]_vars => Inv'
  <2> SUFFICES ASSUME Inv, [Next]_vars PROVE Inv'
    OBVIOUS
  <2>1. Typed /\ Order
    BY DEF Inv
  <2>2. Typed'
    BY <2>1, StepTyped
  <2>3. Order'
    BY <2>1, <2>2, OrderKept
  <2>4. QED
    BY <2>2, <2>3, GivenKept, RowsKept, AloneKept DEF Inv
<1>3. QED
  BY <1>1, <1>2, PTL DEF Spec
-----------------------------------------------------------------------------
(* What durable steps promise such a handler.                               *)

\* The step ids of a handler that makes its steps one after the other are the same in every
\* execution, whatever failed, was retried or was answered from a row: no step is ever
\* refused as an unexpected one (context.rs 1171).
THEOREM NumbersKept == ASSUME SequentialHandler PROVE Spec => []NoUnexpectedStep
<1>1. Inv => NoUnexpectedStep
  <2> SUFFICES ASSUME Inv, NEW e \in Executions, NEW c \in Calls, answer[e][c] = Unexpected
               PROVE  FALSE
    BY DEF NoUnexpectedStep
  <2>1. ~Verdict(c, Unexpected)
    BY DEF Verdict, Outcome, Unexpected, Failed, Ok, Undecodable, Broken
  <2>2. Unexpected # Nothing /\ ~Outcome(c, Unexpected)
    BY DEF Outcome, Unexpected, Nothing, Failed, Ok
  <2>3. stage[e][c] \in Stages
    BY TypeParts DEF Inv, Typed, ControlType
  <2>4. QED
    BY <2>1, <2>2, <2>3 DEF Inv, Given
<1>2. QED
  BY <1>1, AlwaysInv, PTL

\* The row under a number stays a row of the call that left the first one there, even when
\* executions overlap and record_step replaces it.
THEOREM RowsStay == ASSUME SequentialHandler PROVE Spec => RowsKeepTheirCall
<1>1. Inv /\ [Next]_vars
        => [\A i \in Ids : steps[i] # NoRow => steps'[i].call = steps[i].call]_vars
  <2> SUFFICES ASSUME Inv, [Next]_vars, NEW i \in Ids, steps[i] # NoRow
               PROVE  steps'[i].call = steps[i].call
    OBVIOUS
  <2>1. CASE steps' = steps
    BY <2>1
  <2>2. ASSUME NEW e \in Executions, NEW c \in Calls,
               \A j \in Ids : steps'[j] = IF j = Place(c) THEN Row(c, answer[e][c]) ELSE steps[j]
        PROVE  steps'[i].call = steps[i].call
    <3>1. CASE i = Place(c)
      <4>1. steps[i] = Row(c, steps[i].result)
        BY <3>1, ReplayedRow DEF Inv
      <4>2. QED
        BY <2>2, <3>1, <4>1, RowFacts
    <3>2. CASE i # Place(c)
      BY <2>2, <3>2
    <3>3. QED
      BY <3>1, <3>2
  <2>3. QED
    BY <2>1, <2>2, RowChange
<1>2. QED
  BY <1>1, AlwaysInv, PTL DEF Spec, RowsKeepTheirCall

\* Only Operate runs an operation, for a call under way.
LEMMA WhoRan ==
  ASSUME Typed, [Next]_vars, NEW c \in Calls, ran'[c] # ran[c]
  PROVE  \E e \in Executions : stage[e][c] = "running" /\ Alive(e, c)
<1>1. CASE ran' = ran
  BY <1>1
<1>2. ASSUME NEW e \in Executions, NEW d \in Calls, Operate(e, d)
      PROVE  \E f \in Executions : stage[f][c] = "running" /\ Alive(f, c)
  <2>1. ran' = [ran EXCEPT ![d] = @ + 1] /\ stage[e][d] = "running" /\ Alive(e, d)
    BY <1>2 DEF Operate
  <2>2. ran \in [Calls -> Nat]
    BY TypeParts DEF Typed, RestType
  <2>3. d = c
    BY <2>1, <2>2
  <2>4. QED
    BY <2>1, <2>3
<1>3. ran' = ran \/ \E e \in Executions, d \in Calls : Operate(e, d)
  BY DEF Next, vars, Begin, SpawnStep, Join, Abort, NextStepId, GetStep, RecordStep, StepFault, Crash
<1>4. QED
  BY <1>1, <1>2, <1>3

\* An operation whose outcome is on record is not run again, unless two executions have been
\* alive at the same time.
THEOREM NotRerun == ASSUME SequentialHandler PROVE Spec => RecordedNotRerun
<1>1. Inv /\ [Next]_vars
        => [\A c \in Calls :
              ran'[c] # ran[c] => overlapped \/ \A i \in Ids : steps[i].call # c]_vars
  <2> SUFFICES ASSUME Inv, [Next]_vars, NEW c \in Calls, ran'[c] # ran[c], ~overlapped,
                      NEW i \in Ids, steps[i].call = c
               PROVE  FALSE
    OBVIOUS
  <2>1. Typed /\ Order /\ Rows /\ Alone
    BY DEF Inv
  <2>2. PICK e \in Executions : stage[e][c] = "running" /\ Alive(e, c)
    BY <2>1, WhoRan
  <2>3. life[e] = "running"
    BY <2>1, <2>2, UnderWay
  <2>4. steps[Place(c)] = NoRow
    BY <2>1, <2>2, <2>3 DEF Alone
  <2>5. steps[i] # NoRow
    <3>1. c # 0
      BY BodyFacts
    <3>2. QED
      BY <3>1 DEF NoRow
  <2>6. PICK d \in Calls : i = Place(d) /\ steps[i] = Row(d, steps[i].result)
    BY <2>1, <2>5 DEF Rows
  <2>7. d = c
    BY <2>6, RowFacts
  <2>8. QED
    BY <2>4, <2>5, <2>6, <2>7
<1>2. QED
  BY <1>1, AlwaysInv, PTL DEF Spec, RecordedNotRerun
-----------------------------------------------------------------------------
(* The refinement of DurableSteps.                                          *)

\* What has been decided of a call is what the row under its number says.
LEMMA DecidedFacts ==
  ASSUME SequentialHandler, NEW rows, NEW c \in Calls,
         \A i \in Ids : rows[i] # NoRow =>
           \E d \in Calls : i = Place(d) /\ rows[i] = Row(d, rows[i].result)
  PROVE  LET left == {i \in Ids : rows[i].call = c}
         IN (IF left = {} THEN None ELSE rows[CHOOSE i \in left : TRUE].result)
              = IF rows[Place(c)] = NoRow THEN None ELSE rows[Place(c)].result
<1> DEFINE left == {i \in Ids : rows[i].call = c}
<1>1. c # 0 /\ Place(c) \in Ids
  BY BodyFacts, PlaceInjective
<1>2. NoRow.call = 0
  BY DEF NoRow
<1>3. ASSUME NEW i \in left PROVE i = Place(c) /\ rows[i] # NoRow
  <2>1. rows[i] # NoRow /\ i \in Ids
    BY <1>1, <1>2, <1>3
  <2>2. PICK d \in Calls : i = Place(d) /\ rows[i] = Row(d, rows[i].result)
    BY <2>1
  <2>3. d = c
    BY <1>3, <2>2, RowFacts
  <2>4. QED
    BY <2>1, <2>2, <2>3
<1>4. CASE rows[Place(c)] = NoRow
  <2>1. left = {}
    BY <1>3, <1>4
  <2>2. QED
    BY <1>4, <2>1
<1>5. CASE rows[Place(c)] # NoRow
  <2>1. PICK d \in Calls : Place(c) = Place(d) /\ rows[Place(c)] = Row(d, rows[Place(c)].result)
    BY <1>1, <1>5
  <2>2. d = c
    BY <2>1, PlaceInjective
  <2>3. rows[Place(c)].call = c
    BY <2>1, <2>2, RowFacts
  <2>4. left = {Place(c)}
    BY <1>1, <1>3, <2>3
  <2>5. (CHOOSE i \in left : TRUE) = Place(c)
    BY <2>4
  <2>6. QED
    BY <1>5, <2>4, <2>5
<1>6. QED
  BY <1>4, <1>5

\* Before a step and after it.
LEMMA DecidedBoth ==
  ASSUME SequentialHandler, Rows, Rows'
  PROVE  \A c \in Calls :
           /\ Decided[c] = IF steps[Place(c)] = NoRow THEN None ELSE steps[Place(c)].result
           /\ Decided'[c] = IF steps'[Place(c)] = NoRow THEN None ELSE steps'[Place(c)].result
<1>1. ASSUME NEW c \in Calls
      PROVE  /\ Decided[c] = IF steps[Place(c)] = NoRow THEN None ELSE steps[Place(c)].result
             /\ Decided'[c] = IF steps'[Place(c)] = NoRow THEN None ELSE steps'[Place(c)].result
  <2>1. \A i \in Ids : steps[i] # NoRow =>
          \E d \in Calls : i = Place(d) /\ steps[i] = Row(d, steps[i].result)
    BY DEF Rows
  <2>2. \A i \in Ids : steps'[i] # NoRow =>
          \E d \in Calls : i = Place(d) /\ steps'[i] = Row(d, steps'[i].result)
    BY DEF Rows
  <2>3. Decided[c] = IF steps[Place(c)] = NoRow THEN None ELSE steps[Place(c)].result
    BY <2>1, DecidedFacts DEF Decided, Left
  <2>4. Decided'[c] = IF steps'[Place(c)] = NoRow THEN None ELSE steps'[Place(c)].result
    BY <2>2, DecidedFacts DEF Decided, Left
  <2>5. QED
    BY <2>3, <2>4
<1>2. QED
  BY <1>1

\* What call c of execution e has been given, before a step and after it.
LEMMA SeenBoth ==
  \A e \in Executions, c \in Calls :
    /\ Seen[e][c] = IF stage[e][c] = "done" /\ answer[e][c].tag = "ok" THEN answer[e][c] ELSE None
    /\ Seen'[e][c] =
         IF stage'[e][c] = "done" /\ answer'[e][c].tag = "ok" THEN answer'[e][c] ELSE None
BY DEF Seen, Answered

\* A call that returns shows its execution the value it is answered with.
LEMMA SeenChange ==
  ASSUME SequentialHandler, Typed, NEW e \in Executions, NEW c \in Calls, NEW a, Leaves(e, c, a),
         stage[e][c] # "done"
  PROVE  /\ Seen[e][c] = None
         /\ a.tag # "ok" => Seen' = Seen
         /\ a.tag = "ok" => Seen' = [Seen EXCEPT ![e][c] = a]
<1>1. \A f \in Executions, d \in Calls :
        /\ stage'[f][d] = IF f = e /\ d = c THEN "done" ELSE stage[f][d]
        /\ answer'[f][d] = IF f = e /\ d = c THEN a ELSE answer[f][d]
  BY LeavesFacts
<1>2. Seen[e][c] = None /\ Seen'[e][c] = IF a.tag = "ok" THEN a ELSE None
  BY <1>1, SeenBoth
<1>3. \A f \in Executions, d \in Calls : f # e \/ d # c => Seen'[f][d] = Seen[f][d]
  BY <1>1, SeenBoth
<1>4. /\ Seen = [f \in Executions |-> [d \in Calls |-> Seen[f][d]]]
      /\ Seen' = [f \in Executions |-> [d \in Calls |-> Seen'[f][d]]]
  BY DEF Seen
<1>5. CASE a.tag # "ok"
  BY <1>2, <1>3, <1>4, <1>5
<1>6. CASE a.tag = "ok"
  BY <1>2, <1>3, <1>4, <1>6
<1>7. QED
  BY <1>2, <1>5, <1>6

\* The values of DurableSteps are those an operation of the call may have answered.
LEMMA OutcomeValue ==
  ASSUME NEW c \in Calls, NEW a, Outcome(c, a)
  PROVE  /\ a \in [tag : {"ok"}, value : Values] \cup {Failed}
         /\ a.tag = "ok" => a \in [tag : {"ok"}, value : Values]
<1>1. CASE a = Failed
  BY <1>1 DEF Failed
<1>2. ASSUME NEW n \in Nat, a = Ok(<<c, n>>) PROVE a \in [tag : {"ok"}, value : Values]
  <2>1. <<c, n>> \in Values
    BY DEF Values
  <2>2. QED
    BY <1>2, <2>1 DEF Ok
<1>3. QED
  BY <1>1, <1>2 DEF Outcome

\* A handler that makes its steps one after the other and reads no result from a JSON null has
\* the promise of DurableSteps, for as long as no two of its executions have been alive at
\* the same time: whatever crashes, aborts and fails, the outcome of a call is decided once
\* and every execution that is given a value is given that one.
THEOREM Durable ==
  ASSUME SequentialHandler, \A c \in Calls : ~Body[c].nullable
  PROVE  Spec => DurableOutcomes
<1>1. Init => Promise!Init
  <2> SUFFICES ASSUME Init PROVE Promise!Init
    OBVIOUS
  <2>1. \A c \in Calls : Left(c) = {}
    <3>1. \A c \in Calls : c # 0
      BY BodyFacts
    <3>2. QED
      BY <3>1 DEF Init, Left, NoRow
  <2>2. QED
      <3>1. Decided = [c \in Calls |-> None]
      BY <2>1 DEF Decided, Left
    <3>2. Seen = [e \in Executions |-> [c \in Calls |-> None]]
      BY DEF Init, Seen, Answered
    <3>3. QED
      BY <3>1, <3>2 DEF Promise!Init
<1>2. Inv /\ Inv' /\ [Next]_vars => [overlapped' \/ Promise!Next]_(Promise!vars)
  <2> SUFFICES ASSUME Inv, Inv', [Next]_vars, ~overlapped'
               PROVE  Promise!Next \/ UNCHANGED <<Decided, Seen>>
    BY DEF Promise!vars
  <2>1. Typed /\ Order /\ Given /\ Rows /\ Alone /\ Rows' /\ AnswerType /\ ControlType
    BY TypeParts DEF Inv, Typed
  <2>2. steps' = steps => Decided' = Decided
    BY DEF Decided, Left
  <2>3. CASE Stays \/ \E e \in Executions : Begin(e)
    BY <2>2, <2>3 DEF Stays, Begin, Seen, Answered
  <2>4. ASSUME NEW e \in Executions, NEW c \in Calls, CallMoves(e, c)
        PROVE  Promise!Next \/ UNCHANGED <<Decided, Seen>>
    <3>1. CASE Numbers(e, c) \/ Misses(e, c) \/ Runs(e, c)
      <4>1. steps' = steps
        BY <3>1 DEF Numbers, Misses, Runs, Moves
      <4>2. PICK t \in {"numbered", "running", "ran"} :
              \A f \in Executions, d \in Calls :
                stage'[f][d] = IF f = e /\ d = c THEN t ELSE stage[f][d]
        BY <2>1, <3>1, MovesFacts DEF Numbers, Misses, Runs
      <4>3. \A f \in Executions, d \in Calls : f # e \/ d # c => answer'[f][d] = answer[f][d]
        BY <2>1, <3>1 DEF Numbers, Misses, Runs, AnswerType
      <4>4. stage[e][c] # "done"
        BY <3>1 DEF Numbers, Misses, Runs, Moves
      <4>5. \A f \in Executions, d \in Calls : Seen'[f][d] = Seen[f][d]
        BY <4>2, <4>3, <4>4, SeenBoth
      <4>6. Seen' = Seen
        <5>1. /\ Seen = [f \in Executions |-> [d \in Calls |-> Seen[f][d]]]
              /\ Seen' = [f \in Executions |-> [d \in Calls |-> Seen'[f][d]]]
          BY DEF Seen
        <5>2. QED
          BY <4>5, <5>1
      <4>7. QED
        BY <2>2, <4>1, <4>6
    <3>2. CASE Faults(e, c)
      <4>1. Leaves(e, c, Broken) /\ stage[e][c] # "done" /\ steps' = steps
        BY <3>2 DEF Faults
      <4>2. Broken.tag # "ok"
        BY DEF Broken
      <4>3. QED
        BY <2>1, <2>2, <4>1, <4>2, SeenChange
    <3>3. CASE Replays(e, c)
      <4>1. PICK a : a = Replayed(c, steps[Place(c)])
        OBVIOUS
      <4>2. /\ Leaves(e, c, a) /\ stage[e][c] # "done" /\ steps' = steps
            /\ steps[Place(c)] # NoRow
        BY <3>3, <4>1 DEF Replays
      <4>3. CASE a.tag # "ok"
        BY <2>1, <2>2, <4>2, <4>3, SeenChange
      <4>4. CASE a.tag = "ok"
        <5>1. steps[Place(c)].result = a /\ Outcome(c, a)
          BY <2>1, <4>1, <4>2, <4>4, ReplayedRow DEF Held
        <5>2. a \in [tag : {"ok"}, value : Values]
          BY <4>4, <5>1, OutcomeValue
        <5>3. Decided[c] = a
          BY <2>1, <4>2, <5>1, DecidedBoth
        <5>4. Seen[e][c] = None /\ Seen' = [Seen EXCEPT ![e][c] = a]
          BY <2>1, <4>2, <4>4, SeenChange
        <5>5. Promise!Replay(e, c)
          BY <2>2, <4>2, <5>2, <5>3, <5>4 DEF Promise!Replay, Promise!Show
        <5>6. QED
          BY <5>5 DEF Promise!Next
      <4>5. QED
        BY <4>3, <4>4
    <3>4. CASE Records(e, c)
      <4>1. PICK a : a \in {answer[e][c], Broken} /\ Leaves(e, c, a)
        BY <3>4 DEF Records
      <4>2. /\ stage[e][c] = "ran" /\ life[e] = "running" /\ overlapped' = overlapped
            /\ steps' = [steps EXCEPT ![Place(c)] = Row(c, answer[e][c])]
        BY <3>4 DEF Records, Leaves
      <4>3. PICK o : o = answer[e][c]
        OBVIOUS
      <4>4. Outcome(c, o) /\ steps[Place(c)] = NoRow
        BY <2>1, <4>2, <4>3 DEF Given, Alone
      <4>5. \A i \in Ids : steps'[i] = IF i = Place(c) THEN Row(c, o) ELSE steps[i]
        BY <2>1, <4>2, <4>3, TypeParts DEF Typed, RowsType
      <4>6. Decided[c] = None /\ Decided'[c] = o
        BY <2>1, <4>4, <4>5, DecidedBoth, PlaceInjective, RowFacts
      <4>7. \A d \in Calls : d # c => Decided'[d] = Decided[d]
        BY <2>1, <4>5, DecidedBoth, PlaceInjective
      <4>8. Decided' = [Decided EXCEPT ![c] = Decided'[c]]
        <5>1. /\ Decided = [d \in Calls |-> Decided[d]]
              /\ Decided' = [d \in Calls |-> Decided'[d]]
          BY DEF Decided, Left
        <5>2. QED
          BY <4>7, <5>1
      <4>9. o \in [tag : {"ok"}, value : Values] \cup {Failed}
        BY <4>4, OutcomeValue
      <4>10. Seen' = Seen \/ (o \in [tag : {"ok"}, value : Values] /\ Seen' = [Seen EXCEPT ![e][c] = o])
        <5>1. CASE a.tag # "ok"
          BY <2>1, <4>1, <4>2, <5>1, SeenChange
        <5>2. CASE a.tag = "ok"
          <6>1. a = o
            BY <4>1, <4>3, <5>2 DEF Broken
          <6>2. QED
            BY <2>1, <4>1, <4>2, <4>4, <5>2, <6>1, SeenChange, OutcomeValue
        <5>3. QED
          BY <5>1, <5>2
      <4>11. Promise!Perform(e, c)
        BY <4>6, <4>8, <4>9, <4>10 DEF Promise!Perform, Promise!Show, Promise!Outcomes
      <4>12. QED
        BY <4>11 DEF Promise!Next
    <3>5. QED
      BY <2>4, <3>1, <3>2, <3>3, <3>4 DEF CallMoves
  <2>5. QED
    BY <2>1, <2>3, <2>4, StepCases
<1>3. QED
  BY <1>1, <1>2, AlwaysInv, PTL DEF Spec, DurableOutcomes
==============================================================================
