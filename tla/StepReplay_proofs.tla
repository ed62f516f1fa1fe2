--------------------------- MODULE StepReplay_proofs ---------------------------
(***************************************************************************)
(* Theorems about StepReplay for every handler, whether it spawns steps,     *)
(* nests them or not, and any number of executions, crashes and failures:    *)
(* its types, the rows that nobody replaces, and that no execution is stuck. *)
(***************************************************************************)
EXTENDS StepReplay, FiniteSets, FiniteSetTheorems, WellFoundedInduction, TLAPS

\* The calls that have taken a number from the counter of e.
Numbered(e) ==
  {c \in Calls : Body[c].fixed = None /\ Body[c].kind # "join"
                 /\ stage[e][c] \notin {"idle", "spawned"}}

\* An execution that is, or will be, running.
Coming(e) == life[e] \in {"unborn", "running"}

\* The counter is the number of the calls that have taken a number from it; a spawned call
\* is spawned once.
Counted ==
  \A e \in Executions :
    /\ counter[e] = Cardinality(Numbered(e))
    /\ \A c \in Calls :
         /\ stage[e][c] = "spawned" => Body[c].kind = "spawn"
         /\ Coming(e) /\ next[e] <= c /\ c <= Statements /\ Body[c].kind = "spawn"
              => stage[e][c] = "idle"

Stages == {"idle", "spawned", "numbered", "running", "ran", "done"}
Lives == {"unborn", "running", "ended", "aborted", "crashed"}

\* The parts of the type that a call of an execution can change.
RowsType ==
  steps \in [Ids -> [call : {0} \cup Calls, name : {None} \cup StepNames, result : Answers]]
ControlType ==
  /\ life \in [Executions -> Lives]
  /\ next \in [Executions -> 1..Statements]
  /\ stage \in [Executions -> [Calls -> Stages]]
NumberType ==
  /\ counter \in [Executions -> 0..Len(Body)]
  /\ number \in [Executions -> [Calls -> {0} \cup Ids]]
AnswerType == answer \in [Executions -> [Calls -> Answers]]
RestType ==
  /\ tries \in [Executions -> [Calls -> Nat]]
  /\ ran \in [Calls -> Nat]
  /\ overlapped \in BOOLEAN
BudgetType == budget \in [{"crash", "abort", "fault"} -> Nat]

\* The type is made of its parts, before a step and after it.
LEMMA TypeParts ==
  /\ TypeOK <=> RowsType /\ ControlType /\ NumberType /\ AnswerType /\ RestType /\ BudgetType
  /\ TypeOK' <=> RowsType' /\ ControlType' /\ NumberType' /\ AnswerType' /\ RestType' /\ BudgetType'
BY DEF TypeOK, RowsType, ControlType, NumberType, AnswerType, RestType, BudgetType, Stages, Lives
-----------------------------------------------------------------------------
(* The handler.                                                            *)

\* What the assumptions say of the calls.
LEMMA BodyFacts ==
  /\ Len(Body) \in Nat /\ Statements \in 1..Len(Body)
  /\ \A c \in Calls :
       /\ c \in Nat /\ 1 <= c /\ c <= Len(Body)
       /\ Body[c] \in CallType
       /\ Body[c].retries \in Nat /\ Body[c].name \in StepNames
       /\ Body[c].kind \in {"run", "spawn", "join"}
       /\ Body[c].fixed \in Nat \cup {None}
       /\ c > Statements => Body[c].kind = "run"
       /\ Body[c].fixed # None => Body[c].fixed \in Ids
       /\ c \in Ids
       /\ Body[c].waits \subseteq Calls
<1>1. Len(Body) \in Nat /\ Statements \in 1..Len(Body) /\ Body \in Seq(CallType)
  BY BodyAssumption
<1>2. SUFFICES ASSUME NEW c \in Calls
               PROVE  /\ c \in Nat /\ 1 <= c /\ c <= Len(Body)
                      /\ Body[c] \in CallType
                      /\ Body[c].retries \in Nat /\ Body[c].name \in StepNames
                      /\ Body[c].kind \in {"run", "spawn", "join"}
                      /\ Body[c].fixed \in Nat \cup {None}
                      /\ c > Statements => Body[c].kind = "run"
                      /\ Body[c].fixed # None => Body[c].fixed \in Ids
                      /\ c \in Ids
                      /\ Body[c].waits \subseteq Calls
  BY <1>1
<1>3. c \in Nat /\ 1 <= c /\ c <= Len(Body) /\ Body[c] \in CallType
  BY <1>1 DEF Calls
<1>4. /\ Body[c].retries \in Nat /\ Body[c].name \in StepNames
      /\ Body[c].kind \in {"run", "spawn", "join"}
      /\ Body[c].fixed \in Nat \cup {None}
  BY <1>3 DEF CallType
<1>5. c > Statements => Body[c].kind = "run"
  BY BodyAssumption
<1>6. c \in Ids /\ (Body[c].fixed # None => Body[c].fixed \in Ids)
  BY DEF Ids, FixedNumbers
<1>7. Body[c].waits \subseteq {d \in 1..(Root(c) - 1) : Body[d].kind = "spawn"}
  BY BodyAssumption
<1>8. 1..(Root(c) - 1) \subseteq Calls
  <2>1. Root(c) \in 1..Len(Body)
    BY <1>1, <1>3, BodyAssumption DEF Root
  <2>2. QED
    BY <1>1, <2>1 DEF Calls
<1>9. QED
  BY <1>3, <1>4, <1>5, <1>6, <1>7, <1>8

\* There are as many calls as the body is long, and no set of them is larger.
LEMMA CallsFinite ==
  /\ IsFiniteSet(Calls) /\ Cardinality(Calls) = Len(Body)
  /\ \A S \in SUBSET Calls : IsFiniteSet(S) /\ Cardinality(S) \in 0..Len(Body)
<1>1. Len(Body) \in Nat
  BY BodyFacts
<1>2. IsFiniteSet(Calls) /\ Cardinality(Calls) = Len(Body)
  <2>1. \A b \in Int : IsFiniteSet(1..b) /\ Cardinality(1..b) = IF 1 > b THEN 0 ELSE b - 1 + 1
    BY FS_Interval
  <2>2. QED
    BY <1>1, <2>1 DEF Calls
<1>3. ASSUME NEW S \in SUBSET Calls PROVE IsFiniteSet(S) /\ Cardinality(S) \in 0..Len(Body)
  <2>1. IsFiniteSet(S) /\ Cardinality(S) <= Cardinality(Calls)
    BY <1>2, FS_Subset
  <2>2. Cardinality(S) \in Nat
    BY <2>1, FS_CardinalityType
  <2>3. QED
    BY <1>1, <1>2, <2>1, <2>2
<1>4. QED
  BY <1>2, <1>3
-----------------------------------------------------------------------------
(* Types.                                                                  *)

\* The constant answers are answers.
LEMMA AnswersTyped ==
  /\ {Nothing, Failed, Unexpected, Undecodable, Broken} \subseteq Answers
  /\ \A v \in Values \cup {Null} : Ok(v) \in Answers
  /\ \A c \in Calls, n \in Nat : Ok(<<c, n>>) \in Answers
BY DEF Answers, Tags, Nothing, Failed, Unexpected, Undecodable, Broken, Ok, Null, Values

\* The initial state is typed and counted.
LEMMA InitTyped == Init => TypeOK /\ Counted
<1> SUFFICES ASSUME Init PROVE TypeOK /\ Counted
  OBVIOUS
<1>1. RowsType
  <2>1. NoRow \in [call : {0} \cup Calls, name : {None} \cup StepNames, result : Answers]
    BY AnswersTyped DEF NoRow
  <2>2. QED
    BY <2>1 DEF Init, RowsType
<1>2. ControlType
  BY BodyFacts DEF Init, ControlType, Lives, Stages
<1>3. NumberType
  BY BodyFacts DEF Init, NumberType
<1>4. AnswerType
  BY AnswersTyped DEF Init, AnswerType
<1>5. RestType
  BY DEF Init, RestType
<1>6. BudgetType
  BY BoundsAssumption DEF Init, BudgetType
<1>7. Counted
  <2>1. ASSUME NEW e \in Executions PROVE counter[e] = Cardinality(Numbered(e))
    <3>1. Numbered(e) = {}
      BY DEF Init, Numbered
    <3>2. QED
      BY <3>1, FS_EmptySet DEF Init
  <2>2. QED
    BY <2>1 DEF Init, Counted
<1>8. QED
  BY <1>1, <1>2, <1>3, <1>4, <1>5, <1>6, <1>7, TypeParts

\* No step lets an execution that has ended run again, or go back.
Onward ==
  \A e \in Executions : (Coming(e)' => Coming(e)) /\ next[e] <= next'[e]

\* A call moves on, without a number.
LEMMA MoveCounted ==
  ASSUME ControlType, Counted, Onward, NEW e \in Executions, NEW c \in Calls, NEW s,
         Body[c].kind = "join" \/ stage[e][c] \notin {"idle", "spawned"},
         s \notin {"idle", "spawned"},
         stage' = [stage EXCEPT ![e][c] = s],
         ControlType', counter' = counter
  PROVE  Counted'
<1> SUFFICES ASSUME NEW f \in Executions
             PROVE  /\ counter'[f] = Cardinality(Numbered(f)')
                    /\ \A d \in Calls :
                         /\ stage'[f][d] = "spawned" => Body[d].kind = "spawn"
                         /\ Coming(f)' /\ next'[f] <= d /\ d <= Statements /\ Body[d].kind = "spawn"
                              => stage'[f][d] = "idle"
  BY DEF Counted
<1>1. \A d \in Calls : stage'[f][d] = stage[f][d] \/ (f = e /\ d = c /\ stage'[f][d] = s)
  BY DEF ControlType
<1>2. Numbered(f)' = Numbered(f)
  BY <1>1 DEF Numbered
<1>3. counter'[f] = Cardinality(Numbered(f)')
  BY <1>2 DEF Counted
<1>4. ASSUME NEW d \in Calls
      PROVE  /\ stage'[f][d] = "spawned" => Body[d].kind = "spawn"
             /\ Coming(f)' /\ next'[f] <= d /\ d <= Statements /\ Body[d].kind = "spawn"
                  => stage'[f][d] = "idle"
  <2>1. stage'[f][d] = "spawned" => Body[d].kind = "spawn"
    BY <1>1 DEF Counted
  <2>2. ASSUME Coming(f)', next'[f] <= d, d <= Statements, Body[d].kind = "spawn"
        PROVE  stage'[f][d] = "idle"
    <3>1. Coming(f) /\ next[f] <= d
      BY <2>2, BodyFacts DEF Onward, ControlType
    <3>2. stage[f][d] = "idle"
      BY <2>2, <3>1 DEF Counted
    <3>3. QED
      BY <1>1, <2>2, <3>2
  <2>3. QED
    BY <2>1, <2>2
<1>5. QED
  BY <1>3, <1>4

\* Nothing happens to the calls.
LEMMA StillCounted ==
  ASSUME ControlType, Counted, Onward, stage' = stage, counter' = counter, ControlType'
  PROVE  Counted'
<1> SUFFICES ASSUME NEW f \in Executions
             PROVE  /\ counter'[f] = Cardinality(Numbered(f)')
                    /\ \A d \in Calls :
                         /\ stage'[f][d] = "spawned" => Body[d].kind = "spawn"
                         /\ Coming(f)' /\ next'[f] <= d /\ d <= Statements /\ Body[d].kind = "spawn"
                              => stage'[f][d] = "idle"
  BY DEF Counted
<1>1. Numbered(f)' = Numbered(f)
  BY DEF Numbered
<1>2. ASSUME NEW d \in Calls, Coming(f)', next'[f] <= d PROVE Coming(f) /\ next[f] <= d
  BY <1>2, BodyFacts DEF Onward, ControlType
<1>3. QED
  BY <1>1, <1>2 DEF Counted

\* The handler goes on, or returns.
LEMMA ProceedTyped ==
  ASSUME ControlType, NEW e \in Executions, life[e] # "unborn", NEW g \in BOOLEAN, Proceed(e, g)
  PROVE  /\ life' \in [Executions -> Lives] /\ next' \in [Executions -> 1..Statements]
         /\ Onward
         /\ Coming(e)' => next'[e] = next[e] + 1
<1>1. Statements \in Nat /\ life \in [Executions -> Lives] /\ next \in [Executions -> 1..Statements]
  BY BodyFacts DEF ControlType
<1>2. CASE g /\ next[e] < Statements
  <2>1. next' = [next EXCEPT ![e] = next[e] + 1] /\ life' = life
    BY <1>2 DEF Proceed
  <2>2. next[e] + 1 \in 1..Statements
    BY <1>1, <1>2
  <2>3. QED
    BY <1>1, <2>1, <2>2 DEF Onward, Coming
<1>3. CASE ~(g /\ next[e] < Statements)
  <2>1. life' = [life EXCEPT ![e] = "ended"] /\ next' = next
    BY <1>3 DEF Proceed
  <2>2. QED
    BY <1>1, <2>1 DEF Onward, Coming, Lives
<1>4. QED
  BY <1>2, <1>3

\* A call returns.
LEMMA ReturnTyped ==
  ASSUME TypeOK, NEW e \in Executions, NEW c \in Calls, NEW a \in Answers, life[e] # "unborn",
         Return(e, c, a)
  PROVE  /\ ControlType' /\ AnswerType' /\ Onward
         /\ stage' = [stage EXCEPT ![e][c] = "done"]
<1>1. ControlType /\ AnswerType
  BY TypeParts
<1>2. /\ stage' = [stage EXCEPT ![e][c] = "done"]
      /\ answer' = [answer EXCEPT ![e][c] = a]
  BY DEF Return
<1>3. stage' \in [Executions -> [Calls -> Stages]] /\ AnswerType'
  BY <1>1, <1>2 DEF ControlType, AnswerType, Stages
<1>4. /\ life' \in [Executions -> Lives] /\ next' \in [Executions -> 1..Statements]
      /\ Onward
  <2>1. CASE c <= Statements /\ Body[c].kind # "spawn"
    <3>1. Proceed(e, a.tag = "ok" \/ ~Body[c].strict)
      BY <2>1 DEF Return
    <3>2. QED
      BY <1>1, <3>1, ProceedTyped
  <2>2. CASE ~(c <= Statements /\ Body[c].kind # "spawn")
    <3>1. next' = next /\ life' = life
      BY <2>2 DEF Return
    <3>2. QED
      BY <1>1, <3>1, BodyFacts DEF ControlType, Onward, Coming
  <2>3. QED
    BY <2>1, <2>2
<1>5. QED
  BY <1>2, <1>3, <1>4 DEF ControlType

\* A call that control has reached has no number yet, and is not awaiting.
LEMMA ReachedFacts ==
  ASSUME ControlType, Counted, NEW e \in Executions, NEW c \in Calls, Reached(e, c)
  PROVE  /\ stage[e][c] \in {"idle", "spawned"} /\ Body[c].kind # "join"
         /\ life[e] # "unborn"
         /\ Body[c].kind = "run" \/ stage[e][c] = "spawned"
BY BodyFacts DEF Reached, Alive, Counted

\* A call takes its number.
LEMMA NumberTyped ==
  ASSUME TypeOK, Counted, NEW e \in Executions, NEW c \in Calls, NextStepId(e, c)
  PROVE  TypeOK' /\ Counted'
<1>1. /\ RowsType /\ ControlType /\ NumberType /\ AnswerType /\ RestType /\ BudgetType
      /\ Len(Body) \in Nat
  BY TypeParts, BodyFacts
<1>2. /\ stage[e][c] \in {"idle", "spawned"} /\ Body[c].kind # "join"
      /\ Body[c].kind = "run" \/ stage[e][c] = "spawned"
  BY <1>1, ReachedFacts DEF NextStepId
<1>3. /\ stage' = [stage EXCEPT ![e][c] = "numbered"]
      /\ UNCHANGED <<steps, life, next, tries, answer, ran, overlapped, budget>>
  BY DEF NextStepId
<1>4. RowsType' /\ ControlType' /\ AnswerType' /\ RestType' /\ BudgetType'
  BY <1>1, <1>3 DEF RowsType, ControlType, AnswerType, RestType, BudgetType, Stages
<1>5. \A f \in Executions, d \in Calls :
        stage'[f][d] = IF f = e /\ d = c THEN "numbered" ELSE stage[f][d]
  BY <1>1, <1>3 DEF ControlType
<1>6. Numbered(e) \in SUBSET Calls /\ Numbered(e)' \in SUBSET Calls
  BY DEF Numbered
<1>7. \A f \in Executions : f # e => Numbered(f)' = Numbered(f)
  BY <1>5 DEF Numbered
<1>8. /\ NumberType'
      /\ \A f \in Executions : counter'[f] = Cardinality(Numbered(f)')
  <2>1. CASE Body[c].fixed = None
    <3>1. /\ number' = [number EXCEPT ![e][c] = counter[e] + 1]
          /\ counter' = [counter EXCEPT ![e] = counter[e] + 1]
      BY <2>1 DEF NextStepId, TakeNumber
    <3>2. Numbered(e)' = Numbered(e) \cup {c} /\ c \notin Numbered(e)
      BY <1>2, <1>5, <2>1 DEF Numbered
    <3>3. Cardinality(Numbered(e)') = Cardinality(Numbered(e)) + 1
      BY <1>6, <3>2, CallsFinite, FS_AddElement
    <3>4. counter[e] = Cardinality(Numbered(e))
      BY DEF Counted
    <3>5. counter[e] + 1 \in 1..Len(Body)
      BY <1>1, <1>6, <3>3, <3>4, CallsFinite DEF NumberType
    <3>6. counter[e] + 1 \in Ids
      BY <3>5 DEF Ids, Calls
    <3>7. NumberType'
      BY <1>1, <3>1, <3>5, <3>6 DEF NumberType
    <3>8. \A f \in Executions : counter'[f] = Cardinality(Numbered(f)')
      BY <1>1, <1>7, <3>1, <3>3, <3>4 DEF NumberType, Counted
    <3>9. QED
      BY <3>7, <3>8
  <2>2. CASE Body[c].fixed # None
    <3>1. number' = [number EXCEPT ![e][c] = Body[c].fixed] /\ counter' = counter
      BY <2>2 DEF NextStepId
    <3>2. Numbered(e)' = Numbered(e)
      BY <1>5, <2>2 DEF Numbered
    <3>3. Body[c].fixed \in Ids
      BY <2>2, BodyFacts
    <3>4. QED
      BY <1>1, <1>7, <3>1, <3>2, <3>3 DEF NumberType, Counted
  <2>3. QED
    BY <2>1, <2>2
<1>9. Counted'
  <2> SUFFICES ASSUME NEW f \in Executions, NEW d \in Calls
               PROVE  /\ stage'[f][d] = "spawned" => Body[d].kind = "spawn"
                      /\ Coming(f)' /\ next'[f] <= d /\ d <= Statements /\ Body[d].kind = "spawn"
                           => stage'[f][d] = "idle"
    BY <1>8 DEF Counted
  <2>1. /\ stage[f][d] = "spawned" => Body[d].kind = "spawn"
        /\ Coming(f) /\ next[f] <= d /\ d <= Statements /\ Body[d].kind = "spawn"
             => stage[f][d] = "idle"
    BY DEF Counted
  <2>2. Coming(f)' <=> Coming(f)
    BY <1>3 DEF Coming
  <2>3. QED
    BY <1>2, <1>3, <1>5, <2>1, <2>2
<1>10. QED
  BY <1>4, <1>8, <1>9, TypeParts

\* A step is spawned.
LEMMA SpawnTyped ==
  ASSUME TypeOK, Counted, NEW e \in Executions, SpawnStep(e)
  PROVE  TypeOK' /\ Counted'
<1>1. /\ RowsType /\ ControlType /\ NumberType /\ AnswerType /\ RestType /\ BudgetType
      /\ Len(Body) \in Nat /\ Statements \in 1..Len(Body)
  BY TypeParts, BodyFacts
<1> DEFINE c == next[e]
<1>2. c \in Calls /\ c <= Statements /\ c \in Nat
  BY <1>1 DEF ControlType, Calls
<1>3. /\ life[e] = "running" /\ Body[c].kind = "spawn"
      /\ stage' = [stage EXCEPT ![e][c] = "spawned"]
      /\ Proceed(e, TRUE)
      /\ UNCHANGED <<steps, counter, number, tries, answer, ran, overlapped, budget>>
  BY DEF SpawnStep
<1>4. /\ life' \in [Executions -> Lives] /\ next' \in [Executions -> 1..Statements] /\ Onward
      /\ Coming(e)' => next'[e] = c + 1
  BY <1>1, <1>3, ProceedTyped
<1>5. ControlType'
  BY <1>1, <1>2, <1>3, <1>4 DEF ControlType, Stages
<1>6. RowsType' /\ NumberType' /\ AnswerType' /\ RestType' /\ BudgetType'
  BY <1>1, <1>3 DEF RowsType, NumberType, AnswerType, RestType, BudgetType
<1>7. \A f \in Executions, d \in Calls :
        stage'[f][d] = IF f = e /\ d = c THEN "spawned" ELSE stage[f][d]
  BY <1>1, <1>3 DEF ControlType
<1>8. stage[e][c] = "idle"
  BY <1>2, <1>3 DEF Counted, Coming
<1>9. ASSUME NEW f \in Executions PROVE counter'[f] = Cardinality(Numbered(f)')
  <2>1. Numbered(f)' = Numbered(f)
    BY <1>7, <1>8 DEF Numbered
  <2>2. QED
    BY <1>3, <2>1 DEF Counted
<1>10. ASSUME NEW f \in Executions, NEW d \in Calls
       PROVE  /\ stage'[f][d] = "spawned" => Body[d].kind = "spawn"
              /\ Coming(f)' /\ next'[f] <= d /\ d <= Statements /\ Body[d].kind = "spawn"
                   => stage'[f][d] = "idle"
  <2>1. stage'[f][d] = "spawned" => Body[d].kind = "spawn"
    BY <1>3, <1>7 DEF Counted
  <2>2. ASSUME Coming(f)', next'[f] <= d, d <= Statements, Body[d].kind = "spawn"
        PROVE  stage'[f][d] = "idle"
    <3>1. Coming(f) /\ next[f] <= next'[f] /\ next[f] \in Nat /\ next'[f] \in Nat /\ d \in Nat
      BY <1>1, <1>4, <2>2, BodyFacts DEF Onward, ControlType
    <3>2. next[f] <= d
      BY <2>2, <3>1
    <3>3. stage[f][d] = "idle"
      BY <2>2, <3>1, <3>2 DEF Counted
    <3>4. ~(f = e /\ d = c)
      BY <1>2, <1>4, <2>2
    <3>5. QED
      BY <1>7, <3>3, <3>4
  <2>3. QED
    BY <2>1, <2>2
<1>11. Counted'
  BY <1>9, <1>10 DEF Counted
<1>12. QED
  BY <1>5, <1>6, <1>11, TypeParts

\* A call under way has a number.
HasNumber ==
  \A e \in Executions, c \in Calls :
    stage[e][c] \in {"numbered", "running", "ran"} => number[e][c] \in Ids

Typed == TypeOK /\ Counted /\ HasNumber

\* A call that moves on keeps its number.
LEMMA MoveNumber ==
  ASSUME ControlType, HasNumber, NEW e \in Executions, NEW c \in Calls, NEW s,
         s \in {"done", "idle", "spawned"} \/ stage[e][c] \in {"numbered", "running", "ran"},
         stage' = [stage EXCEPT ![e][c] = s], number' = number
  PROVE  HasNumber'
BY DEF ControlType, HasNumber

\* A call that has taken its number has one.
LEMMA TakenNumber ==
  ASSUME TypeOK, Counted, HasNumber, NEW e \in Executions, NEW c \in Calls, NextStepId(e, c)
  PROVE  HasNumber'
<1>1. ControlType /\ NumberType /\ NumberType' /\ Len(Body) \in Nat
  BY NumberTyped, TypeParts, BodyFacts
<1>2. stage' = [stage EXCEPT ![e][c] = "numbered"]
  BY DEF NextStepId
<1>3. CASE Body[c].fixed = None
  <2>1. /\ number' = [number EXCEPT ![e][c] = counter[e] + 1]
        /\ counter' = [counter EXCEPT ![e] = counter[e] + 1]
    BY <1>3 DEF NextStepId, TakeNumber
  <2>2. counter'[e] = counter[e] + 1 /\ counter'[e] \in 0..Len(Body) /\ counter[e] \in 0..Len(Body)
    BY <1>1, <2>1 DEF NumberType
  <2>3. counter[e] + 1 \in Calls
    BY <1>1, <2>2 DEF Calls
  <2>4. counter[e] + 1 \in Ids
    BY <2>3 DEF Ids
  <2>5. QED
    BY <1>1, <1>2, <2>1, <2>4 DEF ControlType, NumberType, HasNumber
<1>4. CASE Body[c].fixed # None
  <2>1. number' = [number EXCEPT ![e][c] = Body[c].fixed] /\ Body[c].fixed \in Ids
    BY <1>4, BodyFacts DEF NextStepId
  <2>2. QED
    BY <1>1, <1>2, <2>1 DEF ControlType, NumberType, HasNumber
<1>5. QED
  BY <1>3, <1>4

\* What a row is answered with.
LEMMA ReplayedTyped ==
  ASSUME NEW c \in Calls,
         NEW row \in [call : {0} \cup Calls, name : {None} \cup StepNames, result : Answers]
  PROVE  Replayed(c, row) \in Answers
<1>1. row.result \in Answers
  OBVIOUS
<1>2. CASE row.name # Body[c].name
  BY <1>2, AnswersTyped DEF Replayed
<1>3. CASE row.name = Body[c].name /\ row.result # Failed
  BY <1>1, <1>3 DEF Replayed
<1>4. CASE row.name = Body[c].name /\ row.result = Failed
  <2>1. Replayed(c, row) = IF Body[c].nullable THEN Ok(Null) ELSE Undecodable
    BY <1>4 DEF Replayed
  <2>2. QED
    BY <2>1, AnswersTyped
<1>5. QED
  BY <1>2, <1>3, <1>4

\* A call returns a typed answer, with typed rows.
LEMMA ReturnKeepsTyped ==
  ASSUME Typed, NEW e \in Executions, NEW c \in Calls, NEW a \in Answers,
         stage[e][c] \in {"numbered", "running", "ran"} \/ Body[c].kind = "join",
         life[e] # "unborn", Return(e, c, a), RowsType', BudgetType',
         UNCHANGED <<counter, number, tries, ran, overlapped>>
  PROVE  Typed'
<1>1. /\ TypeOK /\ Counted /\ HasNumber
      /\ ControlType /\ NumberType /\ RestType
  BY TypeParts DEF Typed
<1>2. ControlType' /\ AnswerType' /\ Onward /\ stage' = [stage EXCEPT ![e][c] = "done"]
  BY <1>1, ReturnTyped
<1>3. NumberType' /\ RestType'
  BY <1>1 DEF NumberType, RestType
<1>4. Counted'
  <2>1. /\ Body[c].kind = "join" \/ stage[e][c] \notin {"idle", "spawned"}
        /\ "done" \notin {"idle", "spawned"} /\ counter' = counter
    OBVIOUS
  <2>2. QED
    BY <1>1, <1>2, <2>1, MoveCounted, Zenon
<1>5. HasNumber'
  BY <1>1, <1>2, MoveNumber
<1>6. QED
  BY <1>2, <1>3, <1>4, <1>5, TypeParts DEF Typed

\* A call looks its row up.
LEMMA LookTyped ==
  ASSUME Typed, NEW e \in Executions, NEW c \in Calls, GetStep(e, c)
  PROVE  Typed'
<1>1. /\ TypeOK /\ Counted /\ HasNumber
      /\ RowsType /\ ControlType /\ NumberType /\ AnswerType /\ RestType /\ BudgetType
  BY TypeParts DEF Typed
<1> DEFINE row == steps[number[e][c]]
<1>2. /\ stage[e][c] = "numbered" /\ life[e] # "unborn"
      /\ UNCHANGED <<steps, counter, number, tries, ran, overlapped, budget>>
  BY DEF GetStep, Alive
<1>3. row \in [call : {0} \cup Calls, name : {None} \cup StepNames, result : Answers]
  BY <1>1, <1>2 DEF HasNumber, RowsType
<1>4. RowsType' /\ BudgetType'
  BY <1>1, <1>2 DEF RowsType, BudgetType
<1>5. CASE ~ToRun(row) /\ Return(e, c, Replayed(c, row))
  BY <1>2, <1>3, <1>4, <1>5, ReplayedTyped, ReturnKeepsTyped
<1>6. CASE /\ stage' = [stage EXCEPT ![e][c] = "running"]
           /\ UNCHANGED <<answer, next, life>>
  <2>1. ControlType' /\ AnswerType' /\ NumberType' /\ RestType'
    BY <1>1, <1>2, <1>6 DEF ControlType, AnswerType, NumberType, RestType, Stages
  <2>2. Onward
    BY <1>1, <1>6, BodyFacts DEF Onward, Coming, ControlType
  <2>3. Counted'
    <3>1. /\ stage[e][c] \notin {"idle", "spawned"}
          /\ "running" \notin {"idle", "spawned"} /\ counter' = counter
      BY <1>2
    <3>2. QED
      BY <1>1, <1>6, <2>1, <2>2, <3>1, MoveCounted, Zenon
  <2>4. HasNumber'
    BY <1>1, <1>2, <1>6, MoveNumber
  <2>5. QED
    BY <1>4, <2>1, <2>3, <2>4, TypeParts DEF Typed
<1>7. QED
  BY <1>5, <1>6 DEF GetStep

\* What one run of an operation returns.
LEMMA OutcomeTyped ==
  ASSUME Typed, NEW e \in Executions, NEW c \in Calls, NEW a \in Outcomes(e, c)
  PROVE  a \in Answers
<1> DEFINE own == {Ok(<<c, ran[c] + 1>>), Failed}
           chosen == {IF answer[e][d].tag = "ok" THEN answer[e][d] ELSE Failed : d \in Finished(e, c)}
<1>1. a \in {Failed} \cup own \cup chosen
  BY DEF Outcomes
<1>2. AnswerType /\ ran[c] \in Nat
  BY TypeParts DEF Typed, RestType
<1>3. Failed \in Answers /\ own \subseteq Answers
  BY <1>2, AnswersTyped
<1>4. ASSUME NEW d \in Finished(e, c)
      PROVE  (IF answer[e][d].tag = "ok" THEN answer[e][d] ELSE Failed) \in Answers
  <2>1. d \in Calls
    BY BodyFacts DEF Finished
  <2>2. answer[e][d] \in Answers
    BY <1>2, <2>1 DEF AnswerType
  <2>3. QED
    BY <1>3, <2>2
<1>5. chosen \subseteq Answers
  BY <1>4
<1>6. QED
  BY <1>1, <1>3, <1>5

\* An operation is run.
LEMMA OperateTyped ==
  ASSUME Typed, NEW e \in Executions, NEW c \in Calls, Operate(e, c)
  PROVE  Typed'
<1>1. /\ TypeOK /\ Counted /\ HasNumber
      /\ RowsType /\ ControlType /\ NumberType /\ AnswerType /\ RestType /\ BudgetType
  BY TypeParts DEF Typed
<1>2. /\ stage[e][c] = "running" /\ ran' = [ran EXCEPT ![c] = ran[c] + 1]
      /\ UNCHANGED <<steps, life, next, overlapped, budget, counter, number>>
  BY DEF Operate, Retry
<1>3. RowsType' /\ NumberType' /\ BudgetType' /\ ran' \in [Calls -> Nat] /\ overlapped' \in BOOLEAN
  BY <1>1, <1>2 DEF RowsType, NumberType, BudgetType, RestType
<1>4. Onward
  BY <1>1, <1>2, BodyFacts DEF Onward, Coming, ControlType
<1>5. PICK a \in Outcomes(e, c) :
        \/ /\ stage' = [stage EXCEPT ![e][c] = "ran"]
           /\ answer' = [answer EXCEPT ![e][c] = a]
           /\ tries' = tries
        \/ tries' = [tries EXCEPT ![e][c] = tries[e][c] + 1] /\ UNCHANGED <<stage, answer>>
  BY DEF Operate, Retry
<1>6. a \in Answers
  BY OutcomeTyped
<1>7. CASE /\ stage' = [stage EXCEPT ![e][c] = "ran"]
           /\ answer' = [answer EXCEPT ![e][c] = a]
           /\ tries' = tries
  <2>1. ControlType' /\ AnswerType' /\ RestType'
    BY <1>1, <1>2, <1>3, <1>6, <1>7 DEF ControlType, AnswerType, RestType, Stages
  <2>2. Counted'
    <3>1. /\ stage[e][c] \notin {"idle", "spawned"}
          /\ "ran" \notin {"idle", "spawned"} /\ counter' = counter
      BY <1>2
    <3>2. QED
      BY <1>1, <1>4, <1>7, <2>1, <3>1, MoveCounted, Zenon
  <2>3. HasNumber'
    BY <1>1, <1>2, <1>7, MoveNumber
  <2>4. QED
    BY <1>3, <2>1, <2>2, <2>3, TypeParts DEF Typed
<1>8. CASE tries' = [tries EXCEPT ![e][c] = tries[e][c] + 1] /\ UNCHANGED <<stage, answer>>
  <2>1. ControlType' /\ AnswerType' /\ RestType'
    BY <1>1, <1>2, <1>3, <1>8 DEF ControlType, AnswerType, RestType
  <2>2. Counted' /\ HasNumber'
    BY <1>1, <1>2, <1>4, <1>8, <2>1, StillCounted DEF HasNumber
  <2>3. QED
    BY <1>3, <2>1, <2>2, TypeParts DEF Typed
<1>9. QED
  BY <1>5, <1>7, <1>8

\* A row is written.
LEMMA WriteTyped ==
  ASSUME Typed, NEW e \in Executions, NEW c \in Calls, Write(e, c)
  PROVE  RowsType'
<1>1. RowsType /\ answer[e][c] \in Answers
  BY TypeParts DEF Typed, AnswerType
<1>2. Row(c, answer[e][c])
        \in [call : {0} \cup Calls, name : {None} \cup StepNames, result : Answers]
  BY <1>1, BodyFacts DEF Row
<1>3. QED
  BY <1>1, <1>2 DEF Write, RowsType

\* A step is recorded, or fails.
LEMMA RecordTyped ==
  ASSUME Typed, NEW e \in Executions, NEW c \in Calls, RecordStep(e, c) \/ StepFault(e, c)
  PROVE  Typed'
<1>1. RowsType /\ BudgetType /\ answer[e][c] \in Answers
  BY TypeParts DEF Typed, AnswerType
<1>2. CASE RecordStep(e, c)
  <2>1. /\ stage[e][c] = "ran" /\ life[e] # "unborn" /\ Write(e, c)
        /\ Return(e, c, answer[e][c])
        /\ UNCHANGED <<counter, number, tries, ran, overlapped, budget>>
    BY <1>2 DEF RecordStep, Alive
  <2>2. RowsType' /\ BudgetType'
    BY <1>1, <2>1, WriteTyped DEF BudgetType
  <2>3. QED
    BY <1>1, <2>1, <2>2, ReturnKeepsTyped
<1>3. CASE StepFault(e, c)
  <2>1. /\ stage[e][c] \in {"numbered", "ran"} /\ life[e] # "unborn"
        /\ Write(e, c) \/ steps' = steps
        /\ Return(e, c, Broken) /\ Spend("fault")
        /\ UNCHANGED <<counter, number, tries, ran, overlapped>>
    BY <1>3 DEF StepFault, Alive
  <2>2. RowsType'
    BY <1>1, <2>1, WriteTyped DEF RowsType
  <2>3. BudgetType'
    BY <1>1, <2>1 DEF BudgetType, Spend
  <2>4. Broken \in Answers
    BY AnswersTyped
  <2>5. QED
    BY <2>1, <2>2, <2>3, <2>4, ReturnKeepsTyped
<1>4. QED
  BY <1>2, <1>3

\* The handler awaits a step.
LEMMA JoinTyped ==
  ASSUME Typed, NEW e \in Executions, Join(e)
  PROVE  Typed'
<1>1. RowsType /\ ControlType /\ AnswerType /\ BudgetType
  BY TypeParts DEF Typed
<1>2. PICK c \in Calls : c = next[e]
  BY <1>1, BodyFacts DEF ControlType, Calls
<1>3. /\ life[e] = "running" /\ Body[c].kind = "join"
      /\ \E d \in Finished(e, c) : Return(e, c, answer[e][d])
      /\ UNCHANGED <<steps, counter, number, tries, ran, overlapped, budget>>
  BY <1>2 DEF Join
<1>4. PICK d \in Finished(e, c) : Return(e, c, answer[e][d])
  BY <1>3
<1>5. d \in Calls
  BY BodyFacts DEF Finished
<1>6. answer[e][d] \in Answers /\ RowsType' /\ BudgetType'
  BY <1>1, <1>3, <1>5 DEF AnswerType, RowsType, BudgetType
<1>7. QED
  BY <1>3, <1>4, <1>6, ReturnKeepsTyped

\* An execution begins, dies or is aborted.
LEMMA LifeTyped ==
  ASSUME Typed, Crash \/ \E e \in Executions : Begin(e) \/ Abort(e)
  PROVE  Typed'
<1>1. /\ TypeOK /\ Counted /\ HasNumber
      /\ RowsType /\ ControlType /\ NumberType /\ AnswerType /\ RestType /\ BudgetType
  BY TypeParts DEF Typed
<1>2. UNCHANGED <<steps, counter, next, stage, number, tries, answer, ran>>
  BY DEF Crash, Begin, Abort
<1>3. BudgetType'
  BY <1>1 DEF Crash, Begin, Abort, BudgetType, Spend
<1>4. overlapped' \in BOOLEAN
  BY <1>1 DEF Crash, Begin, Abort, RestType
<1>5. life' \in [Executions -> Lives] /\ \A e \in Executions : Coming(e)' => Coming(e)
  <2>1. CASE Crash
    BY <1>1, <2>1 DEF Crash, ControlType, Coming, Lives
  <2>2. ASSUME NEW e \in Executions, Begin(e) \/ Abort(e) 
        PROVE  life' \in [Executions -> Lives] /\ \A f \in Executions : Coming(f)' => Coming(f)
    BY <1>1, <2>2 DEF Begin, Abort, ControlType, Coming, Lives
  <2>3. QED
    BY <2>1, <2>2
<1>6. RowsType' /\ ControlType' /\ NumberType' /\ AnswerType' /\ RestType' /\ HasNumber'
  BY <1>1, <1>2, <1>4, <1>5 DEF RowsType, ControlType, NumberType, AnswerType, RestType, HasNumber
<1>7. Onward
  BY <1>1, <1>2, <1>5, BodyFacts DEF Onward, ControlType
<1>8. Counted'
  BY <1>1, <1>2, <1>6, <1>7, StillCounted
<1>9. QED
  BY <1>3, <1>6, <1>8, TypeParts DEF Typed

\* Every step keeps the types.
LEMMA StepTyped == Typed /\ [Next]_vars => Typed'
<1> SUFFICES ASSUME Typed, [Next]_vars PROVE Typed'
  OBVIOUS
<1>1. TypeOK /\ Counted /\ HasNumber
  BY DEF Typed
<1>2. CASE Crash \/ \E e \in Executions : Begin(e) \/ Abort(e)
  BY <1>2, LifeTyped
<1>3. ASSUME NEW e \in Executions, SpawnStep(e) PROVE Typed'
  <2>1. TypeOK' /\ Counted'
    BY <1>1, <1>3, SpawnTyped
  <2>2. PICK c \in Calls : c = next[e]
    BY <1>1, BodyFacts DEF TypeOK, Calls
  <2>3. stage' = [stage EXCEPT ![e][c] = "spawned"] /\ number' = number
    BY <1>3, <2>2 DEF SpawnStep
  <2>4. HasNumber'
    BY <1>1, <2>3, TypeParts, MoveNumber
  <2>5. QED
    BY <2>1, <2>4 DEF Typed
<1>4. ASSUME NEW e \in Executions, Join(e) PROVE Typed'
  BY <1>4, JoinTyped
<1>5. ASSUME NEW e \in Executions, NEW c \in Calls,
             \/ NextStepId(e, c) \/ GetStep(e, c) \/ Operate(e, c) \/ RecordStep(e, c)
             \/ StepFault(e, c)
      PROVE  Typed'
  <2>1. CASE NextStepId(e, c)
    BY <1>1, <2>1, NumberTyped, TakenNumber DEF Typed
  <2>2. CASE GetStep(e, c)
    BY <2>2, LookTyped
  <2>3. CASE Operate(e, c)
    BY <2>3, OperateTyped
  <2>4. CASE RecordStep(e, c) \/ StepFault(e, c)
    BY <2>4, RecordTyped
  <2>5. QED
    BY <1>5, <2>1, <2>2, <2>3, <2>4
<1>6. CASE UNCHANGED vars
  <2>1. Onward
    BY <1>1, <1>6, BodyFacts DEF Onward, Coming, TypeOK, vars
  <2>2. TypeOK'
    BY <1>1, <1>6 DEF TypeOK, vars
  <2>3. Counted'
    BY <1>1, <1>6, <2>1, <2>2, TypeParts, StillCounted DEF vars
  <2>4. HasNumber'
    BY <1>1, <1>6 DEF HasNumber, vars
  <2>5. QED
    BY <2>2, <2>3, <2>4 DEF Typed
<1>7. QED
  BY <1>2, <1>3, <1>4, <1>5, <1>6 DEF Next

\* Types, for every handler.
LEMMA AlwaysTyped == Spec => []Typed
<1>1. Init => Typed
  BY InitTyped DEF Typed, Init, HasNumber
<1>2. QED
  BY <1>1, StepTyped, PTL DEF Spec

\* Whatever the handler is, the variables keep their types: the counter of an execution
\* never passes the number of its calls, and so every step row has a number of its own.
THEOREM TypeCorrect == Spec => []TypeOK
<1>1. Typed => TypeOK
  BY DEF Typed
<1>2. QED
  BY <1>1, AlwaysTyped, PTL
-----------------------------------------------------------------------------
(* Rows that nobody replaces, for handlers that spawn steps and nest them.  *)

\* The calls that take their number from the counter.
CounterCalls == {c \in Calls : Body[c].fixed = None /\ Body[c].kind # "join"}

\* The numbers that calls fix are their own, and beyond those the counter can give.
OwnNumbers ==
  \A c \in Calls : Body[c].fixed # None =>
    /\ Body[c].fixed \notin 1..Cardinality(CounterCalls)
    /\ \A d \in Calls : Body[d].fixed = Body[c].fixed => d = c

HoldsNumber(e, c) == Body[c].kind # "join" /\ stage[e][c] \notin {"idle", "spawned"}

\* No two calls of an execution have one number, and an execution that has not begun has
\* made no call.
Apart ==
  \A e \in Executions, c \in Calls :
    /\ life[e] = "unborn" => stage[e][c] = "idle"
    /\ Body[c].kind = "join" => stage[e][c] \in {"idle", "done"}
    /\ HoldsNumber(e, c) =>
         /\ IF Body[c].fixed # None THEN number[e][c] = Body[c].fixed
            ELSE number[e][c] \in 1..counter[e]
         /\ \A d \in Calls : HoldsNumber(e, d) /\ number[e][d] = number[e][c] => d = c

\* Something of the execution still runs: its handler, or a step that it has spawned.
Busy(e) == life[e] = "running" \/ Active(e)

\* While executions have not overlapped one is busy at a time, and the operations it runs
\* are those of calls without a row.
Fresh ==
  ~overlapped =>
    /\ \A e, f \in Executions : Busy(e) /\ Busy(f) => e = f
    /\ \A e \in Executions, c \in Calls :
         Alive(e, c) /\ stage[e][c] \in {"running", "ran"} => steps[number[e][c]] = NoRow

FreshInv == Typed /\ Apart /\ Fresh /\ AnswersOnRecord

\* No step but Begin makes an execution run, and none brings one back to life.
LivesOn ==
  \A f \in Executions :
    \/ life'[f] = life[f]
    \/ life'[f] = "crashed" /\ Busy(f)
    \/ life'[f] \in {"ended", "aborted"} /\ life[f] = "running"

\* What a call does when it moves on.
Spawned(e, c) ==
  /\ Body[c].kind = "spawn" /\ stage[e][c] = "idle"
  /\ stage' = [stage EXCEPT ![e][c] = "spawned"]
  /\ UNCHANGED <<steps, counter, number, answer>>
Numbering(e, c) ==
  /\ Body[c].kind # "join" /\ stage[e][c] \in {"idle", "spawned"}
  /\ stage' = [stage EXCEPT ![e][c] = "numbered"]
  /\ \/ Body[c].fixed = None /\ TakeNumber(e, c)
     \/ /\ Body[c].fixed # None /\ number' = [number EXCEPT ![e][c] = Body[c].fixed]
        /\ UNCHANGED counter
  /\ UNCHANGED <<steps, answer>>
Missing(e, c) ==
  /\ stage[e][c] = "numbered" /\ steps[number[e][c]] = NoRow
  /\ stage' = [stage EXCEPT ![e][c] = "running"]
  /\ UNCHANGED <<steps, counter, number, answer>>
Running(e, c) ==
  /\ stage[e][c] = "running"
  /\ stage' = [stage EXCEPT ![e][c] = "ran"]
  /\ \E a \in Answers : answer' = [answer EXCEPT ![e][c] = a]
  /\ UNCHANGED <<steps, counter, number>>
Returning(e, c, a) ==
  /\ stage' = [stage EXCEPT ![e][c] = "done"]
  /\ answer' = [answer EXCEPT ![e][c] = a]
  /\ UNCHANGED <<counter, number>>
Answering(e, c) ==
  /\ stage[e][c] \in {"numbered", "ran"} /\ steps' = steps
  /\ \/ Returning(e, c, Broken)
     \/ /\ steps[number[e][c]] # NoRow
        /\ Returning(e, c, Replayed(c, steps[number[e][c]]))
Recording(e, c) ==
  /\ stage[e][c] = "ran" /\ Write(e, c)
  /\ Returning(e, c, Broken) \/ Returning(e, c, answer[e][c])
Awaiting(e, c) ==
  /\ Body[c].kind = "join" /\ steps' = steps
  /\ \E a \in Answers : Returning(e, c, a)

Still == LivesOn /\ UNCHANGED <<steps, stage, counter, number, answer, overlapped>>
Works(e, c) ==
  /\ LivesOn /\ UNCHANGED overlapped /\ Busy(e)
  /\ \/ Spawned(e, c) \/ Numbering(e, c) \/ Awaiting(e, c)
     \/ Alive(e, c) /\ (Missing(e, c) \/ Running(e, c) \/ Answering(e, c) \/ Recording(e, c))

\* A call of the handler itself that is no spawned step lives with its handler.
LEMMA OwnCall ==
  ASSUME NEW e \in Executions, NEW c \in Calls, c <= Statements, Body[c].kind # "spawn", Alive(e, c)
  PROVE  life[e] = "running"
BY DEF Alive, Detached, Root

\* The handler goes on to its next statement, or ends.
LEMMA ProceedLives ==
  ASSUME ControlType, NEW e \in Executions, life[e] = "running", NEW g \in BOOLEAN, Proceed(e, g)
  PROVE  LivesOn
<1>1. life' = life \/ life' = [life EXCEPT ![e] = "ended"]
  BY DEF Proceed
<1>2. QED
  BY <1>1 DEF ControlType, LivesOn

\* A call that returns.
LEMMA ReturnLives ==
  ASSUME ControlType, NEW e \in Executions, NEW c \in Calls, NEW a, Alive(e, c), Return(e, c, a),
         UNCHANGED <<counter, number>>
  PROVE  LivesOn /\ Returning(e, c, a)
<1>1. Returning(e, c, a)
  BY DEF Return, Returning
<1>2. CASE c <= Statements /\ Body[c].kind # "spawn"
  <2>1. life[e] = "running" /\ Proceed(e, a.tag = "ok" \/ ~Body[c].strict)
    BY <1>2, OwnCall DEF Return
  <2>2. (a.tag = "ok" \/ ~Body[c].strict) \in BOOLEAN
    OBVIOUS
  <2>3. QED
    BY <1>1, <2>1, <2>2, ProceedLives
<1>3. CASE ~(c <= Statements /\ Body[c].kind # "spawn")
  BY <1>1, <1>3 DEF Return, LivesOn
<1>4. QED
  BY <1>2, <1>3

\* A call under way keeps its execution busy.
LEMMA AliveBusy ==
  ASSUME NEW e \in Executions, NEW c \in Calls, Alive(e, c), stage[e][c] \notin {"idle", "done"}
  PROVE  Busy(e)
BY DEF Busy, Active

\* So does a call that control has reached.
LEMMA ReachedBusy ==
  ASSUME NEW e \in Executions, NEW c \in Calls, Reached(e, c)
  PROVE  Busy(e)
<1>1. CASE stage[e][c] = "spawned"
  BY <1>1, AliveBusy DEF Reached
<1>2. CASE c <= Statements /\ Body[c].kind = "run"
  BY <1>2, OwnCall DEF Reached, Busy
<1>3. CASE c > Statements /\ stage[e][Body[c].inside] = "running"
  <2>1. /\ Statements \in 1..Len(Body) /\ Len(Body) \in Nat
        /\ Body[c].inside \in 1..Statements /\ c \in Nat
    BY <1>3, BodyAssumption, BodyFacts
  <2>2. Body[c].inside \in Calls
    BY <2>1 DEF Calls
  <2>3. Root(c) = Body[c].inside /\ Root(Body[c].inside) = Body[c].inside
    BY <1>3, <2>1 DEF Root
  <2>4. Alive(e, Body[c].inside)
    BY <2>3 DEF Reached, Alive, Detached
  <2>5. QED
    BY <1>3, <2>2, <2>4, AliveBusy
<1>4. QED
  BY <1>1, <1>2, <1>3 DEF Reached

\* Every step is one of these.
LEMMA StepWorks ==
  ASSUME Typed, [Next]_vars
  PROVE  Still \/ (\E e \in Executions : Begin(e)) \/ \E e \in Executions, c \in Calls : Works(e, c)
<1>1. TypeOK /\ Counted /\ ControlType /\ AnswerType /\ RowsType
  BY TypeParts DEF Typed
<1>2. CASE Crash \/ \E e \in Executions : Abort(e)
  <2>1. UNCHANGED <<steps, stage, counter, number, answer, overlapped>>
    BY <1>2 DEF Crash, Abort
  <2>2. CASE Crash
    BY <1>1, <2>1, <2>2 DEF Crash, Still, LivesOn, Busy
  <2>3. ASSUME NEW e \in Executions, Abort(e) PROVE Still
    BY <1>1, <2>1, <2>3 DEF Abort, Still, LivesOn, ControlType
  <2>4. QED
    BY <1>2, <2>2, <2>3
<1>3. ASSUME NEW e \in Executions, SpawnStep(e) PROVE \E c \in Calls : Works(e, c)
  <2>1. PICK c \in Calls : c = next[e] /\ c <= Statements
    BY <1>1, BodyFacts DEF ControlType, Calls
  <2>2. /\ life[e] = "running" /\ Body[c].kind = "spawn" /\ Proceed(e, TRUE)
        /\ stage' = [stage EXCEPT ![e][c] = "spawned"]
        /\ UNCHANGED <<steps, counter, number, answer, overlapped>>
    BY <1>3, <2>1 DEF SpawnStep
  <2>3. stage[e][c] = "idle"
    BY <1>1, <2>1, <2>2, BodyFacts DEF Counted, Coming
  <2>4. LivesOn
    BY <1>1, <2>2, ProceedLives
  <2>5. QED
    BY <2>2, <2>3, <2>4 DEF Works, Spawned, Busy
<1>4. ASSUME NEW e \in Executions, Join(e) PROVE \E c \in Calls : Works(e, c)
  <2>1. PICK c \in Calls : c = next[e] /\ c <= Statements
    BY <1>1, BodyFacts DEF ControlType, Calls
  <2>2. /\ life[e] = "running" /\ Body[c].kind = "join"
        /\ \E d \in Finished(e, c) : Return(e, c, answer[e][d])
        /\ UNCHANGED <<steps, counter, number, overlapped>>
    BY <1>4, <2>1 DEF Join
  <2>3. PICK d \in Calls : Return(e, c, answer[e][d])
    BY <2>2, BodyFacts DEF Finished
  <2>4. LivesOn /\ Returning(e, c, answer[e][d])
    BY <1>1, <2>2, <2>3, ReturnLives DEF Alive
  <2>5. answer[e][d] \in Answers
    BY <1>1 DEF AnswerType
  <2>6. QED
    BY <2>2, <2>4, <2>5 DEF Works, Awaiting, Busy
<1>5. ASSUME NEW e \in Executions, NEW c \in Calls, NextStepId(e, c) PROVE Works(e, c)
  <2>1. Reached(e, c) /\ Busy(e)
    BY <1>5, ReachedBusy DEF NextStepId
  <2>2. stage[e][c] \in {"idle", "spawned"} /\ Body[c].kind # "join"
    BY <1>1, <2>1, ReachedFacts
  <2>3. LivesOn /\ UNCHANGED overlapped
    BY <1>5 DEF NextStepId, LivesOn
  <2>4. Numbering(e, c)
    BY <1>5, <2>2 DEF NextStepId, Numbering
  <2>5. QED
    BY <2>1, <2>3, <2>4 DEF Works
<1>6. ASSUME NEW e \in Executions, NEW c \in Calls, GetStep(e, c) PROVE Works(e, c)
  <2>1. /\ stage[e][c] = "numbered" /\ Alive(e, c)
        /\ UNCHANGED <<steps, counter, number, overlapped>>
    BY <1>6 DEF GetStep
  <2>2. Busy(e)
    BY <2>1, AliveBusy
  <2>3. CASE /\ ToRun(steps[number[e][c]])
             /\ stage' = [stage EXCEPT ![e][c] = "running"]
             /\ UNCHANGED <<answer, next, life>>
    BY <2>1, <2>2, <2>3 DEF ToRun, Works, Missing, LivesOn
  <2>4. CASE ~ToRun(steps[number[e][c]]) /\ Return(e, c, Replayed(c, steps[number[e][c]]))
    <3>1. LivesOn /\ Returning(e, c, Replayed(c, steps[number[e][c]]))
      BY <1>1, <2>1, <2>4, ReturnLives
    <3>2. QED
      BY <2>1, <2>2, <2>4, <3>1 DEF ToRun, Works, Answering
  <2>5. QED
    BY <1>6, <2>3, <2>4 DEF GetStep
<1>7. ASSUME NEW e \in Executions, NEW c \in Calls, Operate(e, c) PROVE Works(e, c) \/ Still
  <2>1. /\ stage[e][c] = "running" /\ Alive(e, c)
        /\ UNCHANGED <<steps, life, counter, number, overlapped>>
    BY <1>7 DEF Operate, Retry
  <2>2. Busy(e) /\ LivesOn
    BY <2>1, AliveBusy DEF LivesOn
  <2>3. PICK a \in Outcomes(e, c) :
          \/ stage' = [stage EXCEPT ![e][c] = "ran"] /\ answer' = [answer EXCEPT ![e][c] = a]
          \/ UNCHANGED <<stage, answer>>
    BY <1>7 DEF Operate, Retry
  <2>4. a \in Answers
    BY OutcomeTyped
  <2>5. QED
    BY <2>1, <2>2, <2>3, <2>4 DEF Works, Running, Still
<1>8. ASSUME NEW e \in Executions, NEW c \in Calls, RecordStep(e, c) PROVE Works(e, c)
  <2>1. /\ stage[e][c] = "ran" /\ Alive(e, c) /\ Write(e, c)
        /\ Return(e, c, answer[e][c]) /\ UNCHANGED <<counter, number, overlapped>>
    BY <1>8 DEF RecordStep
  <2>2. Busy(e) /\ LivesOn /\ Returning(e, c, answer[e][c])
    BY <1>1, <2>1, AliveBusy, ReturnLives
  <2>3. QED
    BY <2>1, <2>2 DEF Works, Recording
<1>9. ASSUME NEW e \in Executions, NEW c \in Calls, StepFault(e, c) PROVE Works(e, c)
  <2>1. /\ \/ stage[e][c] = "numbered" /\ UNCHANGED steps
           \/ stage[e][c] = "ran" /\ (Write(e, c) \/ UNCHANGED steps)
        /\ Alive(e, c) /\ Return(e, c, Broken) /\ UNCHANGED <<counter, number, overlapped>>
    BY <1>9 DEF StepFault
  <2>2. Busy(e) /\ LivesOn /\ Returning(e, c, Broken)
    BY <1>1, <2>1, AliveBusy, ReturnLives
  <2>3. QED
    BY <2>1, <2>2 DEF Works, Recording, Answering
<1>10. CASE UNCHANGED vars
  BY <1>10 DEF vars, Still, LivesOn
<1>11. QED
  BY <1>2, <1>3, <1>4, <1>5, <1>6, <1>7, <1>8, <1>9, <1>10 DEF Next

\* What lives after such a step was alive before it.
LEMMA LivesFacts ==
  ASSUME LivesOn, NEW f \in Executions
  PROVE  /\ life'[f] = "unborn" => life[f] = "unborn"
         /\ \A d \in Calls : Alive(f, d)' => Alive(f, d)
         /\ stage'[f] = stage[f] /\ Busy(f)' => Busy(f)
<1>1. /\ life'[f] = "unborn" => life[f] = "unborn"
      /\ life'[f] = "running" => life[f] = "running"
      /\ life'[f] \in {"ended", "aborted"} => life[f] \in {"running", "ended", "aborted"}
  BY DEF LivesOn
<1>2. ASSUME NEW d \in Calls, Alive(f, d)' PROVE Alive(f, d)
  BY <1>1, <1>2 DEF Alive, Detached
<1>3. ASSUME stage'[f] = stage[f], Busy(f)' PROVE Busy(f)
  <2>1. CASE life'[f] = "running"
    BY <1>1, <2>1 DEF Busy
  <2>2. CASE Active(f)'
    <3>1. PICK d \in Calls : Alive(f, d)' /\ stage'[f][d] \notin {"idle", "done"}
      BY <2>2 DEF Active
    <3>2. Alive(f, d) /\ stage[f][d] \notin {"idle", "done"}
      BY <1>2, <1>3, <3>1
    <3>3. QED
      BY <3>2, AliveBusy
  <2>3. QED
    BY <1>3, <2>1, <2>2 DEF Busy
<1>4. QED
  BY <1>1, <1>2, <1>3

\* A busy execution has begun.
LEMMA BusyBegun ==
  ASSUME NEW e \in Executions, Busy(e)
  PROVE  life[e] # "unborn"
BY DEF Busy, Active, Alive

\* A call that moves on changes nothing of the others.
LEMMA OthersStay ==
  ASSUME Typed, NEW e \in Executions, NEW c \in Calls, Works(e, c)
  PROVE  /\ \A f \in Executions : f # e => stage'[f] = stage[f] /\ counter'[f] = counter[f]
         /\ \A f \in Executions, d \in Calls : f # e \/ d # c =>
              /\ stage'[f][d] = stage[f][d] /\ number'[f][d] = number[f][d]
              /\ answer'[f][d] = answer[f][d]
         /\ stage'[e][c] # "idle"
         /\ ~Numbering(e, c) => UNCHANGED <<counter, number>>
<1>1. ControlType /\ NumberType /\ AnswerType
  BY TypeParts DEF Typed
<1>2. PICK s \in Stages : s # "idle" /\ stage' = [stage EXCEPT ![e][c] = s]
  BY DEF Works, Spawned, Numbering, Missing, Running, Answering, Recording, Awaiting, Returning, Stages
<1>3. answer' = answer \/ \E a : answer' = [answer EXCEPT ![e][c] = a]
  BY DEF Works, Spawned, Numbering, Missing, Running, Answering, Recording, Awaiting, Returning
<1>4. /\ ~Numbering(e, c) => UNCHANGED <<counter, number>>
      /\ Numbering(e, c) =>
           /\ counter' = counter \/ counter' = [counter EXCEPT ![e] = counter[e] + 1]
           /\ \E n : number' = [number EXCEPT ![e][c] = n]
  BY DEF Works, Spawned, Numbering, TakeNumber, Missing, Running, Answering, Recording, Awaiting,
     Returning
<1>5. /\ \A f \in Executions : f # e => stage'[f] = stage[f]
      /\ \A f \in Executions, d \in Calls : f # e \/ d # c => stage'[f][d] = stage[f][d]
      /\ stage'[e][c] # "idle"
  BY <1>1, <1>2 DEF ControlType
<1>6. \A f \in Executions, d \in Calls : f # e \/ d # c => answer'[f][d] = answer[f][d]
  BY <1>1, <1>3 DEF AnswerType
<1>7. /\ \A f \in Executions, d \in Calls : f # e \/ d # c => number'[f][d] = number[f][d]
      /\ \A f \in Executions : f # e => counter'[f] = counter[f]
  BY <1>1, <1>4 DEF NumberType
<1>8. QED
  BY <1>4, <1>5, <1>6, <1>7

\* The counter never passes the number of the calls that take their number from it.
LEMMA CounterBound ==
  ASSUME Typed, NEW e \in Executions
  PROVE  counter[e] \in Nat /\ counter[e] <= Cardinality(CounterCalls) /\ Cardinality(CounterCalls) \in Nat
<1>1. Numbered(e) \in SUBSET CounterCalls /\ CounterCalls \in SUBSET Calls
  BY DEF Numbered, CounterCalls
<1>2. IsFiniteSet(CounterCalls) /\ Cardinality(CounterCalls) \in Nat
  BY <1>1, CallsFinite
<1>3. Cardinality(Numbered(e)) <= Cardinality(CounterCalls)
  BY <1>1, <1>2, FS_Subset
<1>4. counter[e] = Cardinality(Numbered(e)) /\ counter[e] \in Nat
  BY BodyFacts, TypeParts DEF Typed, Counted, NumberType
<1>5. QED
  BY <1>2, <1>3, <1>4

\* A call that takes its number takes one that no other call of the execution has.
LEMMA NumberingApart ==
  ASSUME OwnNumbers, Typed, Apart, Typed', NEW e \in Executions, NEW c \in Calls, Numbering(e, c)
  PROVE  /\ counter[e] \in Nat /\ counter'[e] \in Nat /\ counter[e] <= counter'[e]
         /\ IF Body[c].fixed # None THEN number'[e][c] = Body[c].fixed
            ELSE number'[e][c] \in 1..counter'[e]
         /\ \A d \in Calls : HoldsNumber(e, d) => number[e][d] # number'[e][c]
<1>1. NumberType
  BY TypeParts DEF Typed
<1>2. /\ counter[e] \in Nat /\ counter[e] <= Cardinality(CounterCalls)
      /\ Cardinality(CounterCalls) \in Nat
  BY CounterBound
<1>3. \A d \in Calls : HoldsNumber(e, d) =>
         IF Body[d].fixed # None THEN number[e][d] = Body[d].fixed
         ELSE number[e][d] \in 1..counter[e]
  BY DEF Apart
<1>4. ~HoldsNumber(e, c)
  BY DEF Numbering, HoldsNumber
<1>5. CASE Body[c].fixed = None
  <2>1. number'[e][c] = counter[e] + 1 /\ counter'[e] = counter[e] + 1
    BY <1>1, <1>5 DEF Numbering, TakeNumber, NumberType
  <2>2. counter'[e] <= Cardinality(CounterCalls)
    <3>1. Numbered(e)' \in SUBSET CounterCalls /\ CounterCalls \in SUBSET Calls
      BY DEF Numbered, CounterCalls
    <3>2. IsFiniteSet(CounterCalls)
      BY <3>1, CallsFinite
    <3>3. Cardinality(Numbered(e)') <= Cardinality(CounterCalls)
      BY <3>1, <3>2, FS_Subset
    <3>4. counter'[e] = Cardinality(Numbered(e)')
      BY DEF Typed, Counted
    <3>5. QED
      BY <3>3, <3>4
  <2>3. counter[e] + 1 \in 1..Cardinality(CounterCalls)
    BY <1>2, <2>1, <2>2
  <2>4. ASSUME NEW d \in Calls, HoldsNumber(e, d) PROVE number[e][d] # counter[e] + 1
    <3>1. CASE Body[d].fixed # None
      BY <1>3, <2>3, <2>4, <3>1 DEF OwnNumbers
    <3>2. CASE Body[d].fixed = None
      BY <1>2, <1>3, <2>4, <3>2
    <3>3. QED
      BY <3>1, <3>2
  <2>5. QED
    BY <1>2, <1>5, <2>1, <2>4
<1>6. CASE Body[c].fixed # None
  <2>1. number'[e][c] = Body[c].fixed /\ counter' = counter
    BY <1>1, <1>6 DEF Numbering, NumberType
  <2>2. ASSUME NEW d \in Calls, HoldsNumber(e, d) PROVE number[e][d] # Body[c].fixed
    <3>1. CASE Body[d].fixed # None
      BY <1>3, <1>4, <1>6, <2>2, <3>1 DEF OwnNumbers
    <3>2. CASE Body[d].fixed = None
      <4>1. number[e][d] \in 1..Cardinality(CounterCalls)
        BY <1>2, <1>3, <2>2, <3>2
      <4>2. QED
        BY <1>6, <4>1 DEF OwnNumbers
    <3>3. QED
      BY <3>1, <3>2
  <2>3. QED
    BY <1>2, <1>6, <2>1, <2>2
<1>7. QED
  BY <1>5, <1>6

\* Numbers stay apart.
LEMMA ApartKept ==
  ASSUME OwnNumbers, Typed, Apart, Typed', [Next]_vars
  PROVE  Apart'
<1>1. CASE Still \/ \E e \in Executions : Begin(e)
  <2>1. UNCHANGED <<stage, counter, number>>
    BY <1>1 DEF Still, Begin
  <2>2. \A f \in Executions : life'[f] = "unborn" => life[f] = "unborn"
    BY <1>1, LivesFacts, TypeParts DEF Still, Begin, Typed, ControlType
  <2>3. QED
    BY <2>1, <2>2 DEF Apart, HoldsNumber
<1>2. ASSUME NEW e \in Executions, NEW c \in Calls, Works(e, c) PROVE Apart'
  <2>1. /\ \A f \in Executions : f # e => stage'[f] = stage[f] /\ counter'[f] = counter[f]
        /\ \A f \in Executions, d \in Calls : f # e \/ d # c =>
             stage'[f][d] = stage[f][d] /\ number'[f][d] = number[f][d]
        /\ ~Numbering(e, c) => UNCHANGED <<counter, number>>
    BY <1>2, OthersStay
  <2>2. life'[e] # "unborn" /\ \A f \in Executions : life'[f] = "unborn" => life[f] = "unborn"
    BY <1>2, LivesFacts, BusyBegun DEF Works
  <2>3. ASSUME NEW f \in Executions, NEW d \in Calls, life'[f] = "unborn" PROVE stage'[f][d] = "idle"
    BY <2>1, <2>2, <2>3 DEF Apart
  <2>4. ASSUME NEW f \in Executions, NEW d \in Calls, Body[d].kind = "join"
        PROVE  stage'[f][d] \in {"idle", "done"}
    <3>1. stage[f][d] \in {"idle", "done"}
      BY <2>4 DEF Apart
    <3>2. CASE f # e \/ d # c
      BY <2>1, <3>1, <3>2
    <3>3. CASE f = e /\ d = c
      <4>1. Awaiting(e, c)
        BY <1>2, <2>4, <3>1, <3>3 DEF Works, Spawned, Numbering, Missing, Running, Answering, Recording
      <4>2. QED
        BY <3>3, <4>1, TypeParts DEF Awaiting, Returning, Typed, ControlType
    <3>4. QED
      BY <3>2, <3>3
  <2>5. ASSUME NEW f \in Executions, NEW d \in Calls, HoldsNumber(f, d)'
        PROVE  /\ IF Body[d].fixed # None THEN number'[f][d] = Body[d].fixed
                  ELSE number'[f][d] \in 1..counter'[f]
               /\ \A g \in Calls : HoldsNumber(f, g)' /\ number'[f][g] = number'[f][d] => g = d
    <3>1. CASE f # e
      <4>1. \A g \in Calls : (HoldsNumber(f, g)' <=> HoldsNumber(f, g)) /\ number'[f][g] = number[f][g]
        BY <2>1, <3>1 DEF HoldsNumber
      <4>2. QED
        BY <2>1, <2>5, <3>1, <4>1 DEF Apart
    <3>2. CASE f = e /\ ~Numbering(e, c)
      <4>1. HoldsNumber(e, c)' => HoldsNumber(e, c)
        BY <1>2, <3>2, TypeParts DEF HoldsNumber, Works, Spawned, Missing, Running, Answering, Recording,
           Awaiting, Returning, Typed, ControlType
      <4>2. \A g \in Calls : HoldsNumber(e, g)' => HoldsNumber(e, g)
        BY <2>1, <4>1 DEF HoldsNumber
      <4>3. QED
        BY <2>1, <2>5, <3>2, <4>2 DEF Apart
    <3>3. CASE f = e /\ Numbering(e, c)
      <4>1. /\ counter[e] \in Nat /\ counter'[e] \in Nat /\ counter[e] <= counter'[e]
            /\ IF Body[c].fixed # None THEN number'[e][c] = Body[c].fixed
               ELSE number'[e][c] \in 1..counter'[e]
            /\ \A g \in Calls : HoldsNumber(e, g) => number[e][g] # number'[e][c]
        BY <3>3, NumberingApart
      <4>2. \A g \in Calls : g # c =>
              (HoldsNumber(e, g)' <=> HoldsNumber(e, g)) /\ number'[e][g] = number[e][g]
        BY <2>1 DEF HoldsNumber
      <4>3. \A g \in Calls : HoldsNumber(e, g) =>
              /\ IF Body[g].fixed # None THEN number[e][g] = Body[g].fixed
                 ELSE number[e][g] \in 1..counter[e]
              /\ \A h \in Calls : HoldsNumber(e, h) /\ number[e][h] = number[e][g] => h = g
        BY DEF Apart
      <4>4. IF Body[d].fixed # None THEN number'[e][d] = Body[d].fixed
            ELSE number'[e][d] \in 1..counter'[e]
        <5>1. CASE d = c
          BY <4>1, <5>1
        <5>2. CASE d # c
          BY <2>5, <3>3, <4>1, <4>2, <4>3, <5>2
        <5>3. QED
          BY <5>1, <5>2
      <4>5. ASSUME NEW g \in Calls, HoldsNumber(e, g)', number'[e][g] = number'[e][d] PROVE g = d
        BY <2>5, <3>3, <4>1, <4>2, <4>3, <4>5
      <4>6. QED
        BY <3>3, <4>4, <4>5
    <3>4. QED
      BY <3>1, <3>2, <3>3
  <2>6. QED
    BY <2>3, <2>4, <2>5 DEF Apart
<1>3. QED
  BY <1>1, <1>2, StepWorks

\* What a call holds is the number of a row.
LEMMA HeldNumber ==
  ASSUME Typed, Apart, NEW e \in Executions, NEW c \in Calls, HoldsNumber(e, c)
  PROVE  number[e][c] \in Ids
<1>1. CASE Body[c].fixed # None
  BY <1>1, BodyFacts DEF Apart
<1>2. CASE Body[c].fixed = None
  <2>1. counter[e] \in 0..Len(Body) /\ Len(Body) \in Nat
    BY BodyFacts, TypeParts DEF Typed, NumberType
  <2>2. number[e][c] \in 1..counter[e]
    BY <1>2 DEF Apart
  <2>3. number[e][c] \in Calls
    BY <2>1, <2>2 DEF Calls
  <2>4. QED
    BY <2>3 DEF Ids
<1>3. QED
  BY <1>1, <1>2

\* A call that is alive and has looked for its row holds a number of its own.
LEMMA UnderWayHolds ==
  ASSUME Typed, Apart, NEW e \in Executions, NEW c \in Calls, stage[e][c] \in {"numbered", "running", "ran"}
  PROVE  HoldsNumber(e, c) /\ number[e][c] \in Ids
BY DEF Typed, HasNumber, Apart, HoldsNumber

\* A row that is there stays as it is.
LEMMA RowsUntouched ==
  ASSUME FreshInv, ~overlapped, NEW e \in Executions, NEW c \in Calls, Works(e, c)
  PROVE  /\ \A i \in Ids : steps[i] # NoRow => steps'[i] = steps[i]
         /\ ~Recording(e, c) => steps' = steps
         /\ Recording(e, c) =>
              /\ number[e][c] \in Ids /\ steps[number[e][c]] = NoRow
              /\ \A i \in Ids : steps'[i] = IF i = number[e][c] THEN Row(c, answer[e][c]) ELSE steps[i]
<1>1. Typed /\ Apart /\ Fresh /\ RowsType
  BY TypeParts DEF FreshInv, Typed
<1>2. CASE Recording(e, c)
  <2>1. /\ stage[e][c] = "ran" /\ Alive(e, c)
        /\ steps' = [steps EXCEPT ![number[e][c]] = Row(c, answer[e][c])]
    <3>1. stage[e][c] = "ran" /\ Write(e, c)
      BY <1>2 DEF Recording
    <3>2. Body[c].kind # "join"
      BY <1>1, <3>1 DEF Apart
    <3>3. QED
      BY <3>1, <3>2 DEF Works, Write, Spawned, Numbering, Awaiting
  <2>2. number[e][c] \in Ids
    BY <1>1, <2>1, UnderWayHolds
  <2>3. steps[number[e][c]] = NoRow
    BY <1>1, <2>1 DEF Fresh
  <2>4. \A i \in Ids : steps'[i] = IF i = number[e][c] THEN Row(c, answer[e][c]) ELSE steps[i]
    BY <1>1, <2>1 DEF RowsType
  <2>5. QED
    BY <1>2, <2>2, <2>3, <2>4
<1>3. CASE ~Recording(e, c)
  <2>1. steps' = steps
    BY <1>3 DEF Works, Spawned, Numbering, Awaiting, Missing, Running, Answering
  <2>2. QED
    BY <1>3, <2>1
<1>4. QED
  BY <1>2, <1>3

\* One execution is busy at a time, and runs the operations of calls without a row.
LEMMA FreshKept ==
  ASSUME FreshInv, [Next]_vars
  PROVE  Fresh'
<1> SUFFICES ASSUME ~overlapped'
             PROVE  /\ \A e, f \in Executions : Busy(e)' /\ Busy(f)' => e = f
                    /\ \A e \in Executions, c \in Calls :
                         Alive(e, c)' /\ stage'[e][c] \in {"running", "ran"}
                           => steps'[number'[e][c]] = NoRow
  BY DEF Fresh
<1>1. Typed /\ Apart /\ Fresh /\ ControlType
  BY TypeParts DEF FreshInv, Typed
<1>2. CASE Still
  <2>1. ~overlapped /\ UNCHANGED <<steps, stage, number>> /\ LivesOn
    BY <1>2 DEF Still
  <2>2. \A f \in Executions : Busy(f)' => Busy(f)
    BY <2>1, LivesFacts
  <2>3. \A f \in Executions, d \in Calls : Alive(f, d)' => Alive(f, d)
    BY <2>1, LivesFacts
  <2>4. QED
    BY <1>1, <2>1, <2>2, <2>3 DEF Fresh
<1>3. ASSUME NEW b \in Executions, Begin(b)
      PROVE  /\ \A e, f \in Executions : Busy(e)' /\ Busy(f)' => e = f
             /\ \A e \in Executions, c \in Calls :
                  Alive(e, c)' /\ stage'[e][c] \in {"running", "ran"} => steps'[number'[e][c]] = NoRow
  <2>1. /\ life[b] = "unborn" /\ life' = [life EXCEPT ![b] = "running"]
        /\ ~overlapped /\ \A f \in Executions : ~Busy(f)
        /\ UNCHANGED <<steps, stage, number>>
    BY <1>3 DEF Begin, Busy
  <2>2. \A c \in Calls : stage[b][c] = "idle"
    BY <1>1, <2>1 DEF Apart
  <2>3. \A f \in Executions : f # b => life'[f] = life[f]
    BY <1>1, <2>1 DEF ControlType
  <2>4. ASSUME NEW f \in Executions, f # b, Busy(f)' PROVE FALSE
    <3>1. Busy(f)
      BY <2>1, <2>3, <2>4 DEF Busy, Active, Alive, Detached
    <3>2. QED
      BY <2>1, <3>1
  <2>5. ASSUME NEW e \in Executions, NEW c \in Calls, Alive(e, c)', stage'[e][c] \in {"running", "ran"}
        PROVE  FALSE
    <3>1. e # b
      BY <2>1, <2>2, <2>5
    <3>2. Alive(e, c)
      BY <2>3, <2>5, <3>1 DEF Alive, Detached
    <3>3. Busy(e)
      BY <2>1, <2>5, <3>2, AliveBusy
    <3>4. QED
      BY <2>1, <3>3
  <2>6. QED
    BY <2>4, <2>5
<1>4. ASSUME NEW b \in Executions, NEW w \in Calls, Works(b, w)
      PROVE  /\ \A e, f \in Executions : Busy(e)' /\ Busy(f)' => e = f
             /\ \A e \in Executions, c \in Calls :
                  Alive(e, c)' /\ stage'[e][c] \in {"running", "ran"} => steps'[number'[e][c]] = NoRow
  <2>1. ~overlapped /\ LivesOn /\ Busy(b) /\ overlapped' = overlapped
    BY <1>4 DEF Works
  <2>2. /\ \A f \in Executions : f # b => stage'[f] = stage[f]
        /\ \A f \in Executions, d \in Calls : f # b \/ d # w =>
             stage'[f][d] = stage[f][d] /\ number'[f][d] = number[f][d]
        /\ ~Numbering(b, w) => UNCHANGED <<counter, number>>
    BY <1>1, <1>4, OthersStay
  <2>3. \A f \in Executions : Busy(f)' => f = b
    BY <1>1, <2>1, <2>2, LivesFacts DEF Fresh
  <2>4. ASSUME NEW e \in Executions, NEW c \in Calls, Alive(e, c)', stage'[e][c] \in {"running", "ran"}
        PROVE  steps'[number'[e][c]] = NoRow
    <3>1. Alive(e, c)
      BY <2>1, <2>4, LivesFacts
    <3>2. CASE e = b /\ c = w
      <4>1. Missing(b, w) \/ Running(b, w)
        BY <1>1, <1>4, <2>4, <3>2
           DEF Works, Spawned, Numbering, Awaiting, Answering, Recording, Returning, ControlType
      <4>2. CASE Missing(b, w)
        BY <3>2, <4>2 DEF Missing
      <4>3. CASE Running(b, w)
        BY <1>1, <2>1, <3>1, <3>2, <4>3 DEF Running, Fresh
      <4>4. QED
        BY <4>1, <4>2, <4>3
    <3>3. CASE e # b \/ c # w
      <4>1. stage[e][c] \in {"running", "ran"} /\ number'[e][c] = number[e][c]
        BY <2>2, <2>4, <3>3
      <4>2. steps[number[e][c]] = NoRow /\ e = b
        BY <1>1, <2>1, <3>1, <4>1, AliveBusy DEF Fresh
      <4>3. CASE Recording(b, w)
        <5>1. HoldsNumber(b, c) /\ HoldsNumber(b, w) /\ number[b][c] \in Ids /\ c # w
          BY <1>1, <3>3, <4>1, <4>2, <4>3, UnderWayHolds DEF Recording
        <5>2. number[b][c] # number[b][w]
          BY <1>1, <5>1 DEF Apart
        <5>3. QED
          BY <1>4, <2>1, <4>1, <4>2, <4>3, <5>1, <5>2, RowsUntouched
      <4>4. CASE ~Recording(b, w)
        BY <1>4, <2>1, <4>1, <4>2, <4>4, RowsUntouched
      <4>5. QED
        BY <4>3, <4>4
    <3>4. QED
      BY <3>2, <3>3
  <2>5. QED
    BY <2>3, <2>4
<1>5. QED
  BY <1>2, <1>3, <1>4, StepWorks DEF FreshInv

\* A value that a row is answered with is what the row says.
LEMMA ReplayedValue ==
  ASSUME NEW c \in Calls, NEW row, Replayed(c, row).tag = "ok"
  PROVE  row.result \in {Replayed(c, row), Failed}
<1>1. CASE row.name # Body[c].name
  BY <1>1 DEF Replayed, Unexpected
<1>2. CASE row.name = Body[c].name /\ row.result # Failed
  BY <1>2 DEF Replayed
<1>3. CASE row.name = Body[c].name /\ row.result = Failed
  BY <1>3
<1>4. QED
  BY <1>1, <1>2, <1>3

\* A value that was answered stays on record.
LEMMA RecordKept ==
  ASSUME FreshInv, Typed', Apart', [Next]_vars
  PROVE  AnswersOnRecord'
<1> SUFFICES ASSUME ~overlapped', NEW f \in Executions, NEW d \in Calls, Body[d].kind # "join",
                    stage'[f][d] = "done", answer'[f][d].tag = "ok"
             PROVE  steps'[number'[f][d]].result \in {answer'[f][d], Failed}
  BY DEF AnswersOnRecord, Answered
<1>1. /\ Typed /\ Apart /\ Fresh /\ AnswersOnRecord
      /\ ControlType /\ AnswerType /\ NumberType
  BY TypeParts DEF FreshInv, Typed
<1>2. ASSUME ~overlapped, stage[f][d] = "done", answer[f][d].tag = "ok"
      PROVE  /\ steps[number[f][d]].result \in {answer[f][d], Failed}
             /\ steps[number[f][d]] # NoRow
  <2>1. steps[number[f][d]].result \in {answer[f][d], Failed}
    BY <1>1, <1>2 DEF AnswersOnRecord, Answered
  <2>2. QED
    BY <1>2, <2>1 DEF NoRow, Nothing, Failed
<1>3. CASE Still \/ \E e \in Executions : Begin(e)
  <2>1. UNCHANGED <<steps, stage, number, answer>>
    BY <1>3 DEF Still, Begin
  <2>2. ~overlapped
    <3>1. CASE Still
      BY <3>1 DEF Still
    <3>2. ASSUME NEW e \in Executions, Begin(e) PROVE ~overlapped
      BY <3>2 DEF Begin
    <3>3. QED
      BY <1>3, <3>1, <3>2
  <2>3. QED
    BY <1>2, <2>1, <2>2
<1>4. ASSUME NEW e \in Executions, NEW c \in Calls, Works(e, c)
      PROVE  steps'[number'[f][d]].result \in {answer'[f][d], Failed}
  <2>1. ~overlapped
    BY <1>4 DEF Works
  <2>2. /\ \A i \in Ids : steps[i] # NoRow => steps'[i] = steps[i]
        /\ ~Recording(e, c) => steps' = steps
        /\ Recording(e, c) =>
             /\ number[e][c] \in Ids
             /\ \A i \in Ids : steps'[i] = IF i = number[e][c] THEN Row(c, answer[e][c]) ELSE steps[i]
    BY <1>4, <2>1, RowsUntouched
  <2>3. CASE f # e \/ d # c
    <3>1. /\ stage[f][d] = "done" /\ answer'[f][d] = answer[f][d] /\ number'[f][d] = number[f][d]
      BY <1>1, <1>4, <2>3, OthersStay
    <3>2. steps[number[f][d]].result \in {answer[f][d], Failed} /\ steps[number[f][d]] # NoRow
      BY <1>2, <2>1, <3>1
    <3>3. number[f][d] \in Ids
      BY <1>1, <3>1, HeldNumber DEF HoldsNumber
    <3>4. QED
      BY <2>2, <3>1, <3>2, <3>3
  <2>4. CASE f = e /\ d = c
    <3>1. Answering(e, c) \/ Recording(e, c)
      BY <1>1, <1>4, <2>4
         DEF Works, Spawned, Numbering, Missing, Running, Awaiting, ControlType
    <3>2. Broken.tag # "ok"
      BY DEF Broken
    <3>3. CASE Answering(e, c)
      <4>1. /\ steps' = steps /\ number' = number
            /\ answer'[e][c] \in {Broken, Replayed(c, steps[number[e][c]])}
        BY <1>1, <3>3 DEF Answering, Returning, AnswerType
      <4>2. answer'[e][c] = Replayed(c, steps[number[e][c]])
        BY <2>4, <3>2, <4>1
      <4>3. QED
        BY <2>4, <4>1, <4>2, ReplayedValue
    <3>4. CASE Recording(e, c)
      <4>1. number' = number /\ answer'[e][c] \in {Broken, answer[e][c]}
        BY <1>1, <3>4 DEF Recording, Returning, AnswerType
      <4>2. answer'[e][c] = answer[e][c]
        BY <2>4, <3>2, <4>1
      <4>3. steps'[number[e][c]] = Row(c, answer[e][c])
        BY <2>2, <3>4
      <4>4. QED
        BY <2>4, <4>1, <4>2, <4>3 DEF Row
    <3>5. QED
      BY <3>1, <3>3, <3>4
  <2>5. QED
    BY <2>3, <2>4
<1>5. QED
  BY <1>1, <1>3, <1>4, StepWorks

\* All of this is true at all times.
LEMMA AlwaysFresh == ASSUME OwnNumbers PROVE Spec => []FreshInv
<1>1. Init => FreshInv
  <2> SUFFICES ASSUME Init PROVE FreshInv
    OBVIOUS
  <2>1. Typed
    BY InitTyped DEF Typed, Init, HasNumber
  <2>2. Apart /\ AnswersOnRecord
    BY DEF Init, Apart, HoldsNumber, AnswersOnRecord, Answered
  <2>3. Fresh
    BY DEF Init, Fresh, Busy, Active, Alive
  <2>4. QED
    BY <2>1, <2>2, <2>3 DEF FreshInv
<1>2. FreshInv /\ [Next]_vars => FreshInv'
  <2> SUFFICES ASSUME FreshInv, [Next]_vars PROVE FreshInv'
    OBVIOUS
  <2>1. Typed'
    BY StepTyped DEF FreshInv
  <2>2. Apart'
    BY <2>1, ApartKept DEF FreshInv
  <2>3. QED
    BY <2>1, <2>2, FreshKept, RecordKept DEF FreshInv
<1>3. QED
  BY <1>1, <1>2, PTL DEF Spec

\* Whether a handler makes its steps one after the other, spawns them or nests them: while no
\* two executions have been alive at the same time record_step never finds a row.
THEOREM NeverReplaced == ASSUME OwnNumbers PROVE Spec => NeverOverwritten
<1>1. FreshInv /\ [Next]_vars
        => [~overlapped' => \A i \in Ids : steps[i] # NoRow => steps'[i] = steps[i]]_vars
  <2> SUFFICES ASSUME FreshInv, [Next]_vars, ~overlapped', NEW i \in Ids, steps[i] # NoRow
               PROVE  steps'[i] = steps[i]
    OBVIOUS
  <2>1. CASE Still \/ \E e \in Executions : Begin(e)
    BY <2>1 DEF Still, Begin
  <2>2. ASSUME NEW e \in Executions, NEW c \in Calls, Works(e, c) PROVE steps'[i] = steps[i]
    <3>1. ~overlapped
      BY <2>2 DEF Works
    <3>2. QED
      BY <2>2, <3>1, RowsUntouched
  <2>3. QED
    BY <2>1, <2>2, StepWorks DEF FreshInv
<1>2. QED
  BY <1>1, AlwaysFresh, PTL DEF Spec, NeverOverwritten

\* A value the handler goes on with, from a step of its own, a spawned one or one inside
\* another step, is on record under the number of its call.
THEOREM OnRecord == ASSUME OwnNumbers PROVE Spec => []AnswersOnRecord
<1>1. FreshInv => AnswersOnRecord
  BY DEF FreshInv
<1>2. QED
  BY <1>1, AlwaysFresh, PTL
-----------------------------------------------------------------------------
(* No execution waits for itself: an execution with anything under way can   *)
(* go on, whatever its handler spawns, nests, awaits and selects.            *)

\* The statements before the one that the handler has reached have returned, or are spawned
\* steps; those after it have not begun; and a call inside another one is under way only
\* while the operation of the other is running.
OrderOf(e) ==
  /\ \A c \in Calls : c <= Statements =>
       /\ c < next[e] => stage[e][c] # "idle" /\ (Body[c].kind # "spawn" => Answered(e, c))
       /\ c > next[e] => stage[e][c] = "idle"
  /\ Coming(e) => ~Answered(e, next[e])
  /\ \A d \in Calls : d > Statements /\ stage[e][d] \notin {"idle", "done"}
       => stage[e][Body[d].inside] = "running"

InOrder == \A e \in Executions : OrderOf(e)

\* What a step does to the control of the executions: nothing but to stop or begin some of
\* them, ...
Pausing ==
  /\ UNCHANGED <<stage, next>>
  /\ \A f \in Executions : Coming(f)' => Coming(f)

\* ... a call moves on, while its handler stays where it is, ...
Moving(e, c) ==
  /\ UNCHANGED <<life, next>>
  /\ c <= Statements => c <= next[e] /\ (c < next[e] => Body[c].kind = "spawn")
  /\ stage[e][c] = "running" => \A d \in Inner(c) : Answered(e, d)
  /\ \E s \in Stages \ {"idle"} :
       /\ stage' = [stage EXCEPT ![e][c] = s]
       /\ IF s = "done" THEN c > Statements \/ (c = next[e] => ~Coming(e))
          ELSE c > Statements => stage[e][Body[c].inside] = "running"

\* ... or the statement that the handler has reached is over, or spawned.
Turning(e, c) ==
  /\ c = next[e] /\ life[e] = "running" /\ (stage[e][c] = "running" => Body[c].kind = "join")
  /\ \E s \in {"done", "spawned"} :
       /\ s = "spawned" => Body[c].kind = "spawn"
       /\ stage' = [stage EXCEPT ![e][c] = s]
  /\ \E g \in BOOLEAN : Proceed(e, g)

\* The statement that the handler has reached is a call.
LEMMA NextCall ==
  ASSUME ControlType, NEW e \in Executions
  PROVE  next[e] \in Calls /\ next[e] \in Nat /\ next[e] <= Statements /\ Statements \in Nat
BY BodyFacts DEF ControlType, Calls

\* The statement that a call belongs to lives and dies with it.
LEMMA RootFacts ==
  ASSUME NEW c \in Calls
  PROVE  /\ Root(c) \in Calls /\ Root(c) \in Nat /\ Root(c) <= Statements /\ Root(c) <= c
         /\ Root(Root(c)) = Root(c)
         /\ \A e \in Executions : Alive(e, c) <=> Alive(e, Root(c))
         /\ c > Statements => Root(c) = Body[c].inside /\ Body[Root(c)].kind # "join"
         /\ \A d \in Body[c].waits : d \in Calls /\ d < Root(c) /\ Body[d].kind = "spawn"
<1>1. Len(Body) \in Nat /\ Statements \in 1..Len(Body) /\ c \in 1..Len(Body)
  BY BodyFacts DEF Calls
<1>2. c > Statements => Body[c].inside \in 1..Statements /\ Body[Body[c].inside].kind # "join"
  BY BodyAssumption
<1>3. Root(c) \in 1..Statements /\ (c > Statements => Root(c) = Body[c].inside)
  BY <1>1, <1>2 DEF Root
<1>4. Root(c) <= c
  BY <1>1, <1>3 DEF Root
<1>5. Root(c) \in Calls
  BY <1>1, <1>3 DEF Calls
<1>6. Root(Root(c)) = Root(c)
  BY <1>1, <1>3 DEF Root
<1>7. \A e \in Executions : Alive(e, c) <=> Alive(e, Root(c))
  BY <1>6 DEF Alive, Detached
<1>8. ASSUME NEW d \in Body[c].waits PROVE d \in Calls /\ d < Root(c) /\ Body[d].kind = "spawn"
  <2>1. Body[c].waits \subseteq {x \in 1..(Root(c) - 1) : Body[x].kind = "spawn"}
    BY BodyAssumption
  <2>2. d \in 1..(Root(c) - 1) /\ Body[d].kind = "spawn"
    BY <1>8, <2>1
  <2>3. QED
    BY <1>1, <1>3, <2>2 DEF Calls
<1>9. QED
  BY <1>1, <1>2, <1>3, <1>4, <1>5, <1>6, <1>7, <1>8

\* Where a call is that moves on.
LEMMA WhereMoving ==
  ASSUME Typed, NEW e \in Executions, NEW c \in Calls, OrderOf(e),
         stage[e][c] \notin {"idle", "done"}
  PROVE  /\ c <= Statements => c <= next[e] /\ (c < next[e] => Body[c].kind = "spawn")
         /\ c <= Statements /\ Body[c].kind = "spawn" => (c = next[e] => ~Coming(e))
         /\ c <= Statements /\ Body[c].kind # "spawn" => c = next[e]
         /\ c > Statements => stage[e][Body[c].inside] = "running"
<1>1. ControlType /\ Counted
  BY TypeParts DEF Typed
<1>2. next[e] \in Nat /\ c \in Nat
  BY <1>1, NextCall, BodyFacts
<1>3. c <= Statements => c <= next[e] /\ (c < next[e] => Body[c].kind = "spawn")
  BY <1>2 DEF OrderOf, Answered
<1>4. c <= Statements /\ Body[c].kind = "spawn" => (c = next[e] => ~Coming(e))
  BY <1>1, <1>2 DEF Counted
<1>5. QED
  BY <1>2, <1>3, <1>4 DEF OrderOf

\* A call that returns lets its handler go on, or leaves it where it is.
LEMMA ReturnTurns ==
  ASSUME Typed, NEW e \in Executions, NEW c \in Calls, NEW a, OrderOf(e),
         stage[e][c] \in {"numbered", "ran"}, Alive(e, c), Return(e, c, a)
  PROVE  Moving(e, c) \/ Turning(e, c)
<1>1. stage' = [stage EXCEPT ![e][c] = "done"]
  BY DEF Return
<1>2. stage[e][c] \notin {"idle", "done", "running"}
  OBVIOUS
<1>3. CASE c <= Statements /\ Body[c].kind # "spawn"
  <2>1. c = next[e] /\ life[e] = "running"
    BY <1>2, <1>3, WhereMoving, OwnCall
  <2>2. Proceed(e, a.tag = "ok" \/ ~Body[c].strict)
    BY <1>3 DEF Return
  <2>3. (a.tag = "ok" \/ ~Body[c].strict) \in BOOLEAN
    OBVIOUS
  <2>4. \E g \in BOOLEAN : Proceed(e, g)
    BY <2>2, <2>3, Zenon
  <2>5. QED
    BY <1>1, <1>2, <2>1, <2>4 DEF Turning
<1>4. CASE ~(c <= Statements /\ Body[c].kind # "spawn")
  <2>1. UNCHANGED <<life, next>>
    BY <1>4 DEF Return
  <2>2. c \in Nat /\ Statements \in Nat
    BY BodyFacts
  <2>3. /\ c <= Statements => c <= next[e] /\ (c < next[e] => Body[c].kind = "spawn")
        /\ c > Statements \/ (c = next[e] => ~Coming(e))
    BY <1>2, <1>4, <2>2, WhereMoving
  <2>4. "done" \in Stages \ {"idle"}
    BY DEF Stages
  <2>5. QED
    BY <1>1, <1>2, <2>1, <2>3, <2>4 DEF Moving
<1>5. QED
  BY <1>3, <1>4

\* Every step is one of these.
LEMMA StepTurns ==
  ASSUME Typed, InOrder, [Next]_vars
  PROVE  Pausing \/ \E e \in Executions, c \in Calls : Moving(e, c) \/ Turning(e, c)
<1>1. TypeOK /\ Counted /\ ControlType /\ Statements \in Nat
  BY TypeParts, BodyFacts DEF Typed
<1>2. \A e \in Executions : OrderOf(e)
  BY DEF InOrder
<1>3. {"numbered", "running", "ran"} \subseteq Stages \ {"idle", "done"}
  BY DEF Stages
<1>4. CASE Crash
  BY <1>1, <1>4 DEF Crash, Pausing, Coming
<1>5. ASSUME NEW e \in Executions, Abort(e) \/ Begin(e) PROVE Pausing
  <2>1. UNCHANGED <<stage, next>>
    BY <1>5 DEF Abort, Begin
  <2>2. \/ life' = [life EXCEPT ![e] = "aborted"]
        \/ life' = [life EXCEPT ![e] = "running"] /\ life[e] = "unborn"
    BY <1>5 DEF Abort, Begin
  <2>3. \A f \in Executions : Coming(f)' => Coming(f)
    <3>1. \A f \in Executions : f # e => life'[f] = life[f]
      BY <1>1, <2>2 DEF ControlType
    <3>2. Coming(e)' => Coming(e)
      BY <1>1, <2>2 DEF Coming, ControlType
    <3>3. QED
      BY <3>1, <3>2 DEF Coming
  <2>4. QED
    BY <2>1, <2>3 DEF Pausing
<1>6. ASSUME NEW e \in Executions, SpawnStep(e) PROVE \E c \in Calls : Turning(e, c)
  <2>1. PICK c \in Calls : c = next[e] /\ c <= Statements
    BY <1>1, NextCall
  <2>2. /\ life[e] = "running" /\ Body[c].kind = "spawn" /\ Proceed(e, TRUE)
        /\ stage' = [stage EXCEPT ![e][c] = "spawned"]
    BY <1>6, <2>1 DEF SpawnStep
  <2>3. stage[e][c] = "idle"
    BY <1>1, <2>1, <2>2, BodyFacts DEF Counted, Coming
  <2>4. QED
    BY <2>1, <2>2, <2>3 DEF Turning
<1>7. ASSUME NEW e \in Executions, Join(e) PROVE \E c \in Calls : Turning(e, c)
  <2>1. PICK c \in Calls : c = next[e] /\ c <= Statements
    BY <1>1, NextCall
  <2>2. life[e] = "running" /\ Body[c].kind = "join" /\ \E d : Return(e, c, answer[e][d])
    BY <1>7, <2>1 DEF Join
  <2>3. PICK d : Return(e, c, answer[e][d])
    BY <2>2
  <2>4. /\ stage' = [stage EXCEPT ![e][c] = "done"]
        /\ Proceed(e, answer[e][d].tag = "ok" \/ ~Body[c].strict)
    BY <2>1, <2>2, <2>3 DEF Return
  <2>5. (answer[e][d].tag = "ok" \/ ~Body[c].strict) \in BOOLEAN
    OBVIOUS
  <2>6. \E g \in BOOLEAN : Proceed(e, g)
    BY <2>4, <2>5, Zenon
  <2>7. QED
    BY <2>1, <2>2, <2>4, <2>6 DEF Turning
<1>8. ASSUME NEW e \in Executions, NEW c \in Calls, NextStepId(e, c) PROVE Moving(e, c)
  <2>1. /\ UNCHANGED <<life, next>> /\ Reached(e, c)
        /\ stage' = [stage EXCEPT ![e][c] = "numbered"]
    BY <1>8 DEF NextStepId
  <2>2. stage[e][c] \in {"idle", "spawned"}
    BY <1>1, <2>1, ReachedFacts
  <2>3. /\ c <= Statements => c <= next[e] /\ (c < next[e] => Body[c].kind = "spawn")
        /\ c > Statements => stage[e][Body[c].inside] = "running"
    <3>1. c \in Nat
      BY BodyFacts
    <3>2. CASE stage[e][c] = "spawned"
      BY <1>2, <3>2, WhereMoving
    <3>3. CASE c <= Statements /\ next[e] = c
      BY <1>1, <3>1, <3>3
    <3>4. CASE c > Statements /\ stage[e][Body[c].inside] = "running"
      BY <1>1, <3>1, <3>4
    <3>5. QED
      BY <2>1, <3>2, <3>3, <3>4 DEF Reached
  <2>4. "numbered" \in Stages \ {"idle"}
    BY <1>3
  <2>5. QED
    BY <2>1, <2>2, <2>3, <2>4 DEF Moving
<1>9. ASSUME NEW e \in Executions, NEW c \in Calls, GetStep(e, c) PROVE Moving(e, c) \/ Turning(e, c)
  <2>1. stage[e][c] = "numbered" /\ Alive(e, c)
    BY <1>9 DEF GetStep
  <2>2. CASE UNCHANGED <<next, life>> /\ stage' = [stage EXCEPT ![e][c] = "running"]
    <3>1. /\ c <= Statements => c <= next[e] /\ (c < next[e] => Body[c].kind = "spawn")
          /\ c > Statements => stage[e][Body[c].inside] = "running"
      BY <1>2, <2>1, WhereMoving
    <3>2. QED
      BY <1>3, <2>1, <2>2, <3>1 DEF Moving
  <2>3. CASE \E a : Return(e, c, a)
    BY <1>2, <2>1, <2>3, ReturnTurns
  <2>4. QED
    BY <1>9, <2>2, <2>3 DEF GetStep
<1>10. ASSUME NEW e \in Executions, NEW c \in Calls, Operate(e, c) PROVE Moving(e, c) \/ Pausing
  <2>1. /\ stage[e][c] = "running" /\ UNCHANGED <<life, next>>
        /\ \A d \in Inner(c) : Answered(e, d)
        /\ stage' = [stage EXCEPT ![e][c] = "ran"] \/ stage' = stage
    BY <1>10 DEF Operate, Retry
  <2>2. CASE stage' = stage
    BY <2>1, <2>2 DEF Pausing, Coming
  <2>3. CASE stage' = [stage EXCEPT ![e][c] = "ran"]
    <3>1. /\ c <= Statements => c <= next[e] /\ (c < next[e] => Body[c].kind = "spawn")
          /\ c > Statements => stage[e][Body[c].inside] = "running"
      BY <1>2, <2>1, WhereMoving
    <3>2. QED
      BY <1>3, <2>1, <2>3, <3>1 DEF Moving
  <2>4. QED
    BY <2>1, <2>2, <2>3
<1>11. ASSUME NEW e \in Executions, NEW c \in Calls, RecordStep(e, c) \/ StepFault(e, c)
       PROVE  Moving(e, c) \/ Turning(e, c)
  <2>1. /\ stage[e][c] \in {"numbered", "ran"} /\ Alive(e, c)
        /\ \E a : Return(e, c, a)
    BY <1>11 DEF RecordStep, StepFault
  <2>2. QED
    BY <1>2, <2>1, ReturnTurns
<1>12. CASE UNCHANGED vars
  BY <1>12 DEF vars, Pausing, Coming
<1>13. QED
  BY <1>4, <1>5, <1>6, <1>7, <1>8, <1>9, <1>10, <1>11, <1>12 DEF Next

\* The order of an execution is about its own control only.
LEMMA OtherOrder ==
  ASSUME NEW f \in Executions, OrderOf(f), stage'[f] = stage[f], next'[f] = next[f],
         Coming(f)' => Coming(f)
  PROVE  OrderOf(f)'
BY DEF OrderOf, Answered

LEMMA PausingOrder ==
  ASSUME InOrder, Pausing
  PROVE  InOrder'
BY OtherOrder DEF InOrder, Pausing

LEMMA MovingOrder ==
  ASSUME Typed, InOrder, NEW e \in Executions, NEW c \in Calls, Moving(e, c)
  PROVE  InOrder'
<1>1. ControlType /\ next[e] \in Calls /\ next[e] \in Nat /\ next[e] <= Statements
      /\ Statements \in Nat /\ c \in Nat
  BY TypeParts, NextCall, BodyFacts DEF Typed
<1>2. PICK s \in Stages \ {"idle"} :
        /\ stage' = [stage EXCEPT ![e][c] = s]
        /\ IF s = "done" THEN c > Statements \/ (c = next[e] => ~Coming(e))
           ELSE c > Statements => stage[e][Body[c].inside] = "running"
  BY DEF Moving
<1>3. /\ \A f \in Executions : f # e => stage'[f] = stage[f]
      /\ \A d \in Calls : stage'[e][d] = IF d = c THEN s ELSE stage[e][d]
  BY <1>1, <1>2 DEF ControlType
<1>4. UNCHANGED <<life, next>> /\ OrderOf(e) /\ \A f \in Executions : OrderOf(f)
  BY DEF Moving, InOrder
<1>5. \A f \in Executions : f # e => OrderOf(f)'
  BY <1>3, <1>4, OtherOrder DEF Coming
<1>6. ASSUME NEW d \in Calls, d <= Statements
      PROVE  /\ d < next[e] => stage'[e][d] # "idle" /\ (Body[d].kind # "spawn" => stage'[e][d] = "done")
             /\ d > next[e] => stage'[e][d] = "idle"
  <2>1. /\ d < next[e] => stage[e][d] # "idle" /\ (Body[d].kind # "spawn" => stage[e][d] = "done")
        /\ d > next[e] => stage[e][d] = "idle"
    BY <1>4, <1>6 DEF OrderOf, Answered
  <2>2. CASE d # c
    BY <1>3, <2>1, <2>2
  <2>3. CASE d = c
    <3>1. c <= next[e] /\ (c < next[e] => Body[c].kind = "spawn")
      BY <1>6, <2>3 DEF Moving
    <3>2. stage'[e][c] # "idle"
      BY <1>2, <1>3
    <3>3. QED
      BY <1>1, <2>3, <3>1, <3>2
  <2>4. QED
    BY <2>2, <2>3
<1>7. ASSUME Coming(e) PROVE stage'[e][next[e]] # "done"
  <2>1. stage[e][next[e]] # "done"
    BY <1>4, <1>7 DEF OrderOf, Answered
  <2>2. CASE next[e] # c
    BY <1>1, <1>3, <2>1, <2>2
  <2>3. CASE next[e] = c
    BY <1>1, <1>2, <1>3, <1>7, <2>3
  <2>4. QED
    BY <2>2, <2>3
<1>8. ASSUME NEW d \in Calls, d > Statements, stage'[e][d] \notin {"idle", "done"}
      PROVE  stage'[e][Body[d].inside] = "running"
  <2>1. Root(d) = Body[d].inside /\ Root(d) \in Calls /\ Root(d) <= Statements /\ Root(d) \in Nat
    BY <1>8, RootFacts
  <2>2. CASE d = c
    <3>1. s # "done"
      BY <1>3, <1>8, <2>2
    <3>2. stage[e][Body[c].inside] = "running"
      BY <1>2, <1>8, <2>2, <3>1
    <3>3. Root(d) # c
      BY <1>1, <1>8, <2>1, <2>2
    <3>4. QED
      BY <1>3, <2>1, <2>2, <3>2, <3>3
  <2>3. CASE d # c
    <3>1. stage[e][d] \notin {"idle", "done"}
      BY <1>3, <1>8, <2>3
    <3>2. stage[e][Body[d].inside] = "running"
      BY <1>4, <1>8, <3>1 DEF OrderOf
    <3>3. ASSUME Root(d) = c PROVE FALSE
      <4>1. d \in Inner(c)
        BY <2>1, <3>3 DEF Inner
      <4>2. stage[e][d] = "done"
        BY <2>1, <3>2, <3>3, <4>1 DEF Moving, Answered
      <4>3. QED
        BY <3>1, <4>2
    <3>4. QED
      BY <1>3, <2>1, <3>2, <3>3
  <2>4. QED
    BY <2>2, <2>3
<1>9. OrderOf(e)'
  <2>1. \A d \in Calls : d <= Statements =>
          /\ d < next'[e] => stage'[e][d] # "idle" /\ (Body[d].kind # "spawn" => stage'[e][d] = "done")
          /\ d > next'[e] => stage'[e][d] = "idle"
    BY <1>4, <1>6
  <2>2. Coming(e)' => stage'[e][next'[e]] # "done"
    BY <1>4, <1>7 DEF Coming
  <2>3. \A d \in Calls : d > Statements /\ stage'[e][d] \notin {"idle", "done"}
          => stage'[e][Body[d].inside] = "running"
    BY <1>8
  <2>4. QED
    BY <2>1, <2>2, <2>3 DEF OrderOf, Answered
<1>10. QED
  BY <1>5, <1>9 DEF InOrder

LEMMA TurningOrder ==
  ASSUME Typed, Typed', InOrder, NEW e \in Executions, NEW c \in Calls, Turning(e, c)
  PROVE  InOrder'
<1>1. ControlType /\ next[e] \in Calls /\ next[e] \in Nat /\ next[e] <= Statements
      /\ Statements \in Nat /\ c \in Nat /\ c = next[e]
  BY TypeParts, NextCall, BodyFacts DEF Typed, Turning
<1>2. ControlType' /\ next'[e] \in 1..Statements
  BY TypeParts DEF Typed, ControlType
<1>3. PICK s \in {"done", "spawned"} :
        /\ s = "spawned" => Body[c].kind = "spawn"
        /\ stage' = [stage EXCEPT ![e][c] = s]
  BY DEF Turning
<1>4. /\ \A f \in Executions : f # e => stage'[f] = stage[f]
      /\ \A d \in Calls : stage'[e][d] = IF d = c THEN s ELSE stage[e][d]
  BY <1>1, <1>3 DEF ControlType
<1>5. OrderOf(e) /\ \A f \in Executions : OrderOf(f)
  BY DEF InOrder
<1>6. \/ next' = [next EXCEPT ![e] = next[e] + 1] /\ life' = life
      \/ life' = [life EXCEPT ![e] = "ended"] /\ next' = next
  BY DEF Turning, Proceed
<1>7. /\ \A f \in Executions : f # e => next'[f] = next[f] /\ life'[f] = life[f]
      /\ next'[e] = next[e] + 1 \/ (next'[e] = next[e] /\ ~Coming(e)')
  BY <1>1, <1>6 DEF ControlType, Coming
<1>8. \A f \in Executions : f # e => OrderOf(f)'
  BY <1>4, <1>5, <1>7, OtherOrder DEF Coming
<1>9. ASSUME NEW d \in Calls, d <= Statements
      PROVE  /\ d < next'[e] => stage'[e][d] # "idle" /\ (Body[d].kind # "spawn" => stage'[e][d] = "done")
             /\ d > next'[e] => stage'[e][d] = "idle"
  <2>1. /\ d < next[e] => stage[e][d] # "idle" /\ (Body[d].kind # "spawn" => stage[e][d] = "done")
        /\ d > next[e] => stage[e][d] = "idle"
    BY <1>5, <1>9 DEF OrderOf, Answered
  <2>2. d \in Nat /\ next'[e] \in Nat /\ (next'[e] = next[e] + 1 \/ next'[e] = next[e])
    BY <1>2, <1>7, BodyFacts
  <2>3. CASE d = c
    BY <1>1, <1>3, <1>4, <2>2, <2>3
  <2>4. CASE d # c
    BY <1>1, <1>4, <2>1, <2>2, <2>4
  <2>5. QED
    BY <2>3, <2>4
<1>10. ASSUME Coming(e)' PROVE stage'[e][next'[e]] # "done"
  <2>1. next'[e] = next[e] + 1
    BY <1>7, <1>10
  <2>2. next'[e] \in Calls /\ next'[e] <= Statements /\ next'[e] > next[e]
    BY <1>1, <1>2, <2>1, BodyFacts DEF Calls
  <2>3. stage[e][next'[e]] = "idle"
    BY <1>5, <2>2 DEF OrderOf
  <2>4. next'[e] # c
    BY <1>1, <2>1
  <2>5. QED
    BY <1>4, <2>2, <2>3, <2>4
<1>11. ASSUME NEW d \in Calls, d > Statements, stage'[e][d] \notin {"idle", "done"}
       PROVE  stage'[e][Body[d].inside] = "running"
  <2>1. /\ Root(d) = Body[d].inside /\ Root(d) \in Calls
        /\ Body[Root(d)].kind # "join"
    BY <1>11, RootFacts
  <2>2. d # c
    BY <1>1, <1>11
  <2>3. stage[e][d] \notin {"idle", "done"}
    BY <1>4, <1>11, <2>2
  <2>4. stage[e][Root(d)] = "running"
    BY <1>5, <1>11, <2>1, <2>3 DEF OrderOf
  <2>5. Root(d) # c
    BY <2>1, <2>4 DEF Turning
  <2>6. QED
    BY <1>4, <2>1, <2>4, <2>5
<1>12. OrderOf(e)'
  <2>1. \A d \in Calls : d <= Statements =>
          /\ d < next'[e] => stage'[e][d] # "idle" /\ (Body[d].kind # "spawn" => stage'[e][d] = "done")
          /\ d > next'[e] => stage'[e][d] = "idle"
    BY <1>9
  <2>2. \A d \in Calls : d > Statements /\ stage'[e][d] \notin {"idle", "done"}
          => stage'[e][Body[d].inside] = "running"
    BY <1>11
  <2>3. QED
    BY <1>10, <2>1, <2>2 DEF OrderOf, Answered
<1>13. QED
  BY <1>8, <1>12 DEF InOrder

\* The order is kept at all times.
LEMMA AlwaysInOrder == Spec => [](Typed /\ InOrder)
<1>1. Init => InOrder
  <2> SUFFICES ASSUME Init, NEW e \in Executions PROVE OrderOf(e)
    BY DEF InOrder
  <2>1. Typed
    BY InitTyped DEF Typed, Init, HasNumber
  <2>2. next[e] = 1 /\ next[e] \in Calls
    BY <2>1, NextCall, TypeParts DEF Typed, Init
  <2>3. \A c \in Calls : stage[e][c] = "idle" /\ ~(c < 1)
    BY BodyFacts DEF Init
  <2>4. QED
    BY <2>2, <2>3 DEF OrderOf, Answered
<1>2. Typed /\ Typed' /\ InOrder /\ [Next]_vars => InOrder'
  BY StepTurns, PausingOrder, MovingOrder, TurningOrder
<1>3. QED
  BY <1>1, <1>2, AlwaysTyped, PTL DEF Spec

\* A set of calls has a first one.
LEMMA FirstCall ==
  ASSUME NEW T \in SUBSET Calls, T # {}
  PROVE  \E c \in T : \A d \in T : c <= d
<1>1. T \in SUBSET Nat
  BY BodyFacts
<1>2. \E c \in T : \A d \in T : ~(<<d, c>> \in OpToRel(<, Nat))
  BY <1>1, NatLessThanWellFounded, WFMin, Zenon
<1>3. \A c, d \in Nat : ~(<<d, c>> \in OpToRel(<, Nat)) => c <= d
  BY DEF OpToRel
<1>4. QED
  BY <1>1, <1>2, <1>3

\* The statements of an execution that may still do something.
Pending(e) ==
  {c \in Calls :
     /\ c <= Statements /\ Alive(e, c)
     /\ (life[e] = "running" /\ c = next[e]) \/ stage[e][c] \notin {"idle", "done"}}

\* An execution with anything under way has such a statement.
LEMMA SomePending ==
  ASSUME Typed, NEW e \in Executions, OrderOf(e), life[e] = "running" \/ Active(e)
  PROVE  Pending(e) # {}
<1>1. ControlType
  BY TypeParts DEF Typed
<1>2. CASE life[e] = "running"
  <2>1. next[e] \in Calls /\ next[e] <= Statements
    BY <1>1, NextCall
  <2>2. next[e] \in Pending(e)
    BY <1>2, <2>1 DEF Pending, Alive
  <2>3. QED
    BY <2>2
<1>3. CASE Active(e)
  <2>1. PICK c \in Calls : Alive(e, c) /\ stage[e][c] \notin {"idle", "done"}
    BY <1>3 DEF Active
  <2>2. Root(c) \in Calls /\ Root(c) <= Statements /\ Alive(e, Root(c))
    BY <2>1, RootFacts
  <2>3. stage[e][Root(c)] \notin {"idle", "done"}
    <3>1. CASE c <= Statements
      BY <2>1, <3>1 DEF Root
    <3>2. CASE ~(c <= Statements)
      <4>1. c > Statements /\ Root(c) = Body[c].inside
        BY <3>2, BodyFacts DEF Root
      <4>2. QED
        BY <2>1, <4>1 DEF OrderOf
    <3>3. QED
      BY <3>1, <3>2
  <2>4. Root(c) \in Pending(e)
    BY <2>2, <2>3 DEF Pending
  <2>5. QED
    BY <2>4
<1>4. QED
  BY <1>2, <1>3

\* Of the first of them, and of the calls inside it, every handle they wait for is that of a
\* step that has returned: it was spawned by an earlier statement.
LEMMA HandlesReturned ==
  ASSUME Typed, NEW e \in Executions, OrderOf(e), NEW c \in Pending(e),
         \A d \in Pending(e) : c <= d,
         NEW x \in Calls, Root(x) = c
  PROVE  Finished(e, x) = Body[x].waits
<1> SUFFICES ASSUME NEW d \in Body[x].waits PROVE Answered(e, d)
  BY DEF Finished
<1>1. ControlType /\ next[e] \in Nat /\ next[e] <= Statements /\ Statements \in Nat
  BY TypeParts, NextCall DEF Typed
<1>2. c \in Calls /\ c \in Nat /\ c <= Statements /\ Alive(e, c)
  BY BodyFacts DEF Pending
<1>3. c <= next[e]
  BY <1>1, <1>2 DEF Pending, OrderOf
<1>4. d \in Calls /\ d \in Nat /\ d < c /\ Body[d].kind = "spawn"
  BY RootFacts, BodyFacts
<1>5. d <= Statements /\ d < next[e]
  BY <1>1, <1>2, <1>3, <1>4
<1>6. stage[e][d] # "idle"
  BY <1>4, <1>5 DEF OrderOf
<1>7. Alive(e, d)
  <2>1. Detached(d)
    BY <1>4, <1>5 DEF Detached, Root
  <2>2. QED
    BY <1>2, <2>1 DEF Alive
<1>8. d \notin Pending(e)
  BY <1>2, <1>4
<1>9. QED
  BY <1>4, <1>5, <1>6, <1>7, <1>8 DEF Pending, Answered

\* An operation that waits for handles of steps that have returned may return.
LEMMA OutcomePossible ==
  ASSUME NEW e \in Executions, NEW c \in Calls, Finished(e, c) = Body[c].waits
  PROVE  Outcomes(e, c) # {}
<1>1. CASE Body[c].waits = {}
  BY <1>1 DEF Outcomes
<1>2. CASE Body[c].waits # {}
  <2> DEFINE Given(d) == IF answer[e][d].tag = "ok" THEN answer[e][d] ELSE Failed
  <2>1. PICK d : d \in Finished(e, c)
    BY <1>2
  <2>2. Given(d) \in {Given(x) : x \in Finished(e, c)}
    BY <2>1
  <2>3. {Given(x) : x \in Finished(e, c)} # {}
    BY <2>2
  <2>4. Outcomes(e, c) = {Failed} \/ Outcomes(e, c) = {Given(x) : x \in Finished(e, c)}
    BY <1>2, Zenon DEF Outcomes
  <2>5. QED
    BY <2>3, <2>4
<1>3. QED
  BY <1>1, <1>2

\* A call that is under way, and those inside it, can go on when no handle is missing.
LEMMA CallGoesOn ==
  ASSUME Typed, NEW e \in Executions, OrderOf(e), NEW c \in Calls, c <= Statements, Alive(e, c),
         stage[e][c] \notin {"idle", "done"},
         \A x \in Calls : Root(x) = c => Finished(e, x) = Body[x].waits
  PROVE  CanGoOn(e)
<1>1. stage[e][c] \in Stages /\ \A d \in Calls : stage[e][d] \in Stages
  BY TypeParts DEF Typed, ControlType
<1>2. CASE stage[e][c] = "spawned"
  BY <1>2 DEF CanGoOn, Reached
<1>3. CASE stage[e][c] \in {"numbered", "ran"}
  BY <1>3 DEF CanGoOn
<1>4. CASE stage[e][c] = "running" /\ \A d \in Inner(c) : Answered(e, d)
  <2>1. Root(c) = c
    BY DEF Root
  <2>2. Outcomes(e, c) # {}
    BY <2>1, OutcomePossible
  <2>3. QED
    BY <1>4, <2>2 DEF CanGoOn
<1>5. CASE stage[e][c] = "running" /\ ~\A d \in Inner(c) : Answered(e, d)
  <2>1. PICK x \in {d \in Inner(c) : ~Answered(e, d)} :
          \A d \in {z \in Inner(c) : ~Answered(e, z)} : x <= d
    <3>1. {d \in Inner(c) : ~Answered(e, d)} \in SUBSET Calls
      BY DEF Inner
    <3>2. {d \in Inner(c) : ~Answered(e, d)} # {}
      BY <1>5
    <3>3. QED
      BY <3>1, <3>2, FirstCall
  <2>2. /\ x \in Calls /\ x \in Nat /\ Body[x].inside = c /\ stage[e][x] # "done"
        /\ Statements \in Nat /\ c \in Nat /\ c # 0 /\ Inner(c) \subseteq Nat
    BY <2>1, BodyFacts DEF Inner, Answered
  <2>3. x > Statements
    BY <2>2, BodyAssumption
  <2>4. Root(x) = c /\ Alive(e, x)
    BY <2>2, <2>3, RootFacts
  <2>5. \A d \in Inner(c) : d < x => Answered(e, d)
    BY <2>1, <2>2
  <2>6. CASE stage[e][x] \in {"idle", "spawned"}
    <3>1. Reached(e, x)
      BY <1>5, <2>2, <2>3, <2>4, <2>5, <2>6 DEF Reached
    <3>2. QED
      BY <2>2, <2>4, <3>1 DEF CanGoOn
  <2>7. CASE stage[e][x] \in {"numbered", "ran"}
    BY <2>2, <2>4, <2>7 DEF CanGoOn
  <2>8. CASE stage[e][x] = "running"
    <3>1. Inner(x) = {}
      <4>1. ASSUME NEW d \in Calls, Body[d].inside = x PROVE FALSE
        <5>1. x # 0 /\ ~(d <= Statements)
          BY <2>2, <2>3, <4>1, BodyAssumption
        <5>2. Body[d].inside \in 1..Statements
          BY <4>1, <5>1, BodyFacts, BodyAssumption
        <5>3. QED
          BY <2>2, <2>3, <4>1, <5>2
      <4>2. QED
        BY <4>1 DEF Inner
    <3>2. Outcomes(e, x) # {}
      BY <2>2, <2>4, OutcomePossible
    <3>3. QED
      BY <2>2, <2>4, <2>8, <3>1, <3>2 DEF CanGoOn
  <2>9. QED
    BY <1>1, <2>2, <2>6, <2>7, <2>8 DEF Stages
<1>6. QED
  BY <1>1, <1>2, <1>3, <1>4, <1>5 DEF Stages

\* No select, join or nested step waits for ever for one that waits for it: an execution with
\* anything under way can take a step, whatever has failed, was aborted or has ended.
THEOREM NeverStuck == Spec => []NobodyStuck
<1>1. Typed /\ InOrder => NobodyStuck
  <2> SUFFICES ASSUME Typed, InOrder, NEW e \in Executions, life[e] = "running" \/ Active(e)
               PROVE  CanGoOn(e)
    BY DEF NobodyStuck
  <2>1. OrderOf(e) /\ ControlType
    BY TypeParts DEF InOrder, Typed
  <2>2. Pending(e) # {} /\ Pending(e) \in SUBSET Calls
    BY <2>1, SomePending DEF Pending
  <2>3. PICK c \in Pending(e) : \A d \in Pending(e) : c <= d
    BY <2>2, FirstCall
  <2>4. c \in Calls /\ c <= Statements /\ Alive(e, c) /\ Root(c) = c
    BY <2>3 DEF Pending, Root
  <2>5. \A x \in Calls : Root(x) = c => Finished(e, x) = Body[x].waits
    BY <2>1, <2>3, HandlesReturned
  <2>6. CASE stage[e][c] \notin {"idle", "done"}
    BY <2>1, <2>4, <2>5, <2>6, CallGoesOn
  <2>7. CASE stage[e][c] \in {"idle", "done"}
    <3>1. life[e] = "running" /\ c = next[e]
      BY <2>3, <2>7 DEF Pending
    <3>2. stage[e][c] = "idle"
      BY <2>1, <2>7, <3>1 DEF OrderOf, Coming, Answered
    <3>3. CASE Body[c].kind = "spawn"
      BY <3>1, <3>3 DEF CanGoOn
    <3>4. CASE Body[c].kind = "run"
      <4>1. Reached(e, c)
        BY <2>4, <3>1, <3>2, <3>4 DEF Reached
      <4>2. QED
        BY <2>4, <4>1 DEF CanGoOn
    <3>5. CASE Body[c].kind = "join"
      <4>1. Body[c].waits # {}
        BY <2>4, <3>5, BodyAssumption
      <4>2. Finished(e, c) # {}
        BY <2>4, <2>5, <4>1
      <4>3. QED
        BY <3>1, <3>5, <4>2 DEF CanGoOn
    <3>6. QED
      BY <2>4, <3>3, <3>4, <3>5, BodyFacts
  <2>8. QED
    BY <2>6, <2>7
<1>2. QED
  BY <1>1, AlwaysInOrder, PTL
=============================================================================
