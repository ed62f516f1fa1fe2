----------------------------- MODULE SqlStore_proofs -----------------------------
(***************************************************************************)
(* Theorems about SqlStore, for every value of its constants: types, what  *)
(* an answer to a claim says, that histories are not mixed and imports     *)
(* whole, and that the statements implement                                *)
(* AtomicStore.                                                            *)
(***************************************************************************)
EXTENDS SqlStore, TLAPS

\* The rows that are inserted: the columns apart from the claim.
Plain(row) ==
  /\ row.status = "Pending" /\ row.name \in Names
  /\ row.queue = None /\ row.dedup = None /\ row.delay = None

Fresh(row) == Plain(row) /\ row.executor = None /\ row.execution = None

\* What a statement carries is fit for what it does.
Sound(s) ==
  /\ s.at # None => s.of \in Workflows
  /\ s.at \in {"insert", "select"} => Fresh(s.row)
  /\ s.at = "put" => Fresh(s.row) /\ s.born \in Executions
  /\ s.at = "update" => s.executor \in ExecutorIds

\* A call that goes on has no answer yet.
CallsSound == \A c \in Executions : Active(c) => told[c] = None /\ Sound(call[c])

AdriftSound == \A m \in adrift : Sound(m.sent)

\* A row was created by a call, and claimed by one that has been applied.
RowsSound ==
  \A w \in Workflows :
    /\ rows[w] # Absent => Plain(rows[w]) /\ birth[w] \in Executions
    /\ rows[w].execution # None => rows[w].execution \in applied

\* Yes means that it has happened.
YesIsTrue == \A c \in Executions : told[c] \in {"granted", "inserted"} => c \in applied

\* A row is held by a call that is under way, or was answered something else than no.
HoldersKnown ==
  \A c \in Executions, w \in Workflows :
    rows[w].execution = c =>
      \/ c \in late
      \/ Active(c) /\ call[c].of = w
      \/ told[c] \notin {None, "refused"}

Inv == TypeOK /\ CallsSound /\ AdriftSound /\ RowsSound /\ YesIsTrue /\ HoldersKnown

\* What the client does next: it goes on with the call, or it returns an answer that
\* agrees with the statement that was applied.
Agrees(c, a) ==
  \/ a = "error"
  \/ a = "inserted" /\ call[c].at = "insert" /\ rows[call[c].of] = Absent
  \/ a \in {"existing", "conflict"} /\ call[c].at = "select" /\ rows[call[c].of] # Absent
  \/ a = "granted" /\ call[c].at = "update" /\ Claimable(rows[call[c].of])
  \/ a = "granted" /\ call[c].at = "resolve" /\ rows[call[c].of].execution = c
  \/ a = "refused" /\ call[c].at = "resolve" /\ rows[call[c].of].execution # c
  \/ a = "ok" /\ call[c].at \in {"put", "part", "list", "sweep"}

GoesOn(c) ==
  /\ told' = told
  /\ \E next \in Call : /\ call' = [call EXCEPT ![c] = next]
                        /\ next.at # None /\ next.of = call[c].of /\ Sound(next)

Returns(c) == \E a \in Answers : Agrees(c, a) /\ Return(c, a)
-----------------------------------------------------------------------------
(* Types and shapes.                                                       *)

\* The absent row is a row that nobody holds, and not a plain one.
LEMMA AbsentRow == Absent \in Row /\ ~Plain(Absent) /\ Absent.execution = None
BY DEF Absent, Row, Plain

\* A fresh row is the new row of its name.
LEMMA FreshRow ==
  ASSUME NEW row \in Row, Fresh(row)
  PROVE  /\ row = NewRow(row.name, None, None, None)
         /\ row = Promise!NewRow(row.name, None, None, None)
BY DEF Row, Fresh, Plain, NewRow, Promise!NewRow

\* The row that an insert is given.
LEMMA NewRowFresh ==
  ASSUME NEW name \in Names
  PROVE  NewRow(name, None, None, None) \in Row /\ Fresh(NewRow(name, None, None, None))
BY DEF Row, Fresh, Plain, NewRow, Unfinished

\* A claim changes who holds the row.
LEMMA ClaimedRowShape ==
  ASSUME NEW row \in Row, NEW e \in ExecutorIds, NEW x \in Executions, Plain(row)
  PROVE  /\ ClaimedRow(row, e, x) \in Row /\ Plain(ClaimedRow(row, e, x))
         /\ ClaimedRow(row, e, x).execution = x
BY DEF Row, ClaimedRow, Plain, Unfinished

\* A claimable row is there.
LEMMA ClaimableRow == ~Claimable(Absent)
BY DEF Claimable, Absent

\* The copy that resume saves is fresh.
LEMMA ResumedRow ==
  ASSUME NEW row \in Row, Plain(row)
  PROVE  LET saved == [row EXCEPT !.status = "Pending", !.executor = None, !.execution = None]
         IN  saved \in Row /\ Fresh(saved)
BY DEF Row, Fresh, Plain, Unfinished

\* A call that is over is no statement.
LEMMA NoCallType ==
  ASSUME NEW op \in Ops \cup {None}, NEW w \in Workflows \cup {None}
  PROVE  LET over == [NoCall EXCEPT !.op = op, !.of = w]
         IN  over \in Call /\ over.at = None /\ over.op = op /\ over.of = w
<1> DEFINE over == [NoCall EXCEPT !.op = op, !.of = w]
<1>1. 1 \in 1..(Related + 1) /\ 0 \in 0..1
  BY SqlAssumption
<1>2. over \in Call
  BY <1>1, AbsentRow, Zenon DEF NoCall, Call
<1>3. over.at = None /\ over.op = op /\ over.of = w
  BY Zenon DEF NoCall
<1>4. QED
  BY <1>2, <1>3
-----------------------------------------------------------------------------
(* What a statement does to the tables.                                    *)

\* A statement leaves the tables typed and their rows sound, and gives a row to its own
\* call only.
LEMMA ApplySound ==
  ASSUME Inv, NEW c \in Executions, NEW s \in Call, s.at # None, Sound(s), Apply(c, s)
  PROVE  /\ rows' \in [Workflows -> Row]
         /\ parts' \in [Workflows -> [Kinds -> Executions \cup {None}]]
         /\ birth' \in [Workflows -> Executions \cup {None}]
         /\ applied \subseteq applied' /\ applied' \subseteq Executions
         /\ RowsSound'
         /\ \A w \in Workflows : \/ rows'[w].execution \in {None, rows[w].execution}
                                 \/ w = s.of /\ rows'[w].execution = c
<1> s.of \in Workflows
  BY DEF Sound
<1> /\ rows \in [Workflows -> Row] /\ birth \in [Workflows -> Executions \cup {None}]
    /\ parts \in [Workflows -> [Kinds -> Executions \cup {None}]]
    /\ applied \subseteq Executions /\ RowsSound
  BY DEF Inv, TypeOK
<1> s.row \in Row /\ s.born \in Executions \cup {None} /\ s.kind \in Nat
  BY SqlAssumption DEF Call
<1>1. CASE UNCHANGED tables
  BY <1>1 DEF tables, RowsSound
<1>2. CASE s.at = "insert" /\ InsertRow(c, s) /\ rows[s.of] = Absent
  <2>1. Fresh(s.row) /\ Plain(s.row) /\ s.row.execution = None
    BY <1>2 DEF Sound, Fresh
  <2>2. /\ rows' = [rows EXCEPT ![s.of] = s.row] /\ birth' = [birth EXCEPT ![s.of] = c]
        /\ applied' = applied \cup {c} /\ parts' = parts
    BY <1>2 DEF InsertRow
  <2>3. QED
    BY <2>1, <2>2 DEF RowsSound
<1>3. CASE s.at = "update" /\ ClaimRow(c, s) /\ Claimable(rows[s.of])
  <2> DEFINE row == ClaimedRow(rows[s.of], s.executor, c)
  <2>1. s.executor \in ExecutorIds /\ rows[s.of] # Absent
    BY <1>3, ClaimableRow DEF Sound
  <2>2. row \in Row /\ Plain(row) /\ row.execution = c
    BY <2>1, ClaimedRowShape DEF RowsSound
  <2>3. /\ rows' = [rows EXCEPT ![s.of] = row] /\ birth' = birth
        /\ applied' = applied \cup {c} /\ parts' = parts
    BY <1>3 DEF ClaimRow
  <2> HIDE DEF row
  <2>4. QED
    BY <2>1, <2>2, <2>3 DEF RowsSound
<1>4. CASE s.at = "put" /\ PutRow(s)
  <2>1. Plain(s.row) /\ s.row.execution = None /\ s.born \in Executions
    BY <1>4 DEF Sound, Fresh
  <2>2. /\ rows' = [rows EXCEPT ![s.of] = s.row] /\ birth' = [birth EXCEPT ![s.of] = s.born]
        /\ applied' = applied /\ parts' = parts
    BY <1>4 DEF PutRow
  <2>3. QED
    BY <2>1, <2>2 DEF RowsSound
<1>5. CASE s.at = "delete" /\ DeleteRow(s)
  <2>1. /\ rows' = [rows EXCEPT ![s.of] = Absent] /\ birth' = [birth EXCEPT ![s.of] = None]
        /\ applied' = applied /\ parts' = parts
    BY <1>5 DEF DeleteRow
  <2>2. QED
    BY <2>1, AbsentRow DEF RowsSound
<1>6. ASSUME NEW origin \in Executions \cup {None}, SetPart(s, origin)
      PROVE  /\ parts' \in [Workflows -> [Kinds -> Executions \cup {None}]]
             /\ UNCHANGED <<rows, birth, applied>>
  BY <1>6 DEF SetPart
<1>7. CASE s.at \in {"part", "sweep"} /\ UNCHANGED <<rows, birth, applied>>
           /\ parts' \in [Workflows -> [Kinds -> Executions \cup {None}]]
  BY <1>7 DEF RowsSound
<1>8. QED
  BY <1>1, <1>2, <1>3, <1>4, <1>5, <1>6, <1>7 DEF Apply, InsertRow, ClaimRow
-----------------------------------------------------------------------------
(* What the client does next.                                              *)

\* An active call knows its workflow, its statement, and has no answer.
LEMMA ActiveCall ==
  ASSUME Inv, NEW c \in Executions, Active(c)
  PROVE  /\ call[c] \in Call /\ Sound(call[c]) /\ told[c] = None
         /\ call[c].of \in Workflows /\ call[c].at \in Statements
         /\ rows[call[c].of] \in Row /\ call[c].row \in Row
BY DEF Inv, TypeOK, CallsSound, Sound, Active, Call

\* The client goes on with a statement for which the call is fit.
LEMMA GotoGoesOn ==
  ASSUME Inv, NEW c \in Executions, Active(c), NEW at \in Statements, Goto(c, at),
         at \in {"insert", "select"} => Fresh(call[c].row),
         at \notin {"put", "update"}
  PROVE  GoesOn(c)
<1> DEFINE next == [call[c] EXCEPT !.at = at, !.try = 0]
<1>1. /\ call[c] \in Call /\ call \in [Executions -> Call] /\ call[c].of \in Workflows
      /\ 0 \in 0..1
  BY ActiveCall DEF Inv, TypeOK
<1>2. /\ next \in Call /\ next.at = at /\ next.of = call[c].of /\ next.row = call[c].row
      /\ call' = [call EXCEPT ![c] = next] /\ told' = told
  <2>1. next \in Call /\ next.at = at /\ next.of = call[c].of /\ next.row = call[c].row
    BY <1>1, Zenon DEF Call
  <2>2. call' = [call EXCEPT ![c] = next]
    BY <1>1, Zenon DEF Goto
  <2>3. told' = told
    BY DEF Goto
  <2>4. QED
    BY <2>1, <2>2, <2>3, Zenon
<1> HIDE DEF next
<1>3. Sound(next) /\ next.at # None
  BY <1>1, <1>2, SqlAssumption DEF Sound
<1>4. QED
  BY <1>2, <1>3 DEF GoesOn

\* The next table of related rows, or the end.
LEMMA NextKindMoves ==
  ASSUME Inv, NEW c \in Executions, Active(c), call[c].at \in {"part", "list", "sweep"},
         NEW at \in {"part", "list"}, NextKind(c, at)
  PROVE  GoesOn(c) \/ Returns(c)
<1>1. CASE call[c].kind < Related
  <2> DEFINE next == [call[c] EXCEPT !.at = at, !.try = 0, !.kind = @ + 1]
  <2>1. call[c] \in Call /\ call \in [Executions -> Call] /\ call[c].of \in Workflows
    BY ActiveCall DEF Inv, TypeOK
  <2>2. call[c].kind + 1 \in 1..(Related + 1) /\ at \in Statements
    BY <1>1, <2>1, SqlAssumption DEF Call, Statements
  <2>3. next \in Call /\ next.at = at /\ next.of = call[c].of
    BY <2>1, <2>2, 0 \in 0..1, Zenon DEF Call
  <2>4. call' = [call EXCEPT ![c] = next] /\ told' = told
    BY <1>1, <2>1, Zenon DEF NextKind
  <2> HIDE DEF next
  <2>5. Sound(next) /\ next.at # None
    BY <2>1, <2>2, <2>3, SqlAssumption DEF Sound
  <2>6. QED
    BY <2>3, <2>4, <2>5 DEF GoesOn
<1>2. CASE ~(call[c].kind < Related)
  BY <1>2 DEF NextKind, Returns, Agrees, Answers
<1>3. QED
  BY <1>1, <1>2

\* An import goes on with the related rows, any other insert returns.
LEMMA InsertedMoves ==
  ASSUME Inv, NEW c \in Executions, Active(c), call[c].at = "insert",
         rows[call[c].of] = Absent, Inserted(c)
  PROVE  GoesOn(c) \/ Returns(c)
<1>1. CASE call[c].op = "import"
  <2> DEFINE next == [call[c] EXCEPT !.at = "part", !.try = 0, !.born = c]
  <2>1. call[c] \in Call /\ call \in [Executions -> Call] /\ call[c].of \in Workflows
    BY ActiveCall DEF Inv, TypeOK
  <2>2. next \in Call /\ next.at = "part" /\ next.of = call[c].of
    <3>1. "part" \in Statements /\ 0 \in 0..1 /\ c \in Executions \cup {None}
      BY DEF Statements
    <3>2. QED
      BY <2>1, <3>1, Zenon DEF Call
  <2>3. call' = [call EXCEPT ![c] = next] /\ told' = told
    BY <1>1, <2>1, Zenon DEF Inserted
  <2> HIDE DEF next
  <2>4. Sound(next) /\ next.at # None
    BY <2>1, <2>2, SqlAssumption DEF Sound, Statements
  <2>5. QED
    BY <2>2, <2>3, <2>4 DEF GoesOn
<1>2. CASE call[c].op # "import"
  BY <1>2 DEF Inserted, Returns, Agrees, Answers
<1>3. QED
  BY <1>1, <1>2

\* resume_workflow goes on with the copy it has read.
LEMMA AfterGetMoves ==
  ASSUME Inv, NEW c \in Executions, Active(c), call[c].at = "get", AfterGet(c)
  PROVE  GoesOn(c) \/ Returns(c)
<1> DEFINE row   == rows[call[c].of]
           saved == [row EXCEPT !.status = "Pending", !.executor = None, !.execution = None]
           next  == [call[c] EXCEPT !.at = "put", !.try = 0, !.born = birth[call[c].of],
                                    !.row = saved]
<1>1. CASE row = Absent
  <2>1. Return(c, "error")
    BY <1>1 DEF AfterGet
  <2>2. QED
    BY <2>1 DEF Returns, Agrees, Answers
<1>2. CASE row # Absent
  <2>1. /\ call[c] \in Call /\ call \in [Executions -> Call] /\ call[c].of \in Workflows
        /\ row \in Row /\ Plain(row) /\ birth[call[c].of] \in Executions
    BY <1>2, ActiveCall DEF Inv, TypeOK, RowsSound
  <2>2. saved \in Row /\ Fresh(saved)
    BY <2>1, ResumedRow
  <2>3. /\ next \in Call /\ next.at = "put" /\ next.of = call[c].of /\ next.row = saved
        /\ next.born = birth[call[c].of]
    <3> HIDE DEF saved
    <3>1. "put" \in Statements /\ 0 \in 0..1
      BY DEF Statements
    <3>2. QED
      BY <2>1, <2>2, <3>1, Zenon DEF Call
  <2>4. call' = [call EXCEPT ![c] = next] /\ told' = told
    BY <1>2, <2>1, Zenon DEF AfterGet
  <2>5. Sound(next) /\ next.at # None
    <3> HIDE DEF next, saved
    <3>1. QED
      BY <2>1, <2>2, <2>3, SqlAssumption DEF Sound, Statements
  <2>6. QED
    <3> HIDE DEF next, saved
    <3>1. QED
      BY <2>3, <2>4, <2>5 DEF GoesOn
<1>3. QED
  BY <1>1, <1>2

\* After an answer, the client goes on or returns an answer that agrees with it.
LEMMA ProceedMoves ==
  ASSUME Inv, NEW c \in Executions, Active(c), Proceed(c)
  PROVE  GoesOn(c) \/ Returns(c)
<1>1. Sound(call[c])
  BY ActiveCall
<1>2. CASE call[c].at = "insert" /\ AfterInsert(c)
  <2>1. Fresh(call[c].row) /\ "select" \in Statements
    BY <1>1, <1>2 DEF Sound, Statements
  <2>2. QED
    BY <1>2, <2>1, InsertedMoves, GotoGoesOn DEF AfterInsert
<1>3. CASE call[c].at = "select" /\ AfterSelect(c)
  BY <1>3 DEF AfterSelect, Existing, Returns, Agrees, Answers
<1>4. CASE call[c].at = "update" /\ AfterUpdate(c)
  <2>1. "resolve" \in Statements
    BY DEF Statements
  <2>2. CASE Goto(c, "resolve")
    BY <2>1, <2>2, GotoGoesOn
  <2>3. CASE Claimable(rows[call[c].of]) /\ Return(c, "granted")
    BY <1>4, <2>3 DEF Returns, Agrees, Answers
  <2>4. QED
    BY <1>4, <2>2, <2>3 DEF AfterUpdate
<1>5. CASE call[c].at = "resolve" /\ AfterResolve(c)
  BY <1>5 DEF AfterResolve, Returns, Agrees, Answers
<1>6. CASE call[c].at = "get" /\ AfterGet(c)
  BY <1>6, AfterGetMoves
<1>7. CASE call[c].at = "put" /\ Return(c, "ok")
  BY <1>7 DEF Returns, Agrees, Answers
<1>8. CASE call[c].at = "part" /\ AfterPart(c)
  <2>1. CASE NextKind(c, "part")
    BY <1>8, <2>1, NextKindMoves
  <2>2. CASE Return(c, "ok")
    BY <1>8, <2>2 DEF Returns, Agrees, Answers
  <2>3. QED
    BY <1>8, <2>1, <2>2 DEF AfterPart
<1>9. CASE call[c].at = "delete" /\ Goto(c, "list")
  BY <1>9, GotoGoesOn DEF Statements
<1>10. CASE call[c].at = "list" /\ AfterList(c)
  <2>1. CASE Goto(c, "sweep")
    BY <2>1, GotoGoesOn DEF Statements
  <2>2. CASE NextKind(c, "list")
    BY <1>10, <2>2, NextKindMoves
  <2>3. QED
    BY <1>10, <2>1, <2>2 DEF AfterList
<1>11. CASE call[c].at = "sweep" /\ NextKind(c, "list")
  BY <1>11, NextKindMoves
<1>12. QED
  BY <1>2, <1>3, <1>4, <1>5, <1>6, <1>7, <1>8, <1>9, <1>10, <1>11 DEF Proceed

\* After a failure, the client goes on or returns the error.
LEMMA RetryMoves ==
  ASSUME Inv, NEW c \in Executions, Active(c), Retry(c)
  PROVE  GoesOn(c) \/ \E a \in {"error"} : Return(c, a)
<1> DEFINE at == IF call[c].at = "select" THEN "insert" ELSE call[c].at
           next == [call[c] EXCEPT !.at = at, !.try = 1]
<1>1. CASE call' = [call EXCEPT ![c].try = 1, ![c].at = IF @ = "select" THEN "insert" ELSE @]
           /\ UNCHANGED told
  <2>1. /\ call[c] \in Call /\ call \in [Executions -> Call] /\ call[c].of \in Workflows
        /\ at \in Statements /\ Sound(call[c])
    BY ActiveCall DEF Inv, TypeOK, Statements
  <2>2. /\ next \in Call /\ next.at = at /\ next.of = call[c].of /\ next.row = call[c].row
        /\ next.executor = call[c].executor /\ next.born = call[c].born
    <3> HIDE DEF at
    <3>1. QED
      BY <2>1, 1 \in 0..1, Zenon DEF Call
  <2>3. call' = [call EXCEPT ![c] = next] /\ told' = told
    BY <1>1, <2>1 DEF Call
  <2> HIDE DEF next
  <2>4. Sound(next) /\ next.at # None
    BY <2>1, <2>2, SqlAssumption DEF Sound, Statements
  <2>5. QED
    BY <2>2, <2>3, <2>4 DEF GoesOn
<1>2. CASE Goto(c, "resolve")
  BY <1>2, GotoGoesOn DEF Statements
<1>3. QED
  BY <1>1, <1>2 DEF Retry
-----------------------------------------------------------------------------
(* The invariant.                                                          *)

\* The record of a call that has returned.
LEMMA ReturnShape ==
  ASSUME TypeOK, NEW c \in Executions, NEW a \in Answers, Return(c, a)
  PROVE  /\ call' \in [Executions -> Call] /\ told' \in [Executions -> Answers \cup {None}]
         /\ ~Active(c)' /\ told'[c] = a
         /\ \A d \in Executions \ {c} : call'[d] = call[d] /\ told'[d] = told[d]
<1> DEFINE done == [NoCall EXCEPT !.op = call[c].op, !.of = call[c].of]
<1>1. call \in [Executions -> Call] /\ told \in [Executions -> Answers \cup {None}]
  BY DEF TypeOK
<1>2. done \in Call /\ done.at = None
  <2>1. call[c].op \in Ops \cup {None} /\ call[c].of \in Workflows \cup {None}
    BY <1>1 DEF Call
  <2>2. QED
    BY <2>1, NoCallType
<1>3. call' = [call EXCEPT ![c] = done] /\ told' = [told EXCEPT ![c] = a]
  BY Zenon DEF Return
<1> HIDE DEF done
<1>4. QED
  BY <1>1, <1>2, <1>3 DEF Active

\* A call that goes on is as fit as before.
LEMMA GoesOnShape ==
  ASSUME Inv, NEW c \in Executions, Active(c), GoesOn(c)
  PROVE  /\ call' \in [Executions -> Call] /\ told' = told
         /\ Active(c)' /\ call'[c].of = call[c].of /\ Sound(call'[c])
         /\ \A d \in Executions \ {c} : call'[d] = call[d]
<1>1. call \in [Executions -> Call]
  BY DEF Inv, TypeOK
<1>2. QED
  BY <1>1 DEF GoesOn, Active

\* A call that goes on, with its statement applied or not, keeps the invariant.
LEMMA GoesOnStep ==
  ASSUME Inv, NEW c \in Executions, Active(c), GoesOn(c),
         Apply(c, call[c]) \/ UNCHANGED tables, late' = late
  PROVE  /\ call' \in [Executions -> Call] /\ told' \in [Executions -> Answers \cup {None}]
         /\ CallsSound' /\ RowsSound' /\ YesIsTrue' /\ HoldersKnown'
<1>1. told \in [Executions -> Answers \cup {None}] /\ told[c] = None /\ call[c].of \in Workflows
  BY ActiveCall DEF Inv, TypeOK
<1>2. /\ RowsSound' /\ applied \subseteq applied'
      /\ \A w \in Workflows : \/ rows'[w].execution \in {None, rows[w].execution}
                              \/ w = call[c].of /\ rows'[w].execution = c
  <2>1. CASE Apply(c, call[c])
    BY <2>1, ActiveCall, ApplySound DEF Active
  <2>2. CASE UNCHANGED tables
    BY <2>2 DEF tables, Inv, RowsSound
  <2>3. QED
    BY <2>1, <2>2
<1>3. CallsSound'
  BY <1>1, GoesOnShape DEF Inv, CallsSound, Active
<1>4. YesIsTrue'
  BY <1>2, GoesOnShape DEF Inv, YesIsTrue
<1>5. HoldersKnown'
  <2> SUFFICES ASSUME NEW d \in Executions, NEW w \in Workflows, rows'[w].execution = d
               PROVE  \/ d \in late'
                      \/ Active(d)' /\ call'[d].of = w
                      \/ told'[d] \notin {None, "refused"}
    BY DEF HoldersKnown
  <2>1. None \notin Executions
    BY StoreAssumption
  <2>2. CASE rows[w].execution = d
    <3>1. \/ d \in late
          \/ Active(d) /\ call[d].of = w
          \/ told[d] \notin {None, "refused"}
      BY <2>2 DEF Inv, HoldersKnown
    <3>2. /\ told'[d] = told[d]
          /\ Active(d) => Active(d)'
          /\ call'[d].of = call[d].of
      BY GoesOnShape DEF Active
    <3>3. QED
      BY <3>1, <3>2
  <2>3. CASE w = call[c].of /\ d = c
    BY <2>3, GoesOnShape
  <2>4. QED
    BY <1>2, <2>1, <2>2, <2>3
<1>6. QED
  BY <1>1, <1>2, <1>3, <1>4, <1>5, GoesOnShape

\* So does a call that returns an answer which agrees with what was applied, or an error.
LEMMA ReturnsStep ==
  ASSUME Inv, NEW c \in Executions, Active(c), NEW a \in Answers, Return(c, a),
         \/ Apply(c, call[c]) /\ Agrees(c, a)
         \/ Apply(c, call[c]) /\ a = "error"
         \/ UNCHANGED tables /\ a = "error",
         late' = late
  PROVE  /\ call' \in [Executions -> Call] /\ told' \in [Executions -> Answers \cup {None}]
         /\ CallsSound' /\ RowsSound' /\ YesIsTrue' /\ HoldersKnown'
<1>1. told[c] = None /\ call[c].of \in Workflows /\ TypeOK
  BY ActiveCall DEF Inv
<1>2. /\ RowsSound' /\ applied \subseteq applied'
      /\ \A w \in Workflows : \/ rows'[w].execution \in {None, rows[w].execution}
                              \/ w = call[c].of /\ rows'[w].execution = c
  <2>1. CASE Apply(c, call[c])
    BY <2>1, ActiveCall, ApplySound DEF Active
  <2>2. CASE UNCHANGED tables
    BY <2>2 DEF tables, Inv, RowsSound
  <2>3. QED
    BY <2>1, <2>2
<1>3. CallsSound'
  BY <1>1, ReturnShape DEF Inv, CallsSound, Active
<1>4. YesIsTrue'
  <2>1. a \in {"granted", "inserted"} => c \in applied'
    <3>1. SUFFICES ASSUME a \in {"granted", "inserted"} PROVE c \in applied'
      OBVIOUS
    <3>2. Apply(c, call[c]) /\ Agrees(c, a)
      BY <3>1
    <3>3. CASE call[c].at = "insert" /\ rows[call[c].of] = Absent
      BY <3>2, <3>3 DEF Apply, InsertRow
    <3>4. CASE call[c].at = "update" /\ Claimable(rows[call[c].of])
      BY <3>2, <3>4 DEF Apply, ClaimRow
    <3>5. CASE call[c].at = "resolve" /\ rows[call[c].of].execution = c
      BY <1>1, <1>2, <3>5, StoreAssumption DEF Inv, RowsSound
    <3>6. QED
      BY <3>1, <3>2, <3>3, <3>4, <3>5 DEF Agrees
  <2>2. QED
    BY <1>1, <1>2, <2>1, ReturnShape DEF Inv, YesIsTrue
<1>5. HoldersKnown'
  <2> SUFFICES ASSUME NEW d \in Executions, NEW w \in Workflows, rows'[w].execution = d
               PROVE  \/ d \in late'
                      \/ Active(d)' /\ call'[d].of = w
                      \/ told'[d] \notin {None, "refused"}
    BY DEF HoldersKnown
  <2>1. None \notin Executions /\ a # None
    BY StoreAssumption, SqlAssumption
  <2>2. CASE d # c
    <3>1. rows[w].execution = d
      BY <1>2, <2>1, <2>2
    <3>2. \/ d \in late
          \/ Active(d) /\ call[d].of = w
          \/ told[d] \notin {None, "refused"}
      BY <3>1 DEF Inv, HoldersKnown
    <3>3. told'[d] = told[d] /\ call'[d] = call[d] /\ (Active(d) => Active(d)')
      BY <1>1, <2>2, ReturnShape DEF Active
    <3>4. QED
      BY <3>2, <3>3
  <2>3. CASE d = c /\ a # "refused"
    BY <1>1, <2>1, <2>3, ReturnShape
  <2>4. CASE d = c /\ a = "refused"
    <3>1. Agrees(c, a) /\ Apply(c, call[c])
      BY <2>4
    <3>2. call[c].at = "resolve" /\ rows[call[c].of].execution # c
      BY <2>4, <3>1 DEF Agrees
    <3>3. rows' = rows
      BY <3>1, <3>2 DEF Apply, tables
    <3>4. rows[w].execution = c
      BY <2>4, <3>3
    <3>5. c \in late \/ call[c].of = w
      BY <1>1, <3>4 DEF Inv, HoldersKnown
    <3>6. QED
      BY <2>4, <3>2, <3>4, <3>5
  <2>5. QED
    BY <2>2, <2>3, <2>4
<1>6. QED
  BY <1>1, <1>2, <1>3, <1>4, <1>5, ReturnShape

\* The initial state has nothing under way.
LEMMA InitInv == Init => Inv
<1> SUFFICES ASSUME Init PROVE Inv
  OBVIOUS
<1>1. NoCall \in Call /\ NoCall.at = None
  <2>1. 1 \in 1..(Related + 1) /\ 0 \in 0..1
    BY SqlAssumption
  <2>2. QED
    BY <2>1, AbsentRow DEF NoCall, Call
<1>2. TypeOK
  <2>1. call = [c \in Executions |-> NoCall]
    BY DEF Init
  <2>2. rows = [w \in Workflows |-> Absent]
    BY DEF Init
  <2>3. call \in [Executions -> Call] /\ rows \in [Workflows -> Row]
    BY <1>1, <2>1, <2>2, AbsentRow
  <2>4. QED
    BY <2>3, SqlAssumption DEF Init, TypeOK
<1>3. CallsSound
  BY <1>1 DEF Init, CallsSound, Active
<1>4. RowsSound /\ HoldersKnown
  BY AbsentRow, StoreAssumption DEF Init, RowsSound, HoldersKnown
<1>5. YesIsTrue /\ AdriftSound
  BY SqlAssumption DEF Init, YesIsTrue, AdriftSound, Answers
<1>6. QED
  BY <1>2, <1>3, <1>4, <1>5 DEF Inv

\* A call starts with a statement it is fit for.
LEMMA StartInv ==
  ASSUME Inv, NEW c \in Executions, NEW op \in Ops, NEW w \in Workflows, NEW name \in Names,
         NEW executor \in ExecutorIds, Start(c, op, w, name, executor)
  PROVE  Inv'
<1> PICK born \in IF op = "record" THEN Born(w) ELSE {None} :
      call' = [call EXCEPT ![c] =
        [NoCall EXCEPT !.op = op, !.of = w, !.at = First(op), !.executor = executor,
                       !.row = IF First(op) = "insert"
                               THEN NewRow(name, None, None, None) ELSE Absent,
                       !.born = born]]
      /\ tangled' = IF \/ \E d \in Busy(w) : "delete" \in {op, call[d].op}
                       \/ op = "record" /\ born # birth[w]
                    THEN tangled \cup {w} ELSE tangled
  BY Zenon DEF Start
<1> DEFINE row == IF First(op) = "insert" THEN NewRow(name, None, None, None) ELSE Absent
           next == [NoCall EXCEPT !.op = op, !.of = w, !.at = First(op), !.executor = executor,
                                  !.row = row, !.born = born]
<1>1. /\ call \in [Executions -> Call] /\ birth \in [Workflows -> Executions \cup {None}]
      /\ told \in [Executions -> Answers \cup {None}]
  BY DEF Inv, TypeOK
<1>2. First(op) \in Statements \ {"select", "put"} /\ First(op) # None
  BY SqlAssumption DEF First, Statements
<1>3. row \in Row /\ (First(op) = "insert" => Fresh(row)) /\ born \in Executions \cup {None}
  BY <1>1, AbsentRow, NewRowFresh DEF Born, Inv, TypeOK
<1>4. /\ next \in Call /\ next.at = First(op) /\ next.of = w
      /\ next.executor = executor /\ next.row = row
  <2> HIDE DEF row
  <2>1. 1 \in 1..(Related + 1) /\ 0 \in 0..1
    BY SqlAssumption
  <2>2. QED
    BY <1>2, <1>3, <2>1, Zenon DEF NoCall, Call
<1>5. call' = [call EXCEPT ![c] = next] /\ tangled' \subseteq tangled \cup {w}
  OBVIOUS
<1>6. /\ UNCHANGED <<backend, tables, told, adrift, faults, late>> /\ told[c] = None
      /\ clean' \subseteq clean \cup {c}
  BY DEF Start
<1> HIDE DEF row, next
<1>7. Sound(next) /\ call[c].at = None
  <2>1. NoCall.at = None /\ call[c] = NoCall
    BY DEF NoCall, Start
  <2>2. QED
    BY <1>2, <1>3, <1>4, <2>1 DEF Sound
<1>8. TypeOK'
  BY <1>1, <1>4, <1>5, <1>6 DEF Inv, TypeOK, tables
<1>9. CallsSound'
  BY <1>1, <1>5, <1>6, <1>7 DEF Inv, CallsSound, Active
<1>10. HoldersKnown'
  <2> SUFFICES ASSUME NEW d \in Executions, NEW v \in Workflows, rows'[v].execution = d
               PROVE  \/ d \in late'
                      \/ Active(d)' /\ call'[d].of = v
                      \/ told'[d] \notin {None, "refused"}
    BY DEF HoldersKnown
  <2>1. \/ d \in late
        \/ Active(d) /\ call[d].of = v
        \/ told[d] \notin {None, "refused"}
    BY <1>6 DEF Inv, HoldersKnown, tables
  <2>2. d # c => call'[d] = call[d]
    BY <1>1, <1>5
  <2>3. QED
    BY <1>6, <1>7, <2>1, <2>2 DEF Active
<1>11. RowsSound' /\ YesIsTrue' /\ AdriftSound'
  BY <1>6 DEF Inv, RowsSound, YesIsTrue, AdriftSound, tables
<1>12. QED
  BY <1>8, <1>9, <1>10, <1>11 DEF Inv

\* What a step of a call leaves to show once its statement and its answer are known.
LEMMA CallStepInv ==
  ASSUME Inv, NEW c \in Executions, Active(c),
         Apply(c, call[c]) \/ UNCHANGED tables,
         /\ call' \in [Executions -> Call] /\ told' \in [Executions -> Answers \cup {None}]
         /\ CallsSound' /\ RowsSound' /\ YesIsTrue' /\ HoldersKnown',
         backend' = backend, faults' \in 0..Faults, late' = late,
         clean' \subseteq clean, tangled' \subseteq Workflows,
         adrift' \subseteq adrift \cup {[by |-> c, sent |-> call[c]]}
  PROVE  Inv'
<1>1. call[c] \in Call /\ Sound(call[c])
  BY ActiveCall
<1>2. /\ rows' \in [Workflows -> Row]
      /\ parts' \in [Workflows -> [Kinds -> Executions \cup {None}]]
      /\ birth' \in [Workflows -> Executions \cup {None}] /\ applied' \subseteq Executions
  <2>1. CASE Apply(c, call[c])
    BY <1>1, <2>1, ApplySound DEF Active
  <2>2. CASE UNCHANGED tables
    BY <2>2 DEF tables, Inv, TypeOK
  <2>3. QED
    BY <2>1, <2>2
<1>3. [by |-> c, sent |-> call[c]] \in [by : Executions, sent : Call]
  BY <1>1
<1>4. TypeOK'
  BY <1>2, <1>3 DEF Inv, TypeOK
<1>5. AdriftSound'
  BY <1>1 DEF Inv, AdriftSound
<1>6. QED
  BY <1>4, <1>5 DEF Inv

\* An error is an answer, and a fault keeps the bounds of the model.
LEMMA FaultTypes ==
  ASSUME Inv, NEW c \in Executions, Fault(c)
  PROVE  Active(c) /\ faults' \in 0..Faults /\ "error" \in Answers
BY SqlAssumption DEF Inv, TypeOK, Fault, Answers

\* A delete that gives up marks a workflow.
LEMMA GivenUpType ==
  ASSUME Inv, NEW c \in Executions, Active(c), GivenUp(c)
  PROVE  tangled' \subseteq Workflows /\ clean' \subseteq clean /\ tangled \subseteq tangled'
BY ActiveCall DEF Inv, TypeOK, GivenUp, histories

\* Each action keeps the invariant: a statement that is answered,
LEMMA ExecuteInv ==
  ASSUME Inv, NEW c \in Executions, Execute(c)
  PROVE  Inv'
<1>1. /\ Active(c) /\ Apply(c, call[c]) /\ Proceed(c) /\ adrift' = adrift /\ late' = late
      /\ backend' = backend /\ faults' = faults
      /\ tangled' \subseteq tangled /\ clean' \subseteq clean
  BY DEF Execute, histories
<1>2. /\ call' \in [Executions -> Call] /\ told' \in [Executions -> Answers \cup {None}]
      /\ CallsSound' /\ RowsSound' /\ YesIsTrue' /\ HoldersKnown'
  <2>1. CASE GoesOn(c)
    BY <1>1, <2>1, GoesOnStep
  <2>2. CASE Returns(c)
    <3>1. PICK a \in Answers : Agrees(c, a) /\ Return(c, a)
      BY <2>2 DEF Returns
    <3>2. QED
      BY <1>1, <3>1, ReturnsStep
  <2>3. QED
    BY <1>1, <2>1, <2>2, ProceedMoves
<1>3. faults' \in 0..Faults /\ tangled' \subseteq Workflows
  BY <1>1 DEF Inv, TypeOK
<1>4. QED
  BY <1>1, <1>2, <1>3, CallStepInv

\* one whose answer is lost, applied or not or not yet,
LEMMA LoseAnswerInv ==
  ASSUME Inv, NEW c \in Executions, LoseAnswer(c)
  PROVE  Inv'
<1>1. /\ Fault(c) /\ Active(c) /\ Retry(c) /\ late' = late /\ backend' = backend
      /\ Apply(c, call[c]) \/ UNCHANGED tables
      /\ adrift' \subseteq adrift \cup {[by |-> c, sent |-> call[c]]}
  BY DEF LoseAnswer, Fault
<1>2. /\ faults' \in 0..Faults /\ tangled' \subseteq Workflows /\ clean' \subseteq clean
      /\ "error" \in Answers
  BY <1>1, FaultTypes, GivenUpType DEF LoseAnswer
<1>3. /\ call' \in [Executions -> Call] /\ told' \in [Executions -> Answers \cup {None}]
      /\ CallsSound' /\ RowsSound' /\ YesIsTrue' /\ HoldersKnown'
  <2>1. CASE GoesOn(c)
    BY <1>1, <2>1, GoesOnStep
  <2>2. CASE Return(c, "error")
    BY <1>1, <1>2, <2>2, ReturnsStep
  <2>3. QED
    BY <1>1, <2>1, <2>2, RetryMoves
<1>4. QED
  BY <1>1, <1>2, <1>3, CallStepInv

\* The client gives up with an error, and nothing is applied.
LEMMA ErrorInv ==
  ASSUME Inv, NEW c \in Executions, Fault(c), Return(c, "error"), GivenUp(c),
         UNCHANGED <<backend, tables, adrift, late>>
  PROVE  Inv'
<1>1. /\ Active(c) /\ faults' \in 0..Faults /\ tangled' \subseteq Workflows
      /\ clean' \subseteq clean /\ "error" \in Answers /\ UNCHANGED tables
  BY FaultTypes, GivenUpType
<1>2. /\ call' \in [Executions -> Call] /\ told' \in [Executions -> Answers \cup {None}]
      /\ CallsSound' /\ RowsSound' /\ YesIsTrue' /\ HoldersKnown'
  BY <1>1, ReturnsStep
<1>3. QED
  BY <1>1, <1>2, CallStepInv

\* an insert that starts over,
LEMMA StartOverInv ==
  ASSUME Inv, NEW c \in Executions, StartOver(c)
  PROVE  Inv'
<1>1. /\ Active(c) /\ faults' \in 0..Faults /\ UNCHANGED histories /\ late' = late
      /\ adrift' = adrift /\ backend' = backend /\ UNCHANGED tables
      /\ call[c].at = "select" /\ Goto(c, "insert")
  BY FaultTypes DEF StartOver
<1>2. GoesOn(c)
  <2>1. Fresh(call[c].row) /\ "insert" \in Statements
    BY <1>1, ActiveCall DEF Sound, Statements
  <2>2. QED
    BY <1>1, <2>1, GotoGoesOn
<1>3. /\ call' \in [Executions -> Call] /\ told' \in [Executions -> Answers \cup {None}]
      /\ CallsSound' /\ RowsSound' /\ YesIsTrue' /\ HoldersKnown'
  BY <1>1, <1>2, GoesOnStep
<1>4. tangled' \subseteq Workflows /\ clean' \subseteq clean
  BY <1>1 DEF Inv, TypeOK, histories
<1>5. QED
  BY <1>1, <1>3, <1>4, CallStepInv

\* Only a call with a statement to send is applied.
LEMMA AppliedStatement ==
  ASSUME NEW c, NEW s, Apply(c, s)
  PROVE  s.at # None
BY SqlAssumption DEF Apply, Statements

\* a statement that is applied late,
LEMMA LandInv ==
  ASSUME Inv, NEW m \in adrift, Land(m)
  PROVE  Inv'
<1>1. m.by \in Executions /\ m.sent \in Call /\ Sound(m.sent)
  BY DEF Inv, TypeOK, AdriftSound
<1>2. /\ Apply(m.by, m.sent) /\ adrift' \subseteq adrift /\ late' = late \cup {m.by}
      /\ tangled' = tangled \cup {m.sent.of} /\ clean' \subseteq clean
      /\ UNCHANGED <<backend, call, told, faults>>
  BY DEF Land
<1>3. m.sent.at # None /\ m.sent.of \in Workflows
  BY <1>1, <1>2, AppliedStatement DEF Sound
<1>4. /\ rows' \in [Workflows -> Row]
      /\ parts' \in [Workflows -> [Kinds -> Executions \cup {None}]]
      /\ birth' \in [Workflows -> Executions \cup {None}]
      /\ applied \subseteq applied' /\ applied' \subseteq Executions
      /\ RowsSound'
      /\ \A w \in Workflows : \/ rows'[w].execution \in {None, rows[w].execution}
                              \/ w = m.sent.of /\ rows'[w].execution = m.by
  BY <1>1, <1>2, <1>3, ApplySound
<1>5. TypeOK'
  BY <1>1, <1>2, <1>3, <1>4 DEF Inv, TypeOK
<1>6. CallsSound' /\ AdriftSound' /\ YesIsTrue'
  BY <1>2, <1>4 DEF Inv, CallsSound, AdriftSound, YesIsTrue, Active
<1>7. HoldersKnown'
  <2> SUFFICES ASSUME NEW d \in Executions, NEW v \in Workflows, rows'[v].execution = d
               PROVE  \/ d \in late'
                      \/ Active(d)' /\ call'[d].of = v
                      \/ told'[d] \notin {None, "refused"}
    BY DEF HoldersKnown
  <2>1. d \in late' \/ rows[v].execution = d
    BY <1>2, <1>4, StoreAssumption
  <2>2. QED
    BY <1>2, <2>1 DEF Inv, HoldersKnown, Active
<1>8. QED
  BY <1>4, <1>5, <1>6, <1>7 DEF Inv

\* and so every step.
LEMMA NextInv == Inv /\ [Next]_vars => Inv'
<1> SUFFICES ASSUME Inv, [Next]_vars PROVE Inv'
  OBVIOUS
<1>1. CASE UNCHANGED vars
  BY <1>1 DEF vars, tables, histories, Inv, TypeOK, CallsSound, AdriftSound, RowsSound, YesIsTrue,
              HoldersKnown, Active
<1>2. ASSUME NEW c \in Executions, NEW w \in Workflows, NEW name \in Names,
             NEW executor \in ExecutorIds, NEW op \in Ops, Start(c, op, w, name, executor)
      PROVE  Inv'
  BY <1>2, StartInv
<1>3. ASSUME NEW c \in Executions, Execute(c) PROVE Inv'
  BY <1>3, ExecuteInv
<1>4. ASSUME NEW c \in Executions, LoseAnswer(c) PROVE Inv'
  BY <1>4, LoseAnswerInv
<1>5. ASSUME NEW c \in Executions, Unreachable(c) \/ StaysBusy(c) PROVE Inv'
  BY <1>5, ErrorInv DEF Unreachable, StaysBusy
<1>6. ASSUME NEW c \in Executions, StartOver(c) PROVE Inv'
  BY <1>6, StartOverInv
<1>7. ASSUME NEW s \in adrift, Land(s) PROVE Inv'
  BY <1>7, LandInv
<1>8. QED
  BY <1>1, <1>2, <1>3, <1>4, <1>5, <1>6, <1>7 DEF Next

\* Throughout an execution, the invariant holds.
LEMMA Invariance == Spec => []Inv
BY InitInv, NextInv, PTL DEF Spec

\* Every variable keeps its type, whichever statements fail and whenever they are applied.
THEOREM TypeCorrect == Spec => []TypeOK
<1>1. Inv => TypeOK
  BY DEF Inv
<1>2. QED
  BY <1>1, Invariance, PTL

\* A claim that is answered yes was granted, and one answered no does not hold the row
\* (claim_workflow_execution of the PostgreSQL store, which looks for its execution id).
THEOREM ClaimsAnswered == Spec => []ClaimAnswers
<1>1. Inv => ClaimAnswers
  <2> SUFFICES ASSUME Inv, NEW c \in Executions
               PROVE  /\ told[c] \in {"granted", "inserted"} => c \in applied
                      /\ told[c] = "refused" /\ c \notin late =>
                           \A w \in Workflows : rows[w].execution # c
    BY DEF ClaimAnswers
  <2>1. told[c] \in {"granted", "inserted"} => c \in applied
    BY DEF Inv, YesIsTrue
  <2>2. ASSUME told[c] = "refused", c \notin late, NEW w \in Workflows, rows[w].execution = c
        PROVE  FALSE
    <3>1. told[c] # None
      BY <2>2, SqlAssumption DEF Answers
    <3>2. ~Active(c)
      BY <3>1 DEF Inv, CallsSound
    <3>3. QED
      BY <2>2, <3>2 DEF Inv, HoldersKnown
  <2>3. QED
    BY <2>1, <2>2
<1>2. QED
  BY <1>1, Invariance, PTL
-----------------------------------------------------------------------------
(* Related rows.                                                           *)

\* The statements that a call of each kind sends; the tables of related rows are gone
\* through by the last of them only.
Fits(s) ==
  /\ \/ s.op = "insert" /\ s.at \in {"insert", "select"}
     \/ s.op = "import" /\ s.at \in {"insert", "select", "part"}
     \/ s.op = "claim" /\ s.at \in {"update", "resolve"}
     \/ s.op = "resume" /\ s.at \in {"get", "put"}
     \/ s.op = "record" /\ s.at = "part"
     \/ s.op = "delete" /\ s.at \in {"delete", "list", "sweep"}
  /\ s.at \notin {"part", "list", "sweep"} => s.kind = 1
CallsFit == \A c \in Executions : Active(c) => Fits(call[c])

\* What statement s of call c finds in the tables if no history is mixed: a copy that is
\* saved and a related row that is written belong to the row there is; an import has written
\* its related rows up to the table it has reached, and a delete has swept them.
Finds(c, s, w) ==
  /\ s.at \in {"put", "part"} => rows[w] # Absent /\ birth[w] = s.born
  /\ s.at = "part" /\ s.op = "import" =>
       s.born = c /\ \A k \in Kinds : k < s.kind => parts[w][k] = c
  /\ s.at \in {"list", "sweep"} =>
       /\ rows[w] = Absent /\ birth[w] = None
       /\ \A k \in Kinds : k < s.kind => parts[w][k] = None

\* A delete that has met no other call is alone, and has swept what it has passed, whatever
\* it has found.
Cleans ==
  \A c \in clean : /\ Active(c) /\ call[c].op = "delete"
                  /\ Busy(call[c].of) = {c} /\ Finds(c, call[c], call[c].of)

\* The related rows of workflow w agree with its row and with the calls under way.
Deleting(w) == \E d \in Busy(w) : call[d].op = "delete"
Whole(w, c) == \A k \in Kinds : parts[w][k] = c
Agreeing(w) ==
  /\ rows[w] # Absent => \A k \in Kinds : parts[w][k] \in {birth[w], None}
  /\ rows[w] = Absent => birth[w] = None /\ (Deleting(w) \/ Whole(w, None))
  /\ \A d \in Busy(w) :
       Finds(d, call[d], w) /\ (call[d].op = "delete" => Busy(w) = {d})
  /\ \A c \in Executions : birth[w] = c =>
       \/ c \in Busy(w)
       \/ told[c] # None /\ (call[c].op = "import" /\ told[c] = "ok" => Whole(w, c))
Gone(w) == rows[w] = Absent /\ birth[w] = None /\ Whole(w, None)
Histories == CallsFit /\ Cleans /\ \A w \in Workflows \ tangled : Agreeing(w)

\* The tables after a step agree with the calls as they were before it.
TablesAgree(w) ==
  /\ rows'[w] # Absent => \A k \in Kinds : parts'[w][k] \in {birth'[w], None}
  /\ rows'[w] = Absent => birth'[w] = None /\ (Deleting(w) \/ Whole(w, None)')
  /\ \A d \in Busy(w), s \in Call : s = call[d] => Finds(d, s, w)'
  /\ \A c \in Executions : birth'[w] = c =>
       \/ c \in Busy(w)
       \/ told[c] # None /\ (call[c].op = "import" /\ told[c] = "ok" => Whole(w, c)')

\* Calls that are busy with a workflow.
LEMMA BusyCall ==
  ASSUME Inv, NEW w \in Workflows, NEW d \in Busy(w)
  PROVE  d \in Executions /\ Active(d) /\ call[d] \in Call /\ call[d].of = w /\ told[d] = None
BY ActiveCall DEF Busy

\* A statement changes nothing of another workflow.
LEMMA Elsewhere ==
  ASSUME Inv, NEW c \in Executions, NEW s, Apply(c, s) \/ UNCHANGED tables,
         NEW w \in Workflows, w # s.of
  PROVE  rows'[w] = rows[w] /\ birth'[w] = birth[w] /\ parts'[w] = parts[w]
<1>1. /\ rows \in [Workflows -> Row] /\ birth \in [Workflows -> Executions \cup {None}]
      /\ parts \in [Workflows -> [Kinds -> Executions \cup {None}]]
  BY DEF Inv, TypeOK
<1>2. QED
  BY <1>1 DEF Apply, InsertRow, ClaimRow, PutRow, SetPart, DeleteRow, tables

\* Where nothing is applied, the tables agree as before.
LEMMA NothingApplied ==
  ASSUME Inv, NEW w \in Workflows, Agreeing(w),
         rows'[w] = rows[w], birth'[w] = birth[w], parts'[w] = parts[w]
  PROVE  TablesAgree(w)
<1>1. ASSUME NEW d \in Busy(w), NEW s \in Call, s = call[d] PROVE Finds(d, s, w)'
  <2>1. Finds(d, s, w)
    BY <1>1 DEF Agreeing
  <2>2. QED
    BY <2>1 DEF Finds
<1>2. QED
  BY <1>1 DEF TablesAgree, Agreeing, Whole

\* An insert finds no related row, and no call that goes on with one.
LEMMA InsertAgrees ==
  ASSUME Inv, CallsFit, NEW w \in Workflows, Agreeing(w), NEW c \in Busy(w),
         call[c].at = "insert", rows[w] = Absent,
         rows'[w] # Absent, birth'[w] = c, parts'[w] = parts[w]
  PROVE  TablesAgree(w)
<1>1. c \in Executions /\ Fits(call[c]) /\ c # None
  BY BusyCall, StoreAssumption DEF CallsFit
<1>2. ~Deleting(w)
  <2> SUFFICES ASSUME NEW d \in Busy(w), call[d].op = "delete" PROVE FALSE
    BY DEF Deleting
  <2>1. Busy(w) = {d}
    BY DEF Agreeing
  <2>2. QED
    BY <1>1, <2>1 DEF Fits
<1>3. Whole(w, None)
  BY <1>2 DEF Agreeing
<1>4. ASSUME NEW d \in Busy(w), NEW s \in Call, s = call[d] PROVE Finds(d, s, w)'
  <2>1. Finds(d, s, w) /\ Fits(s) /\ s.op # "delete"
    BY <1>2, <1>4, BusyCall DEF Agreeing, CallsFit, Deleting
  <2>2. s.at \notin {"put", "part", "list", "sweep"}
    BY <2>1 DEF Finds, Fits
  <2>3. QED
    BY <2>2 DEF Finds
<1>5. QED
  BY <1>3, <1>4 DEF TablesAgree, Whole

\* A claim or a copy that is saved leaves the row there, and its history.
LEMMA SaveAgrees ==
  ASSUME Inv, NEW w \in Workflows, Agreeing(w), rows[w] # Absent,
         rows'[w] # Absent, birth'[w] = birth[w], parts'[w] = parts[w]
  PROVE  TablesAgree(w)
<1>1. ASSUME NEW d \in Busy(w), NEW s \in Call, s = call[d] PROVE Finds(d, s, w)'
  <2>1. Finds(d, s, w)
    BY <1>1 DEF Agreeing
  <2>2. QED
    BY <2>1 DEF Finds
<1>2. QED
  BY <1>1 DEF TablesAgree, Agreeing, Whole

\* A related row that is written belongs to the row.
LEMMA PartAgrees ==
  ASSUME Inv, NEW w \in Workflows, Agreeing(w), rows[w] # Absent, NEW kind,
         rows'[w] = rows[w], birth'[w] = birth[w],
         parts'[w] = [parts[w] EXCEPT ![kind] = birth[w]]
  PROVE  TablesAgree(w)
<1>1. parts[w] \in [Kinds -> Executions \cup {None}]
  BY DEF Inv, TypeOK
<1>2. \A k \in Kinds : parts'[w][k] \in {parts[w][k], birth[w]}
  BY <1>1
<1>3. ASSUME NEW d \in Busy(w), NEW s \in Call, s = call[d] PROVE Finds(d, s, w)'
  <2>1. Finds(d, s, w)
    BY <1>3 DEF Agreeing
  <2>2. QED
    BY <1>2, <2>1 DEF Finds
<1>4. ASSUME NEW x \in Executions, birth'[w] = x, Whole(w, x) PROVE Whole(w, x)'
  BY <1>2, <1>4 DEF Whole
<1>5. QED
  BY <1>2, <1>3, <1>4 DEF TablesAgree, Agreeing

\* A delete leaves the related rows to itself,
LEMMA DeleteAgrees ==
  ASSUME Inv, CallsFit, NEW w \in Workflows, Agreeing(w), NEW c \in Busy(w),
         call[c].at = "delete",
         rows'[w] = Absent, birth'[w] = None, parts'[w] = parts[w]
  PROVE  TablesAgree(w)
<1>1. c \in Executions /\ Fits(call[c]) /\ None \notin Executions
  BY BusyCall, StoreAssumption DEF CallsFit
<1>2. Deleting(w) /\ Busy(w) = {c}
  BY <1>1 DEF Fits, Deleting, Agreeing
<1>3. \A s \in Call : s = call[c] => Finds(c, s, w)'
  BY DEF Finds
<1>4. QED
  BY <1>1, <1>2, <1>3 DEF TablesAgree

\* and sweeps them.
LEMMA SweepAgrees ==
  ASSUME Inv, CallsFit, NEW w \in Workflows, Agreeing(w), NEW c \in Busy(w),
         call[c].at = "sweep",
         rows'[w] = rows[w], birth'[w] = birth[w],
         parts'[w] = [parts[w] EXCEPT ![call[c].kind] = None]
  PROVE  TablesAgree(w)
<1>1. c \in Executions /\ Fits(call[c]) /\ None \notin Executions
  BY BusyCall, StoreAssumption DEF CallsFit
<1>2. Deleting(w) /\ Busy(w) = {c} /\ rows[w] = Absent /\ birth[w] = None
  BY <1>1 DEF Fits, Deleting, Agreeing, Finds
<1>3. parts[w] \in [Kinds -> Executions \cup {None}]
  BY DEF Inv, TypeOK
<1>4. \A k \in Kinds : parts'[w][k] \in {parts[w][k], None}
  BY <1>3
<1>5. ASSUME NEW s \in Call, s = call[c] PROVE Finds(c, s, w)'
  <2>1. Finds(c, s, w)
    BY <1>5 DEF Agreeing
  <2>2. QED
    BY <1>2, <1>4, <2>1 DEF Finds
<1>6. QED
  BY <1>1, <1>2, <1>5 DEF TablesAgree

\* So the tables agree whichever statement of a call is applied.
LEMMA StatementAgrees ==
  ASSUME Inv, CallsFit, NEW c \in Executions, Active(c),
         Apply(c, call[c]) \/ UNCHANGED tables,
         NEW w \in Workflows, Agreeing(w)
  PROVE  TablesAgree(w)
<1> DEFINE s == call[c]
<1>1. /\ rows \in [Workflows -> Row] /\ birth \in [Workflows -> Executions \cup {None}]
      /\ parts \in [Workflows -> [Kinds -> Executions \cup {None}]]
      /\ s \in Call /\ Sound(s) /\ s.of \in Workflows
  BY ActiveCall DEF Inv, TypeOK
<1>2. CASE UNCHANGED tables
  BY <1>2, NothingApplied DEF tables
<1>3. CASE Apply(c, s) /\ w # s.of
  <2>1. rows'[w] = rows[w] /\ birth'[w] = birth[w] /\ parts'[w] = parts[w]
    BY <1>3, Elsewhere
  <2>2. QED
    BY <2>1, NothingApplied
<1>4. CASE Apply(c, s) /\ w = s.of
  <2>1. c \in Busy(w) /\ Finds(c, s, w)
    BY <1>4 DEF Busy, Agreeing
  <2>2. CASE s.at = "insert" /\ InsertRow(c, s) /\ rows[w] = Absent
    <3>1. rows'[w] = s.row /\ birth'[w] = c /\ parts'[w] = parts[w] /\ s.row # Absent
      BY <1>1, <1>4, <2>2, AbsentRow DEF InsertRow, Sound, Fresh
    <3>2. QED
      BY <2>1, <2>2, <3>1, InsertAgrees
  <2>3. CASE s.at = "update" /\ ClaimRow(c, s) /\ Claimable(rows[w])
    <3>1. /\ rows'[w] = ClaimedRow(rows[w], s.executor, c) /\ birth'[w] = birth[w]
          /\ parts'[w] = parts[w] /\ rows[w] # Absent
      BY <1>1, <1>4, <2>3, ClaimableRow DEF ClaimRow
    <3>2. Plain(rows[w]) /\ rows[w] \in Row /\ s.executor \in ExecutorIds
      BY <1>1, <2>3, <3>1 DEF Inv, RowsSound, Sound
    <3>3. rows'[w] # Absent
      BY <3>1, <3>2, ClaimedRowShape, AbsentRow
    <3>4. QED
      BY <3>1, <3>3, SaveAgrees
  <2>4. CASE s.at = "put" /\ PutRow(s)
    <3>1. rows'[w] = s.row /\ birth'[w] = s.born /\ parts'[w] = parts[w] /\ s.row # Absent
      BY <1>1, <1>4, <2>4, AbsentRow DEF PutRow, Sound, Fresh
    <3>2. rows[w] # Absent /\ birth[w] = s.born
      BY <2>1, <2>4 DEF Finds
    <3>3. QED
      BY <3>1, <3>2, SaveAgrees
  <2>5. CASE s.at = "part" /\ SetPart(s, s.born)
    <3>1. rows[w] # Absent /\ birth[w] = s.born
      BY <2>1, <2>5 DEF Finds
    <3>2. PICK kind \in Nat : kind = s.kind
      BY <1>1, SqlAssumption DEF Call
    <3>3. /\ rows'[w] = rows[w] /\ birth'[w] = birth[w]
          /\ parts'[w] = [parts[w] EXCEPT ![kind] = birth[w]]
      BY <1>1, <1>4, <2>5, <3>1, <3>2 DEF SetPart
    <3>4. QED
      BY <3>1, <3>3, PartAgrees
  <2>6. CASE s.at = "delete" /\ DeleteRow(s)
    <3>1. rows'[w] = Absent /\ birth'[w] = None /\ parts'[w] = parts[w]
      BY <1>1, <1>4, <2>6 DEF DeleteRow
    <3>2. QED
      BY <2>1, <2>6, <3>1, DeleteAgrees
  <2>7. CASE s.at = "sweep" /\ SetPart(s, None)
    <3>1. /\ rows'[w] = rows[w] /\ birth'[w] = birth[w]
          /\ parts'[w] = [parts[w] EXCEPT ![s.kind] = None]
      BY <1>1, <1>4, <2>7 DEF SetPart
    <3>2. QED
      BY <2>1, <2>7, <3>1, SweepAgrees
  <2>8. QED
    BY <1>2, <1>4, <2>2, <2>3, <2>4, <2>5, <2>6, <2>7 DEF Apply, InsertRow, ClaimRow
<1>5. QED
  BY <1>2, <1>3, <1>4

\* A call goes on with a statement that finds what it needs if this one did,
Advances(c) ==
  /\ told' = told /\ Active(c)' /\ call'[c].of = call[c].of /\ call'[c].op = call[c].op
  /\ \A d \in Executions \ {c} : call'[d] = call[d]
  /\ Fits(call[c])'
  /\ \A w \in Workflows :
       w = call[c].of /\ Finds(c, call[c], w) => Finds(c, call[c], w)'

\* or it returns: a delete that has not failed has swept everything, and an import that is
\* answered Ok has written everything.
Finishes(c) ==
  /\ ~Active(c)' /\ told'[c] # None /\ call'[c].op = call[c].op
  /\ \A d \in Executions \ {c} : call'[d] = call[d] /\ told'[d] = told[d]
  /\ \A w \in Workflows : w = call[c].of /\ Finds(c, call[c], w) =>
       /\ call[c].op = "delete" => Gone(w)' \/ w \in tangled'
       /\ call[c].op = "import" /\ told'[c] = "ok" => Whole(w, c)'

\* The record of a call that goes to another statement,
LEMMA GotoCall ==
  ASSUME Inv, NEW c \in Executions, Active(c), NEW at \in Statements, Goto(c, at)
  PROVE  /\ told' = told /\ Active(c)' /\ \A d \in Executions \ {c} : call'[d] = call[d]
         /\ call'[c].at = at /\ call'[c].of = call[c].of /\ call'[c].op = call[c].op
         /\ call'[c].kind = call[c].kind /\ call'[c].born = call[c].born
<1>1. call \in [Executions -> Call] /\ call[c] \in Call /\ at # None
  BY ActiveCall, SqlAssumption DEF Inv, TypeOK
<1>2. told' = told /\ \A d \in Executions \ {c} : call'[d] = call[d]
  BY <1>1 DEF Goto
<1>3. call'[c] = [call[c] EXCEPT !.at = at, !.try = 0]
  BY <1>1, Zenon DEF Goto
<1>4. /\ call'[c].at = at /\ call'[c].of = call[c].of /\ call'[c].op = call[c].op
      /\ call'[c].kind = call[c].kind /\ call'[c].born = call[c].born
  BY <1>1, <1>3, Zenon DEF Call
<1>5. QED
  BY <1>1, <1>2, <1>4 DEF Active

\* to the next table,
LEMMA NextCall ==
  ASSUME Inv, NEW c \in Executions, Active(c), NEW at \in Statements, NextKind(c, at),
         call[c].kind < Related
  PROVE  /\ told' = told /\ Active(c)' /\ \A d \in Executions \ {c} : call'[d] = call[d]
         /\ call'[c].at = at /\ call'[c].of = call[c].of /\ call'[c].op = call[c].op
         /\ call'[c].kind = call[c].kind + 1 /\ call'[c].born = call[c].born
<1>1. call \in [Executions -> Call] /\ call[c] \in Call /\ at # None
  BY ActiveCall, SqlAssumption DEF Inv, TypeOK
<1>2. told' = told /\ \A d \in Executions \ {c} : call'[d] = call[d]
  BY <1>1 DEF NextKind
<1>3. call'[c] = [call[c] EXCEPT !.at = at, !.try = 0, !.kind = @ + 1]
  BY <1>1, Zenon DEF NextKind
<1>4. /\ call'[c].at = at /\ call'[c].of = call[c].of /\ call'[c].op = call[c].op
      /\ call'[c].kind = call[c].kind + 1 /\ call'[c].born = call[c].born
  BY <1>1, <1>3, Zenon DEF Call
<1>5. QED
  BY <1>1, <1>2, <1>4 DEF Active

\* or nowhere.
LEMMA ReturnCall ==
  ASSUME Inv, NEW c \in Executions, Active(c), NEW a \in Answers, Return(c, a)
  PROVE  /\ ~Active(c)' /\ told'[c] = a /\ a # None /\ call'[c].op = call[c].op
         /\ \A d \in Executions \ {c} : call'[d] = call[d] /\ told'[d] = told[d]
<1>1. ~Active(c)' /\ told'[c] = a
      /\ \A d \in Executions \ {c} : call'[d] = call[d] /\ told'[d] = told[d]
  BY ReturnShape DEF Inv
<1>2. call'[c] = [NoCall EXCEPT !.op = call[c].op, !.of = call[c].of]
  BY Zenon DEF Return, Inv, TypeOK
<1>3. call'[c].op = call[c].op
  BY <1>2, Zenon DEF NoCall
<1>4. QED
  BY <1>1, <1>3, SqlAssumption

\* A call that returns and has nothing to show for it.
LEMMA ReturnFinishes ==
  ASSUME Inv, NEW c \in Executions, Active(c), NEW a \in Answers, Return(c, a),
         call[c].op # "delete", call[c].op = "import" => a # "ok"
  PROVE  Finishes(c)
BY ReturnCall DEF Finishes

\* An insert that has created the row: an import goes on with the first of its tables.
LEMMA InsertMoves ==
  ASSUME Inv, CallsFit, NEW c \in Executions, Active(c), call[c].at = "insert",
         Apply(c, call[c]), AfterInsert(c)
  PROVE  Advances(c) \/ Finishes(c)
<1>1. /\ call \in [Executions -> Call] /\ call[c] \in Call /\ Fits(call[c])
      /\ call[c].kind = 1 /\ call[c].op \in {"insert", "import"}
  BY ActiveCall DEF Inv, TypeOK, CallsFit, Fits
<1>2. CASE Goto(c, "select")
  <2>1. "select" \in Statements
    BY DEF Statements
  <2>2. QED
    BY <1>1, <1>2, <2>1, GotoCall DEF Advances, Fits, Finds
<1>3. CASE rows[call[c].of] = Absent /\ Inserted(c) /\ call[c].op = "import"
  <2>1. call'[c] = [call[c] EXCEPT !.at = "part", !.try = 0, !.born = c]
    BY <1>1, <1>3, Zenon DEF Inserted
  <2>2. /\ call'[c].at = "part" /\ call'[c].of = call[c].of /\ call'[c].op = call[c].op
        /\ call'[c].kind = call[c].kind /\ call'[c].born = c
    BY <1>1, <2>1, Zenon DEF Call
  <2>3. told' = told /\ \A d \in Executions \ {c} : call'[d] = call[d]
    BY <1>1, <1>3 DEF Inserted
  <2>4. Fits(call[c])' /\ Active(c)'
    BY <1>1, <1>3, <2>2, SqlAssumption DEF Fits, Active, Statements
  <2>5. rows'[call[c].of] = call[c].row /\ birth'[call[c].of] = c /\ call[c].row # Absent
    <3>1. call[c].of \in Workflows /\ Fresh(call[c].row) /\ InsertRow(c, call[c])
      BY <1>1, ActiveCall DEF Apply, Sound
    <3>2. QED
      BY <1>3, <3>1, AbsentRow DEF InsertRow, Inv, TypeOK, Fresh
  <2>6. ASSUME NEW w \in Workflows, w = call[c].of PROVE Finds(c, call[c], w)'
    <3>1. \A k \in Kinds : ~(k < 1)
      BY SqlAssumption DEF Kinds
    <3>2. QED
      BY <1>1, <1>3, <2>2, <2>5, <2>6, <3>1 DEF Finds
  <2>7. QED
    BY <2>2, <2>3, <2>4, <2>6 DEF Advances
<1>4. CASE Inserted(c) /\ call[c].op # "import"
  <2>1. Return(c, "inserted") /\ "inserted" \in Answers
    BY <1>4 DEF Inserted, Answers
  <2>2. QED
    BY <1>1, <2>1, ReturnFinishes
<1>5. QED
  BY <1>2, <1>3, <1>4 DEF AfterInsert

\* A related row of an import was written, and it goes on with the next, or has them all.
LEMMA PartMoves ==
  ASSUME Inv, CallsFit, NEW c \in Executions, Active(c), call[c].at = "part",
         Apply(c, call[c]), AfterPart(c)
  PROVE  Advances(c) \/ Finishes(c)
<1>1. /\ call[c] \in Call /\ Fits(call[c]) /\ call[c].of \in Workflows /\ call[c].kind \in Nat
      /\ parts \in [Workflows -> [Kinds -> Executions \cup {None}]] /\ Related \in Nat
  BY ActiveCall, SqlAssumption DEF Inv, TypeOK, CallsFit, Call
<1>2. CASE Return(c, "ok") /\ call[c].op = "record"
  BY <1>2, ReturnFinishes DEF Answers
<1>3. CASE NextKind(c, "part") /\ call[c].op = "import"
  <2>1. "part" \in Statements /\ "ok" \in Answers
    BY DEF Statements, Answers
  <2>2. SetPart(call[c], call[c].born)
    BY DEF Apply
  <2>3. ASSUME NEW w \in Workflows, w = call[c].of, Finds(c, call[c], w)
        PROVE  /\ rows'[w] # Absent /\ birth'[w] = call[c].born /\ call[c].born = c
               /\ \A k \in Kinds : k < call[c].kind \/ k = call[c].kind => parts'[w][k] = c
    <3>1. Finds(c, call[c], w)
      BY <2>3
    <3>2. /\ rows[w] # Absent /\ birth[w] = c /\ call[c].born = c
          /\ \A k \in Kinds : k < call[c].kind => parts[w][k] = c
      BY <1>3, <3>1 DEF Finds
    <3>3. rows' = rows /\ birth' = birth /\ parts'[w] = [parts[w] EXCEPT ![call[c].kind] = c]
      BY <1>1, <2>2, <2>3, <3>2 DEF SetPart
    <3>4. parts[w] \in [Kinds -> Executions \cup {None}]
      BY <1>1
    <3>5. QED
      BY <3>2, <3>3, <3>4
  <2>4. CASE call[c].kind < Related
    <3>1. /\ told' = told /\ Active(c)' /\ \A d \in Executions \ {c} : call'[d] = call[d]
          /\ call'[c].at = "part" /\ call'[c].of = call[c].of /\ call'[c].op = call[c].op
          /\ call'[c].kind = call[c].kind + 1 /\ call'[c].born = call[c].born
      BY <1>3, <2>1, <2>4, NextCall
    <3>2. Fits(call[c])'
      BY <1>3, <3>1 DEF Fits
    <3>3. ASSUME NEW w \in Workflows, w = call[c].of, Finds(c, call[c], w)
          PROVE  Finds(c, call[c], w)'
      <4>1. \A k \in Kinds : k < call[c].kind + 1 => k < call[c].kind \/ k = call[c].kind
        BY <1>1 DEF Kinds
      <4>2. QED
        BY <2>3, <3>1, <3>3, <4>1 DEF Finds
    <3>4. QED
      BY <3>1, <3>2, <3>3 DEF Advances
  <2>5. CASE ~(call[c].kind < Related)
    <3>1. Return(c, "ok")
      BY <1>3, <2>5 DEF NextKind
    <3>2. \A k \in Kinds : k < call[c].kind \/ k = call[c].kind
      BY <1>1, <2>5 DEF Kinds
    <3>3. \A w \in Workflows : w = call[c].of /\ Finds(c, call[c], w) => Whole(w, c)'
      BY <2>3, <3>2 DEF Whole
    <3>4. QED
      BY <1>3, <2>1, <3>1, <3>3, ReturnCall DEF Finishes
  <2>6. QED
    BY <2>4, <2>5
<1>4. QED
  BY <1>2, <1>3 DEF AfterPart

\* A delete goes through the tables: it has swept those that it has passed.
LEMMA SweepMoves ==
  ASSUME Inv, CallsFit, NEW c \in Executions, Active(c), call[c].at \in {"delete", "list", "sweep"},
         Apply(c, call[c]), Proceed(c)
  PROVE  Advances(c) \/ Finishes(c)
<1>1. /\ call[c] \in Call /\ Fits(call[c]) /\ call[c].of \in Workflows /\ call[c].kind \in Nat
      /\ parts \in [Workflows -> [Kinds -> Executions \cup {None}]] /\ Related \in Nat
      /\ rows \in [Workflows -> Row] /\ birth \in [Workflows -> Executions \cup {None}]
      /\ call[c].op = "delete"
  BY ActiveCall, SqlAssumption DEF Inv, TypeOK, CallsFit, Call, Fits
<1>2. {"list", "sweep"} \subseteq Statements /\ "ok" \in Answers
  BY DEF Statements, Answers
<1>3. CASE call[c].at = "delete"
  <2>1. Goto(c, "list") /\ DeleteRow(call[c]) /\ call[c].kind = 1
    BY <1>1, <1>3 DEF Proceed, Apply, Fits
  <2>2. /\ rows'[call[c].of] = Absent /\ birth'[call[c].of] = None
        /\ \A k \in Kinds : ~(k < 1)
    BY <1>1, <2>1, SqlAssumption DEF DeleteRow, Kinds
  <2>3. QED
    BY <1>1, <1>2, <2>1, <2>2, GotoCall DEF Advances, Fits, Finds
<1>4. CASE call[c].at = "list" /\ Goto(c, "sweep")
  <2>1. UNCHANGED tables
    BY <1>4 DEF Apply
  <2>2. ASSUME NEW w \in Workflows, w = call[c].of, Finds(c, call[c], w)
        PROVE  Finds(c, call[c], w)'
    BY <1>2, <1>4, <2>1, <2>2, GotoCall DEF Finds, tables
  <2>3. QED
    BY <1>1, <1>2, <1>4, <2>2, GotoCall DEF Advances, Fits
<1>5. CASE NextKind(c, "list") /\ call[c].at \in {"list", "sweep"}
           /\ (call[c].at = "list" => parts[call[c].of][call[c].kind] = None)
  <2>1. ASSUME NEW w \in Workflows, w = call[c].of, Finds(c, call[c], w)
        PROVE  /\ rows'[w] = Absent /\ birth'[w] = None
               /\ \A k \in Kinds : k < call[c].kind \/ k = call[c].kind => parts'[w][k] = None
    <3>1. Finds(c, call[c], w)
      BY <2>1
    <3>2. /\ rows[w] = Absent /\ birth[w] = None
          /\ \A k \in Kinds : k < call[c].kind => parts[w][k] = None
      BY <1>5, <3>1 DEF Finds
    <3>3. CASE call[c].at = "list"
      BY <1>5, <2>1, <3>2, <3>3 DEF Apply, tables
    <3>4. CASE call[c].at = "sweep"
      <4>1. /\ rows' = rows /\ birth' = birth
            /\ parts'[w] = [parts[w] EXCEPT ![call[c].kind] = None]
        BY <1>1, <2>1, <3>4 DEF Apply, SetPart
      <4>2. parts[w] \in [Kinds -> Executions \cup {None}]
        BY <1>1
      <4>3. QED
        BY <3>2, <4>1, <4>2
    <3>5. QED
      BY <1>5, <3>3, <3>4
  <2>2. CASE call[c].kind < Related
    <3>1. /\ told' = told /\ Active(c)' /\ \A d \in Executions \ {c} : call'[d] = call[d]
          /\ call'[c].at = "list" /\ call'[c].of = call[c].of /\ call'[c].op = call[c].op
          /\ call'[c].kind = call[c].kind + 1 /\ call'[c].born = call[c].born
      BY <1>2, <1>5, <2>2, NextCall
    <3>2. Fits(call[c])'
      BY <1>1, <3>1 DEF Fits
    <3>3. ASSUME NEW w \in Workflows, w = call[c].of, Finds(c, call[c], w)
          PROVE  Finds(c, call[c], w)'
      <4>1. \A k \in Kinds : k < call[c].kind + 1 => k < call[c].kind \/ k = call[c].kind
        BY <1>1 DEF Kinds
      <4>2. QED
        BY <2>1, <3>1, <3>3, <4>1 DEF Finds
    <3>4. QED
      BY <3>1, <3>2, <3>3 DEF Advances
  <2>3. CASE ~(call[c].kind < Related)
    <3>1. Return(c, "ok")
      BY <1>5, <2>3 DEF NextKind
    <3>2. \A k \in Kinds : k < call[c].kind \/ k = call[c].kind
      BY <1>1, <2>3 DEF Kinds
    <3>3. \A w \in Workflows : w = call[c].of /\ Finds(c, call[c], w) => Gone(w)'
      BY <2>1, <3>2 DEF Gone, Whole
    <3>4. QED
      BY <1>1, <1>2, <3>1, <3>3, ReturnCall DEF Finishes
  <2>4. QED
    BY <2>2, <2>3
<1>6. QED
  BY <1>3, <1>4, <1>5 DEF Proceed, AfterList

\* The other statements have no part in related rows, but for what resume has read.
LEMMA OtherMoves ==
  ASSUME Inv, CallsFit, NEW c \in Executions, Active(c),
         call[c].at \in {"select", "update", "resolve", "get", "put"},
         Apply(c, call[c]), Proceed(c)
  PROVE  Advances(c) \/ Finishes(c)
<1>1. /\ call \in [Executions -> Call] /\ call[c] \in Call /\ Fits(call[c])
      /\ call[c].of \in Workflows
  BY ActiveCall DEF Inv, TypeOK, CallsFit
<1>2. {"inserted", "existing", "conflict", "granted", "refused", "ok", "error"} = Answers
      /\ {"resolve", "put"} \subseteq Statements
  BY DEF Answers, Statements
<1>3. call[c].op # "delete" /\ call[c].kind = 1 /\ (call[c].at = "put" => call[c].op = "resume")
  BY <1>1 DEF Fits
<1>4. CASE \E a \in Answers : Return(c, a) /\ (call[c].op = "import" => a # "ok")
  BY <1>3, <1>4, ReturnFinishes
<1>5. CASE call[c].at = "update" /\ Goto(c, "resolve")
  BY <1>1, <1>2, <1>5, GotoCall DEF Advances, Fits, Finds
<1>6. CASE call[c].at = "get" /\ AfterGet(c) /\ rows[call[c].of] # Absent
  <2> DEFINE row == rows[call[c].of]
             saved == [row EXCEPT !.status = "Pending", !.executor = None, !.execution = None]
  <2>1. call'[c] = [call[c] EXCEPT !.at = "put", !.try = 0, !.born = birth[call[c].of],
                                   !.row = saved]
    BY <1>1, <1>6, Zenon DEF AfterGet
  <2>2. /\ call'[c].at = "put" /\ call'[c].of = call[c].of /\ call'[c].op = call[c].op
        /\ call'[c].kind = call[c].kind /\ call'[c].born = birth[call[c].of]
    <3> HIDE DEF saved
    <3>1. QED
      BY <1>1, <2>1, Zenon DEF Call
  <2> HIDE DEF saved
  <2>3. told' = told /\ \A d \in Executions \ {c} : call'[d] = call[d]
    BY <1>1, <1>6 DEF AfterGet
  <2>4. UNCHANGED tables
    BY <1>6 DEF Apply
  <2>5. Fits(call[c])' /\ Active(c)'
    BY <1>1, <1>3, <1>6, <2>2, SqlAssumption DEF Fits, Active, Statements
  <2>6. \A w \in Workflows : w = call[c].of => Finds(c, call[c], w)'
    BY <1>6, <2>2, <2>4 DEF Finds, tables
  <2>7. QED
    BY <2>2, <2>3, <2>5, <2>6 DEF Advances
<1>7. CASE call[c].at = "select" /\ AfterSelect(c)
  BY <1>2, <1>4, <1>7 DEF AfterSelect, Existing
<1>8. CASE call[c].at \in {"update", "resolve", "get", "put"}
  <2>1. call[c].op # "import"
    BY <1>1, <1>8 DEF Fits
  <2>2. QED
    BY <1>2, <1>4, <1>5, <1>6, <1>8, <2>1 DEF Proceed, AfterUpdate, AfterResolve, AfterGet
<1>9. QED
  BY <1>7, <1>8 DEF Proceed

\* A statement leaves the tables as itself needs them, to be sent again.
LEMMA FoundAgain ==
  ASSUME Inv, NEW c \in Executions, Active(c), Apply(c, call[c]) \/ UNCHANGED tables,
         NEW w \in Workflows, w = call[c].of, Finds(c, call[c], w), NEW s, s = call[c]
  PROVE  Finds(c, s, w)'
<1>1. /\ rows \in [Workflows -> Row] /\ birth \in [Workflows -> Executions \cup {None}]
      /\ parts \in [Workflows -> [Kinds -> Executions \cup {None}]]
      /\ s \in Call /\ Sound(s) /\ Finds(c, s, w) /\ (Apply(c, s) \/ UNCHANGED tables)
  BY ActiveCall DEF Inv, TypeOK
<1>2. CASE UNCHANGED tables
  BY <1>1, <1>2 DEF Finds, tables
<1>3. CASE s.at = "put" /\ PutRow(s)
  <2>1. s.row # Absent
    BY <1>1, <1>3, AbsentRow DEF Sound, Fresh
  <2>2. rows'[w] = s.row /\ birth'[w] = s.born
    BY <1>1, <1>3 DEF PutRow
  <2>3. QED
    BY <1>3, <2>1, <2>2 DEF Finds
<1>4. CASE s.at = "part" /\ SetPart(s, s.born)
  <2>1. /\ rows' = rows /\ birth' = birth
        /\ parts'[w] = [parts[w] EXCEPT ![s.kind] = s.born]
    BY <1>1, <1>4 DEF SetPart
  <2>2. parts[w] \in [Kinds -> Executions \cup {None}]
    BY <1>1
  <2>3. \A k \in Kinds : parts'[w][k] \in {parts[w][k], s.born}
    BY <2>1, <2>2
  <2>4. QED
    BY <1>1, <1>4, <2>1, <2>3 DEF Finds
<1>5. CASE s.at = "sweep" /\ SetPart(s, None)
  <2>1. /\ rows' = rows /\ birth' = birth
        /\ parts'[w] = [parts[w] EXCEPT ![s.kind] = None]
    BY <1>1, <1>5 DEF SetPart
  <2>2. parts[w] \in [Kinds -> Executions \cup {None}]
    BY <1>1
  <2>3. \A k \in Kinds : parts'[w][k] \in {parts[w][k], None}
    BY <2>1, <2>2
  <2>4. QED
    BY <1>1, <1>5, <2>1, <2>3 DEF Finds
<1>6. CASE s.at \notin {"put", "part", "list", "sweep"}
  BY <1>6 DEF Finds
<1>7. CASE s.at = "list"
  BY <1>1, <1>2, <1>7 DEF Apply
<1>8. QED
  BY <1>1, <1>2, <1>3, <1>4, <1>5, <1>6, <1>7 DEF Apply

\* A statement that is sent again, or an error, changes nothing about what is to be done;
\* a delete that fails has its workflow marked.
LEMMA RetryFinds ==
  ASSUME Inv, CallsFit, NEW c \in Executions, Active(c), Retry(c), GivenUp(c),
         Apply(c, call[c]) \/ UNCHANGED tables
  PROVE  Advances(c) \/ Finishes(c)
<1>1. /\ call \in [Executions -> Call] /\ call[c] \in Call /\ Fits(call[c])
      /\ call[c].of \in Workflows /\ "error" \in Answers /\ told[c] = None
  BY ActiveCall DEF Inv, TypeOK, CallsFit, Answers
<1>2. CASE call' = [call EXCEPT ![c].try = 1, ![c].at = IF @ = "select" THEN "insert" ELSE @]
           /\ UNCHANGED told
  <2> DEFINE at == IF call[c].at = "select" THEN "insert" ELSE call[c].at
  <2>1. call'[c] = [call[c] EXCEPT !.try = 1, !.at = at]
    BY <1>1, <1>2 DEF Call
  <2>2. /\ call'[c].at = at /\ call'[c].of = call[c].of /\ call'[c].op = call[c].op
        /\ call'[c].kind = call[c].kind /\ call'[c].born = call[c].born
    <3> HIDE DEF at
    <3>1. QED
      BY <1>1, <2>1, Zenon DEF Call
  <2>3. told' = told /\ \A d \in Executions \ {c} : call'[d] = call[d]
    BY <1>1, <1>2
  <2>4. Fits(call[c])' /\ Active(c)'
    BY <1>1, <2>2, SqlAssumption DEF Fits, Active, Statements
  <2>5. ASSUME NEW w \in Workflows, w = call[c].of, Finds(c, call[c], w)
        PROVE  Finds(c, call[c], w)'
    <3>1. PICK s \in Call : s = call[c]
      BY <1>1
    <3>2. Finds(c, s, w)'
      BY <2>5, <3>1, FoundAgain
    <3>3. QED
      BY <2>2, <3>1, <3>2 DEF Finds
  <2>6. QED
    BY <2>2, <2>3, <2>4, <2>5 DEF Advances
<1>3. CASE Goto(c, "resolve") /\ call[c].at = "update"
  BY <1>1, <1>3, GotoCall DEF Advances, Fits, Finds, Statements
<1>4. CASE Return(c, "error")
  <2>1. told'[c] # None /\ told'[c] = "error"
    BY <1>1, <1>4, ReturnCall
  <2>2. call[c].op = "delete" => call[c].of \in tangled'
    BY <2>1 DEF GivenUp
  <2>3. QED
    BY <1>1, <1>4, <2>1, <2>2, ReturnCall DEF Finishes
<1>5. QED
  BY <1>2, <1>3, <1>4 DEF Retry

\* What a call has done and what it does next keep the histories that were kept.
LEMMA CallHistories ==
  ASSUME Inv, Histories, NEW c \in Executions, Active(c),
         Apply(c, call[c]) \/ UNCHANGED tables, Advances(c) \/ Finishes(c)
  PROVE  CallsFit' /\ \A w \in Workflows \ (tangled \cup tangled') : Agreeing(w)'
<1>1. /\ told[c] = None /\ \A d \in Executions : Active(d) => told[d] = None
      /\ \A d \in Executions \ {c} : call'[d] = call[d] /\ told'[d] = told[d]
      /\ call'[c].op = call[c].op
      /\ Active(c)' => told'[c] = None
  BY ActiveCall DEF Advances, Finishes
<1>2. CallsFit'
  BY <1>1 DEF Histories, CallsFit, Active, Advances, Finishes
<1>3. ASSUME NEW w \in Workflows \ (tangled \cup tangled') PROVE Agreeing(w)'
  <2>1. TablesAgree(w)
    BY StatementAgrees DEF Histories
  <2>2. Agreeing(w)
    BY DEF Histories
  <2>3. /\ Busy(w)' \subseteq Busy(w) /\ Busy(w) \ {c} \subseteq Busy(w)'
        /\ Active(c)' /\ c \in Busy(w) => c \in Busy(w)'
    BY <1>1 DEF Busy, Active, Advances, Finishes
  <2> c \in Busy(w) => Finds(c, call[c], w)
    BY <2>2 DEF Agreeing
  <2>4. ASSUME NEW d \in Busy(w)'
        PROVE  Finds(d, call[d], w)' /\ (call'[d].op = "delete" => Busy(w)' = {d})
    <3>1. d \in Busy(w) /\ d \in Executions /\ call[d] \in Call /\ call[d].of = w
      BY <2>3, BusyCall
    <3>2. Finds(d, call[d], w)'
      <4>1. CASE d = c
        BY <2>4, <3>1, <4>1 DEF Advances, Finishes, Busy
      <4>2. CASE d # c
        <5>1. PICK s \in Call : s = call[d]
          BY <3>1
        <5>2. Finds(d, s, w)' /\ call'[d] = s
          BY <1>1, <2>1, <3>1, <4>2, <5>1 DEF TablesAgree
        <5>3. QED
          BY <5>2 DEF Finds
      <4>3. QED
        BY <4>1, <4>2
    <3>3. ASSUME call'[d].op = "delete" PROVE Busy(w)' = {d}
      <4>1. call[d].op = "delete"
        BY <1>1, <3>1, <3>3
      <4>2. QED
        BY <2>2, <2>3, <2>4, <3>1, <4>1 DEF Agreeing
    <3>4. QED
      BY <3>2, <3>3
  <2>5. ASSUME rows'[w] = Absent PROVE birth'[w] = None /\ (Deleting(w)' \/ Whole(w, None)')
    <3>1. birth'[w] = None /\ (Deleting(w) \/ Whole(w, None)')
      BY <2>1, <2>5 DEF TablesAgree
    <3>2. ASSUME NEW d \in Busy(w), call[d].op = "delete" PROVE Deleting(w)' \/ Whole(w, None)'
      <4>1. d \in Executions /\ call[d].of = w
        BY BusyCall
      <4>2. CASE d \in Busy(w)'
        BY <1>1, <3>2, <4>1, <4>2 DEF Deleting
      <4>3. CASE d \notin Busy(w)'
        <5>1. d = c /\ Finishes(c)
          BY <2>3, <4>3 DEF Advances
        <5>2. QED
          BY <3>2, <4>1, <5>1 DEF Finishes, Gone
      <4>4. QED
        BY <4>2, <4>3
    <3>3. QED
      BY <3>1, <3>2 DEF Deleting
  <2>6. ASSUME NEW x \in Executions, birth'[w] = x
        PROVE  \/ x \in Busy(w)'
               \/ told'[x] # None /\ (call'[x].op = "import" /\ told'[x] = "ok" => Whole(w, x)')
    <3>1. \/ x \in Busy(w)
          \/ told[x] # None /\ (call[x].op = "import" /\ told[x] = "ok" => Whole(w, x)')
      BY <2>1, <2>6 DEF TablesAgree
    <3>2. CASE x # c
      BY <1>1, <2>3, <3>1, <3>2
    <3>3. CASE x = c
      <4>1. c \in Busy(w) /\ call[c].of = w
        BY <1>1, <3>1, <3>3, BusyCall
      <4>2. QED
        BY <2>3, <3>3, <4>1 DEF Finishes, Advances
    <3>4. QED
      BY <3>2, <3>3
  <2>7. QED
    BY <2>1, <2>4, <2>5, <2>6 DEF Agreeing, TablesAgree
<1>4. QED
  BY <1>2, <1>3

\* A delete that has met no other call stays alone, whoever is at work elsewhere.
LEMMA CallCleans ==
  ASSUME Inv, Cleans, NEW c \in Executions, Active(c),
         Apply(c, call[c]) \/ UNCHANGED tables, Advances(c) \/ Finishes(c),
         clean' \subseteq clean, Finishes(c) => c \notin clean'
  PROVE  Cleans'
<1> SUFFICES ASSUME NEW d \in clean'
             PROVE  /\ Active(d)' /\ call'[d].op = "delete"
                    /\ Busy(call[d].of)' = {d} /\ Finds(d, call[d], call[d].of)'
  BY DEF Cleans
<1>1. /\ d \in Executions /\ Active(d) /\ call[d].op = "delete" /\ call[d].of \in Workflows
      /\ Busy(call[d].of) = {d} /\ Finds(d, call[d], call[d].of)
  BY ActiveCall DEF Cleans, Inv, TypeOK
<1>2. CASE d = c
  <2>1. Advances(c)
    BY <1>2
  <2>2. Busy(call[c].of)' = {c}
    BY <1>1, <1>2, <2>1 DEF Advances, Busy, Active
  <2>3. QED
    BY <1>1, <1>2, <2>1, <2>2 DEF Advances
<1>3. CASE d # c
  <2>1. call'[d] = call[d] /\ call[c].of # call[d].of
    BY <1>1, <1>3 DEF Advances, Finishes, Busy
  <2>2. Busy(call[d].of)' = Busy(call[d].of)
    BY <2>1 DEF Busy, Active, Advances, Finishes
  <2>3. LET w == call[d].of
        IN  rows'[w] = rows[w] /\ birth'[w] = birth[w] /\ parts'[w] = parts[w]
    BY <1>1, <2>1, Elsewhere
  <2>4. Finds(d, call[d], call[d].of)'
    BY <1>1, <2>1, <2>3 DEF Finds
  <2>5. QED
    BY <1>1, <2>1, <2>2, <2>4 DEF Active
<1>4. QED
  BY <1>2, <1>3

\* A call that starts meets a delete, or is of another row than the one there is, only on
\* a workflow that is marked.
LEMMA StartHistories ==
  ASSUME Inv, Histories, NEW c \in Executions, NEW op \in Ops, NEW w \in Workflows,
         NEW name \in Names, NEW executor \in ExecutorIds, Start(c, op, w, name, executor)
  PROVE  Histories'
<1> PICK born \in IF op = "record" THEN Born(w) ELSE {None} :
      call' = [call EXCEPT ![c] =
        [NoCall EXCEPT !.op = op, !.of = w, !.at = First(op), !.executor = executor,
                       !.row = IF First(op) = "insert"
                               THEN NewRow(name, None, None, None) ELSE Absent,
                       !.born = born]]
      /\ tangled' = IF \/ \E d \in Busy(w) : "delete" \in {op, call[d].op}
                       \/ op = "record" /\ born # birth[w]
                    THEN tangled \cup {w} ELSE tangled
  BY Zenon DEF Start
<1> DEFINE row == IF First(op) = "insert" THEN NewRow(name, None, None, None) ELSE Absent
           next == [NoCall EXCEPT !.op = op, !.of = w, !.at = First(op), !.executor = executor,
                                  !.row = row, !.born = born]
<1>1. /\ call \in [Executions -> Call] /\ call[c] = NoCall /\ told[c] = None
      /\ UNCHANGED <<tables, told>> /\ call' = [call EXCEPT ![c] = next]
      /\ clean' = IF op = "delete" /\ Busy(w) = {} THEN clean \cup {c} ELSE clean \ Busy(w)
      /\ tangled \subseteq tangled'
  BY DEF Start, Inv, TypeOK
<1>2. next.op = op /\ next.of = w /\ next.at = First(op) /\ next.kind = 1 /\ next.born = born
  <2> HIDE DEF row
  <2>1. QED
    BY Zenon DEF NoCall
<1> HIDE DEF next, row
<1>3. /\ First(op) \in {"insert", "update", "get", "part", "delete"} /\ ~Active(c)
      /\ First(op) = "part" <=> op = "record"
      /\ Fits(next) /\ next.at # None
  BY <1>1, <1>2, SqlAssumption DEF First, NoCall, Active, Fits, Statements
<1>4. /\ \A d \in Executions \ {c} : call'[d] = call[d]
      /\ call'[c] = next
  BY <1>1
<1>5. CallsFit'
  BY <1>3, <1>4 DEF Histories, CallsFit, Active
<1>6. ASSUME NEW v \in Workflows
      PROVE  /\ Busy(v)' = IF v = w THEN Busy(v) \cup {c} ELSE Busy(v)
             /\ c \notin Busy(v) /\ Busy(v) \subseteq Executions
  BY <1>1, <1>2, <1>3, <1>4 DEF Busy, Active
<1>7. ASSUME NEW v \in Workflows \ tangled' PROVE Agreeing(v)'
  <2>1. Agreeing(v)
    BY <1>1 DEF Histories
  <2>2. /\ Busy(v)' = IF v = w THEN Busy(v) \cup {c} ELSE Busy(v)
        /\ c \notin Busy(v) /\ Busy(v) \subseteq Executions
    BY <1>6
  <2>3. ASSUME NEW d \in Busy(v) PROVE Finds(d, call[d], v)' /\ call'[d] = call[d]
    <3>1. Finds(d, call[d], v) /\ call'[d] = call[d]
      BY <1>4, <2>1, <2>2 DEF Agreeing
    <3>2. QED
      BY <1>1, <3>1 DEF Finds, tables
  <2>4. ASSUME v = w PROVE Finds(c, call[c], v)'
    <3>1. ASSUME op = "record" PROVE rows'[w] # Absent /\ birth'[w] = next.born
      <4>1. born = birth[w] /\ born \in Executions
        BY <2>4, <3>1 DEF Born, Inv, TypeOK
      <4>2. rows[w] # Absent
        BY <2>1, <2>4, <4>1, StoreAssumption DEF Agreeing
      <4>3. QED
        BY <1>1, <1>2, <4>1, <4>2 DEF tables
    <3>2. op = "record" => next.op # "import"
      BY <1>2
    <3>3. QED
      BY <1>2, <1>3, <1>4, <2>4, <3>1, <3>2 DEF Finds
  <2>5. ASSUME v = w, NEW d \in Busy(v) PROVE op # "delete" /\ call[d].op # "delete"
    BY <1>1, <2>5
  <2>6. ASSUME NEW d \in Busy(v)', call'[d].op = "delete" PROVE Busy(v)' = {d}
    <3>1. CASE v = w /\ d = c
      BY <1>2, <1>4, <2>2, <2>5, <2>6, <3>1
    <3>2. CASE v = w /\ d # c
      BY <2>2, <2>3, <2>5, <2>6, <3>2
    <3>3. CASE v # w
      BY <2>1, <2>2, <2>3, <2>6, <3>3 DEF Agreeing
    <3>4. QED
      BY <3>1, <3>2, <3>3
  <2>7. /\ Deleting(v) => Deleting(v)'
        /\ \A x : Whole(v, x)' <=> Whole(v, x)
    BY <1>1, <2>2, <2>3 DEF Deleting, Whole, tables
  <2>8. ASSUME NEW x \in Executions, birth'[v] = x
        PROVE  \/ x \in Busy(v)'
               \/ told'[x] # None /\ (call'[x].op = "import" /\ told'[x] = "ok" => Whole(v, x)')
    <3>1. \/ x \in Busy(v)
          \/ told[x] # None /\ (call[x].op = "import" /\ told[x] = "ok" => Whole(v, x))
      BY <1>1, <2>1, <2>8 DEF Agreeing, tables
    <3>2. told[x] # None => call'[x] = call[x]
      BY <1>1, <1>4
    <3>3. QED
      BY <1>1, <2>2, <2>7, <3>1, <3>2
  <2>9. /\ rows'[v] = rows[v] /\ birth'[v] = birth[v] /\ parts'[v] = parts[v]
    BY <1>1 DEF tables
  <2>10. \A d \in Busy(v)' : Finds(d, call[d], v)' /\ (call'[d].op = "delete" => Busy(v)' = {d})
    BY <2>2, <2>3, <2>4, <2>6
  <2>11. QED
    BY <2>1, <2>7, <2>8, <2>9, <2>10 DEF Agreeing
<1>8. Cleans'
  <2> SUFFICES ASSUME NEW d \in clean'
               PROVE  /\ Active(d)' /\ call'[d].op = "delete"
                      /\ Busy(call[d].of)' = {d} /\ Finds(d, call[d], call[d].of)'
    BY DEF Cleans
  <2>1. CASE d = c /\ op = "delete" /\ Busy(w) = {}
    BY <1>2, <1>3, <1>4, <1>6, <2>1 DEF Active, First, Finds
  <2>2. CASE d \in clean
    <3>1. /\ d \in Executions /\ Active(d) /\ call[d].op = "delete" /\ call[d].of \in Workflows
          /\ Busy(call[d].of) = {d} /\ Finds(d, call[d], call[d].of)
      BY <2>2, ActiveCall DEF Histories, Cleans, Inv, TypeOK
    <3>2. d # c /\ call[d].of # w /\ call'[d] = call[d]
      BY <1>1, <1>3, <1>4, <3>1
    <3>3. Finds(d, call[d], call[d].of)' /\ Busy(call[d].of)' = {d}
      BY <1>1, <1>6, <3>1, <3>2 DEF Finds, tables
    <3>4. QED
      BY <3>1, <3>2, <3>3 DEF Active
  <2>3. QED
    BY <1>1, <2>1, <2>2
<1>9. QED
  BY <1>5, <1>7, <1>8 DEF Histories

\* A statement that is applied late changes no workflow but the one it marks.
LEMMA LandHistories ==
  ASSUME Inv, Histories, NEW m \in adrift, Land(m)
  PROVE  Histories'
<1>1. /\ Apply(m.by, m.sent) /\ tangled' = tangled \cup {m.sent.of} /\ UNCHANGED <<call, told>>
      /\ clean' = clean \ Busy(m.sent.of) /\ m.by \in Executions
  BY DEF Land, Inv, TypeOK
<1>2. CallsFit'
  BY <1>1 DEF Histories, CallsFit, Active
<1>3. ASSUME NEW w \in Workflows \ tangled' PROVE Agreeing(w)'
  <2>1. rows'[w] = rows[w] /\ birth'[w] = birth[w] /\ parts'[w] = parts[w]
    BY <1>1, Elsewhere
  <2>2. Agreeing(w)
    BY <1>1 DEF Histories
  <2>3. TablesAgree(w)
    BY <2>1, <2>2, NothingApplied
  <2>4. Busy(w)' = Busy(w) /\ (Deleting(w)' <=> Deleting(w))
    BY <1>1 DEF Busy, Active, Deleting
  <2>5. \A d \in Busy(w) : Finds(d, call[d], w)'
    BY <1>1, <2>1, <2>2 DEF Agreeing, Finds
  <2>6. QED
    BY <1>1, <2>2, <2>3, <2>4, <2>5 DEF Agreeing, TablesAgree
<1>4. ASSUME NEW d \in clean'
      PROVE  /\ Active(d)' /\ call'[d].op = "delete"
             /\ Busy(call[d].of)' = {d} /\ Finds(d, call[d], call[d].of)'
  <2>1. /\ d \in Executions /\ Active(d) /\ call[d].op = "delete" /\ call[d].of \in Workflows
        /\ Busy(call[d].of) = {d} /\ Finds(d, call[d], call[d].of)
    BY <1>1, ActiveCall DEF Histories, Cleans, Inv, TypeOK
  <2>2. call[d].of # m.sent.of
    BY <1>1, <2>1
  <2>3. LET w == call[d].of
        IN  rows'[w] = rows[w] /\ birth'[w] = birth[w] /\ parts'[w] = parts[w]
    BY <1>1, <2>1, <2>2, Elsewhere
  <2>4. Finds(d, call[d], call[d].of)' /\ Busy(call[d].of)' = {d}
    BY <1>1, <2>1, <2>3 DEF Finds, Busy, Active
  <2>5. QED
    BY <1>1, <2>1, <2>4 DEF Active
<1>5. QED
  BY <1>2, <1>3, <1>4 DEF Histories, Cleans

\* A delete that has met no other call and is answered Ok has left nothing.
LEMMA CleanedUp ==
  ASSUME Inv, Histories, NEW c \in clean, Finishes(c),
         NEW w \in Workflows, w = call[c].of, w \notin tangled'
  PROVE  Agreeing(w)'
<1>1. /\ c \in Executions /\ call[c].op = "delete" /\ Busy(w) = {c} /\ Finds(c, call[c], w)
  BY DEF Histories, Cleans, Inv, TypeOK
<1>2. Gone(w)'
  BY <1>1 DEF Finishes
<1>3. Busy(w)' = {}
  BY <1>1 DEF Busy, Active, Finishes
<1>4. QED
  BY <1>2, <1>3, StoreAssumption DEF Agreeing, Gone

\* Every step keeps the histories.
LEMMA HistoriesStep == Inv /\ Histories /\ [Next]_vars => Histories'
<1> SUFFICES ASSUME Inv, Histories, [Next]_vars PROVE Histories'
  OBVIOUS
<1>1. CASE UNCHANGED vars
  BY <1>1 DEF vars, tables, histories, Histories, CallsFit, Cleans, Agreeing, Finds, Busy,
              Active, Deleting, Whole
<1>2. ASSUME NEW c \in Executions, NEW w \in Workflows, NEW name \in Names,
             NEW executor \in ExecutorIds, NEW op \in Ops, Start(c, op, w, name, executor)
      PROVE  Histories'
  BY <1>2, StartHistories
<1>3. ASSUME NEW c \in Executions, Execute(c) PROVE Histories'
  <2>1. Active(c) /\ Apply(c, call[c]) /\ Proceed(c) /\ CallsFit /\ Cleans
    BY <1>3 DEF Execute, Histories
  <2>2. Advances(c) \/ Finishes(c)
    <3>1. CASE call[c].at = "insert"
      <4>1. AfterInsert(c)
        BY <2>1, <3>1 DEF Proceed
      <4>2. QED
        BY <2>1, <3>1, <4>1, InsertMoves
    <3>2. CASE call[c].at = "part"
      <4>1. AfterPart(c)
        BY <2>1, <3>2 DEF Proceed
      <4>2. QED
        BY <2>1, <3>2, <4>1, PartMoves
    <3>3. CASE call[c].at \in {"delete", "list", "sweep"}
      BY <2>1, <3>3, SweepMoves
    <3>4. CASE call[c].at \in {"select", "update", "resolve", "get", "put"}
      BY <2>1, <3>4, OtherMoves
    <3>5. QED
      BY <2>1, <3>1, <3>2, <3>3, <3>4, ActiveCall DEF Statements
  <2>3. CallsFit' /\ \A w \in Workflows \ (tangled \cup tangled') : Agreeing(w)'
    BY <2>1, <2>2, CallHistories
  <2>4. CASE UNCHANGED histories /\ ~(c \in clean /\ told'[c] # None)
    <3>1. Finishes(c) => c \notin clean'
      BY <2>4 DEF Finishes, histories
    <3>2. QED
      BY <2>1, <2>2, <2>3, <2>4, <3>1, CallCleans DEF Histories, histories
  <2>5. CASE c \in clean /\ clean' = clean \ {c} /\ tangled' = tangled \ {call[c].of}
             /\ told'[c] # None
    <3>1. Finishes(c)
      BY <2>1, <2>2, <2>5, ActiveCall DEF Advances
    <3>2. Cleans'
      BY <2>1, <2>5, <3>1, CallCleans
    <3>3. ASSUME NEW w \in Workflows \ tangled' PROVE Agreeing(w)'
      <4>1. CASE w = call[c].of
        BY <2>5, <3>1, <4>1, CleanedUp
      <4>2. CASE w # call[c].of
        BY <2>3, <2>5, <4>2
      <4>3. QED
        BY <4>1, <4>2
    <3>4. QED
      BY <2>3, <3>2, <3>3 DEF Histories
  <2>6. QED
    BY <1>3, <2>4, <2>5 DEF Execute
\* a failed call keeps marks, and a delete that fails is not clean,
<1>4. ASSUME NEW c \in Executions, Active(c), Apply(c, call[c]) \/ UNCHANGED tables,
             Advances(c) \/ Finishes(c), GivenUp(c)
      PROVE  Histories'
  <2>1. tangled \subseteq tangled' /\ clean' \subseteq clean /\ Cleans
    BY <1>4, GivenUpType DEF Histories
  <2>2. Finishes(c) => c \notin clean'
    BY <1>4, <2>1 DEF GivenUp, Finishes, Cleans, histories
  <2>3. Cleans'
    BY <1>4, <2>1, <2>2, CallCleans
  <2>4. CallsFit' /\ \A w \in Workflows \ (tangled \cup tangled') : Agreeing(w)'
    BY <1>4, CallHistories
  <2>5. QED
    BY <2>1, <2>3, <2>4 DEF Histories
<1>5. ASSUME NEW c \in Executions, LoseAnswer(c) PROVE Histories'
  <2>1. /\ Active(c) /\ Retry(c) /\ GivenUp(c)
        /\ Apply(c, call[c]) \/ UNCHANGED tables
        /\ CallsFit
    BY <1>5 DEF LoseAnswer, Fault, Histories
  <2>2. Advances(c) \/ Finishes(c)
    BY <2>1, RetryFinds
  <2>3. QED
    BY <1>4, <2>1, <2>2
<1>6. ASSUME NEW c \in Executions, Unreachable(c) \/ StaysBusy(c) PROVE Histories'
  <2>1. /\ Active(c) /\ Return(c, "error") /\ GivenUp(c)
        /\ UNCHANGED tables /\ "error" \in Answers
    BY <1>6 DEF Unreachable, StaysBusy, Fault, Answers
  <2>2. call[c].op = "delete" => call[c].of \in tangled'
    BY <2>1, ReturnCall DEF GivenUp
  <2>3. Finishes(c)
    BY <2>1, <2>2, ReturnCall DEF Finishes
  <2>4. QED
    BY <1>4, <2>1, <2>3
<1>7. ASSUME NEW c \in Executions, StartOver(c) PROVE Histories'
  <2>1. /\ Active(c) /\ Goto(c, "insert") /\ UNCHANGED <<histories, tables>>
        /\ call[c].at = "select" /\ "insert" \in Statements /\ CallsFit
    BY <1>7 DEF StartOver, Fault, Statements, Histories
  <2>2. Fits(call[c]) /\ call[c].kind = 1
    BY <2>1 DEF CallsFit, Fits
  <2>3. Advances(c)
    BY <2>1, <2>2, GotoCall DEF Advances, Fits, Finds
  <2>4. GivenUp(c)
    BY <2>1, <2>2 DEF GivenUp, Fits
  <2>5. QED
    BY <1>4, <2>1, <2>3, <2>4
<1>8. ASSUME NEW s \in adrift, Land(s) PROVE Histories'
  BY <1>8, LandHistories
<1>9. QED
  BY <1>1, <1>2, <1>3, <1>5, <1>6, <1>7, <1>8 DEF Next

\* At first there is nothing to agree.
LEMMA InitHistories == Init => Histories
<1> SUFFICES ASSUME Init PROVE Histories
  OBVIOUS
<1>1. \A c \in Executions : ~Active(c)
  BY DEF Init, Active, NoCall
<1>2. ASSUME NEW w \in Workflows PROVE Agreeing(w)
  <2>1. /\ rows[w] = Absent /\ birth[w] = None /\ Busy(w) = {}
        /\ \A k \in Kinds : parts[w][k] = None
    BY <1>1 DEF Init, Busy
  <2>2. QED
    BY <2>1, StoreAssumption DEF Agreeing, Whole
<1>3. QED
  BY <1>1, <1>2 DEF Init, Histories, CallsFit, Cleans

\* Throughout an execution, the histories are kept.
LEMMA HistoriesInvariance == Spec => []Histories
<1>1. Inv /\ Histories /\ [Next]_vars => Histories'
  BY HistoriesStep
<1>2. QED
  BY <1>1, InitHistories, Invariance, PTL DEF Spec

\* The related rows of a workflow belong to the row there is, and where there is none there
\* are none, unless a delete failed or met other calls, an execution recorded a step of a row
\* that was deleted, or a statement was applied late, and no delete has met no other call and
\* succeeded since: inserts and imports of the same workflow, copies that resume saves and
\* answers that are lost do not mix histories.
THEOREM HistoriesApart == Spec => []OneHistory
<1>1. Histories => OneHistory
  <2> SUFFICES ASSUME Histories, NEW w \in Workflows \ tangled,
                      rows[w] # Absent \/ (\A d \in Busy(w) : call[d].op # "delete"),
                      NEW k \in Kinds
               PROVE  parts[w][k] \in {birth[w], None}
    BY DEF OneHistory
  <2>1. Agreeing(w)
    BY DEF Histories
  <2>2. CASE rows[w] # Absent
    BY <2>1, <2>2 DEF Agreeing
  <2>3. CASE rows[w] = Absent
    <3>1. Whole(w, None)
      BY <2>1, <2>3 DEF Agreeing, Deleting
    <3>2. QED
      BY <3>1 DEF Whole
  <2>4. QED
    BY <2>2, <2>3
<1>2. QED
  BY <1>1, HistoriesInvariance, PTL

\* An import that is answered Ok has left its whole history for as long as its row is there
\* (import_workflow, which writes a table after the other, each again if its answer is lost),
\* unless histories were mixed as above.
THEOREM ImportsWhole == Spec => []ImportIsWhole
<1>1. Inv /\ Histories => ImportIsWhole
  <2> SUFFICES ASSUME Inv, Histories, NEW c \in Executions, NEW w \in Workflows \ tangled,
                      call[c].op = "import", told[c] = "ok", birth[w] = c
               PROVE  Whole(w, c)
    BY DEF ImportIsWhole, Whole
  <2>1. c \notin Busy(w)
    BY BusyCall, SqlAssumption DEF Answers
  <2>2. QED
    BY <2>1 DEF Histories, Agreeing
<1>2. QED
  BY <1>1, HistoriesInvariance, Invariance, PTL
-----------------------------------------------------------------------------
(* The refinement of AtomicStore.                                          *)

\* The abstract actions, as steps of the abstract store.
LEMMA PromiseSteps ==
  ASSUME NEW c \in Executions
  PROVE  /\ \A w \in Workflows, name \in Names :
              Promise!Create(c, w, Promise!NewRow(name, None, None, None)) => Promise!Next
         /\ \A w \in Workflows, name \in Names, born \in Executions :
              Promise!Replace(c, w, name, born) => Promise!Next
         /\ \A w \in Workflows, executor \in ExecutorIds :
              Promise!Claim(c, w, executor) => Promise!Next
         /\ \A w \in Workflows : Promise!Remove(c, w) => Promise!Next
         /\ \A a \in Answers : Promise!Settle(c, a) => Promise!Next
BY DEF Promise!Next, Answers

\* Nothing, or an answer that agrees with the statement of the call.
Answered(c, s) ==
  \/ told' = told
  \/ /\ s = call[c] /\ told[c] = None
     /\ \E a \in Answers : told' = [told EXCEPT ![c] = a] /\ Agrees(c, a)

\* A statement and the answer that comes with it are one step of the abstract store.
LEMMA StatementStep ==
  ASSUME Inv, NEW c \in Executions, NEW s \in Call, s.at # None, Sound(s), Apply(c, s),
         Answered(c, s)
  PROVE  [Promise!Next]_(Promise!vars)
<1> s.of \in Workflows /\ s.row \in Row /\ rows[s.of] \in Row
  BY DEF Sound, Call, Inv, TypeOK
<1>1. CASE s.at = "insert" /\ rows[s.of] = Absent
  <2>1. /\ rows' = [rows EXCEPT ![s.of] = s.row] /\ birth' = [birth EXCEPT ![s.of] = c]
        /\ applied' = applied \cup {c}
    BY <1>1 DEF Apply, InsertRow
  <2>2. s.row = Promise!NewRow(s.row.name, None, None, None) /\ s.row.name \in Names
    BY <1>1, FreshRow DEF Sound, Fresh, Plain
  <2>3. Promise!Answer(c, "inserted")
    BY <1>1 DEF Promise!Answer, Answered, Agrees
  <2>4. Promise!Create(c, s.of, s.row)
    BY <1>1, <2>1, <2>2, <2>3 DEF Promise!Create, Promise!Absent, Absent
  <2>5. Promise!Create(c, s.of, Promise!NewRow(s.row.name, None, None, None))
    BY <2>2, <2>4
  <2>6. QED
    BY <2>2, <2>5, PromiseSteps
<1>2. CASE s.at = "update" /\ Claimable(rows[s.of])
  <2>1. /\ rows' = [rows EXCEPT ![s.of] = ClaimedRow(rows[s.of], s.executor, c)]
        /\ birth' = birth /\ applied' = applied \cup {c} /\ s.executor \in ExecutorIds
    BY <1>2 DEF Apply, ClaimRow, Sound
  <2>2. Promise!Answer(c, "granted")
    BY <1>2 DEF Promise!Answer, Answered, Agrees
  <2>3. Promise!Claim(c, s.of, s.executor)
    BY <1>2, <2>1, <2>2
       DEF Promise!Claim, Promise!Claimable, Claimable, Promise!ClaimedRow, ClaimedRow
  <2>4. QED
    BY <2>1, <2>3, PromiseSteps
<1>3. CASE s.at = "put"
  <2>1. /\ rows' = [rows EXCEPT ![s.of] = s.row] /\ birth' = [birth EXCEPT ![s.of] = s.born]
        /\ applied' = applied /\ s.born \in Executions
    BY <1>3 DEF Apply, PutRow, Sound
  <2>2. s.row = Promise!NewRow(s.row.name, None, None, None) /\ s.row.name \in Names
    BY <1>3, FreshRow DEF Sound, Fresh, Plain
  <2>3. Promise!Answer(c, "ok")
    BY <1>3 DEF Promise!Answer, Answered, Agrees
  <2>4. Promise!Replace(c, s.of, s.row.name, s.born)
    BY <2>1, <2>2, <2>3 DEF Promise!Replace
  <2>5. QED
    BY <2>1, <2>2, <2>4, PromiseSteps
<1>4. CASE s.at = "delete"
  <2>1. /\ rows' = [rows EXCEPT ![s.of] = Absent] /\ birth' = [birth EXCEPT ![s.of] = None]
        /\ applied' = applied
    BY <1>4 DEF Apply, DeleteRow
  <2>2. Promise!Answer(c, "ok")
    BY <1>4 DEF Promise!Answer, Answered, Agrees
  <2>3. Promise!Remove(c, s.of)
    BY <2>1, <2>2 DEF Promise!Remove, Promise!Absent, Absent
  <2>4. QED
    BY <2>3, PromiseSteps
<1>5. CASE ~(s.at = "insert" /\ rows[s.of] = Absent)
           /\ ~(s.at = "update" /\ Claimable(rows[s.of])) /\ s.at \notin {"put", "delete"}
  <2>1. UNCHANGED <<rows, birth, applied>>
    BY <1>5 DEF Apply, InsertRow, ClaimRow, SetPart, tables
  <2>2. CASE told' = told
    BY <2>1, <2>2 DEF Promise!vars
  <2>3. ASSUME s = call[c], told[c] = None, NEW a \in Answers, told' = [told EXCEPT ![c] = a],
               Agrees(c, a)
        PROVE  Promise!Settle(c, a)
    <3>1. a \in {"granted", "inserted"} => c \in applied
      BY <1>5, <2>3, StoreAssumption DEF Agrees, Inv, RowsSound
    <3>2. a \in {"existing", "conflict"} => \E w \in Workflows : rows[w] # Absent
      BY <2>3 DEF Agrees
    <3>3. QED
      BY <2>1, <2>3, <3>1, <3>2 DEF Promise!Settle, Promise!Absent, Absent
  <2>4. QED
    BY <2>2, <2>3, PromiseSteps DEF Answered
<1>6. QED
  BY <1>1, <1>2, <1>3, <1>4, <1>5

\* An error without a statement is a step of the abstract store too.
LEMMA ErrorStep ==
  ASSUME Inv, NEW c \in Executions, Active(c), UNCHANGED tables, Return(c, "error")
  PROVE  [Promise!Next]_(Promise!vars)
<1>1. told[c] = None /\ told' = [told EXCEPT ![c] = "error"] /\ UNCHANGED <<rows, birth, applied>>
  BY ActiveCall DEF Return, tables
<1>2. Promise!Settle(c, "error")
  BY <1>1 DEF Promise!Settle
<1>3. QED
  BY <1>2, PromiseSteps DEF Answers

\* Every step of the statements is a step of the abstract store, or none.
LEMMA StepRefines == Inv /\ [Next]_vars => [Promise!Next]_(Promise!vars)
<1> SUFFICES ASSUME Inv, [Next]_vars PROVE [Promise!Next]_(Promise!vars)
  OBVIOUS
<1>1. ASSUME UNCHANGED <<rows, birth, applied, told>> PROVE [Promise!Next]_(Promise!vars)
  BY <1>1 DEF Promise!vars
<1>2. CASE UNCHANGED vars
  BY <1>1, <1>2 DEF vars, tables
<1>3. ASSUME NEW c \in Executions, NEW w \in Workflows, NEW name \in Names,
             NEW executor \in ExecutorIds, NEW op \in Ops, Start(c, op, w, name, executor)
      PROVE  [Promise!Next]_(Promise!vars)
  BY <1>1, <1>3 DEF Start, tables
<1>4. ASSUME NEW c \in Executions, Active(c), Apply(c, call[c]), GoesOn(c) \/ Returns(c)
      PROVE  [Promise!Next]_(Promise!vars)
  <2>1. call[c] \in Call /\ call[c].at # None /\ Sound(call[c]) /\ told[c] = None
    BY <1>4, ActiveCall DEF Active
  <2>2. Answered(c, call[c])
    BY <1>4, <2>1 DEF Answered, GoesOn, Returns, Return
  <2>3. QED
    BY <1>4, <2>1, <2>2, StatementStep
<1>5. ASSUME NEW c \in Executions, Execute(c) PROVE [Promise!Next]_(Promise!vars)
  BY <1>4, <1>5, ProceedMoves DEF Execute
<1>6. ASSUME NEW c \in Executions, LoseAnswer(c) PROVE [Promise!Next]_(Promise!vars)
  <2>1. Active(c) /\ Retry(c) /\ (Apply(c, call[c]) \/ UNCHANGED tables)
    BY <1>6 DEF LoseAnswer, Fault
  <2>2. GoesOn(c) \/ Return(c, "error")
    BY <2>1, RetryMoves
  <2>3. CASE Apply(c, call[c])
    <3>1. Return(c, "error") => Returns(c)
      BY DEF Returns, Agrees, Answers
    <3>2. QED
      BY <1>4, <2>1, <2>2, <2>3, <3>1
  <2>4. CASE UNCHANGED tables
    <3>1. CASE GoesOn(c)
      BY <1>1, <2>4, <3>1 DEF GoesOn, tables
    <3>2. CASE Return(c, "error")
      BY <2>1, <2>4, <3>2, ErrorStep
    <3>3. QED
      BY <2>2, <3>1, <3>2
  <2>5. QED
    BY <2>1, <2>3, <2>4
<1>7. ASSUME NEW c \in Executions, Unreachable(c) \/ StaysBusy(c)
      PROVE  [Promise!Next]_(Promise!vars)
  BY <1>7, ErrorStep DEF Unreachable, StaysBusy, Fault
<1>8. ASSUME NEW c \in Executions, StartOver(c) PROVE [Promise!Next]_(Promise!vars)
  BY <1>1, <1>8 DEF StartOver, Goto, tables
<1>9. ASSUME NEW m \in adrift, Land(m) PROVE [Promise!Next]_(Promise!vars)
  <2>1. m.by \in Executions /\ m.sent \in Call /\ Sound(m.sent)
    BY DEF Inv, TypeOK, AdriftSound
  <2>2. Apply(m.by, m.sent) /\ told' = told
    BY <1>9 DEF Land
  <2>3. m.sent.at # None
    BY <2>2, AppliedStatement
  <2>4. Answered(m.by, m.sent)
    BY <2>2 DEF Answered
  <2>5. QED
    BY <2>1, <2>2, <2>3, <2>4, StatementStep
<1>10. QED
  BY <1>2, <1>3, <1>5, <1>6, <1>7, <1>8, <1>9 DEF Next

\* The SQL stores keep what the trait SystemDatabase promises of workflow rows: the
\* statements of all calls, repeated, lost and late, are steps of the atomic store.
THEOREM Refinement == Spec => AtomicStatements
<1>1. Init => Promise!Init
  BY DEF Init, Promise!Init, Promise!Absent, Absent
<1>2. QED
  BY <1>1, StepRefines, Invariance, PTL DEF Spec, AtomicStatements, Promise!Spec
=============================================================================
