------------------------------- MODULE SqlStore -------------------------------
(***************************************************************************)
(* The SQL system databases (store.rs, PostgresStore and TursoStore): each  *)
(* call of the store is one or more SQL statements, and statements of other *)
(* calls come in between.  A PostgreSQL statement can lose its connection:  *)
(* the client then does not know whether it was applied, and it may even be *)
(* applied later, while the client has connected again and repeats it.      *)
(*                                                                         *)
(* A call is named by the execution id that it offers if it is a claim.     *)
(***************************************************************************)
EXTENDS WorkflowStore

CONSTANTS
  Backends,  \* which of "postgres" and "turso" there may be
  Ops,       \* the kinds of calls that are made
  Related,   \* tables of related rows: steps, events, streams, messages
  Faults     \* bound on the statements that fail

Statements == {"insert", "select", "update", "resolve", "get", "put", "part",
               "delete", "list", "sweep"}
Answers == {"inserted", "existing", "conflict", "granted", "refused", "ok", "error"}

ASSUME SqlAssumption ==
  /\ Backends \subseteq {"postgres", "turso"}
  /\ Ops \subseteq {"insert", "import", "claim", "resume", "record", "delete"}
  /\ Related \in Nat \ {0}
  /\ Faults \in Nat
  /\ None \notin Statements \cup Answers

Kinds == 1..Related

VARIABLES
  backend,   \* the store that the configuration has chosen
  rows,      \* the workflow rows
  parts,     \* related rows of each workflow: the birth of the row they were written for
  call,      \* the statement each call has reached
  told,      \* what each call was answered
  adrift,    \* statements whose connection is lost and that may still be applied
  faults,    \* faults left
  birth,     \* history: the call that created each workflow row
  applied,   \* history: calls that have created or claimed a row
  late,      \* history: calls of which a statement was applied late
  clean,     \* history: deletes under way that have met no other call
  tangled    \* history: workflows whose related rows may not be their own, until a
             \* delete that meets no other call has removed them all

tables == <<rows, parts, birth, applied>>
histories == <<clean, tangled>>
vars == <<backend, tables, call, told, adrift, faults, late, histories>>
-----------------------------------------------------------------------------
\* at    the statement to be sent next
\* try   whether the statement is sent a second time
\* kind  the table of related rows that a delete or an import has reached
\* row   the row to be inserted, or saved
\* born  the birth of the row that was read
Call == [op : Ops \cup {None}, of : Workflows \cup {None}, at : Statements \cup {None},
         try : 0..1, kind : 1..(Related + 1), row : Row, executor : ExecutorIds \cup {None},
         born : Executions \cup {None}]
NoCall == [op |-> None, of |-> None, at |-> None, try |-> 0, kind |-> 1, row |-> Absent,
           executor |-> None, born |-> None]

Active(c) == call[c].at # None
Busy(w) == {c \in Executions : Active(c) /\ call[c].of = w}

Init ==
  /\ backend \in Backends
  /\ rows = [w \in Workflows |-> Absent]
  /\ parts = [w \in Workflows |-> [k \in Kinds |-> None]]
  /\ call = [c \in Executions |-> NoCall]
  /\ told = [c \in Executions |-> None]
  /\ adrift = {}
  /\ faults = Faults
  /\ birth = [w \in Workflows |-> None]
  /\ applied = {}
  /\ late = {}
  /\ clean = {}
  /\ tangled = {}

\* The statement a call starts with.
First(op) ==
  CASE op \in {"insert", "import"} -> "insert"
    [] op = "claim" -> "update"
    [] op = "resume" -> "get"
    [] op = "record" -> "part"
    [] op = "delete" -> "delete"

\* The calls that have created a row of w: each may be executed to this day.
Born(w) == {b \in applied : call[b].op \in {"insert", "import"} /\ call[b].of = w}

\* A step is recorded by an execution of a row that was created once.  Nobody looks whether
\* the row is there still: delete_workflows stops no execution, and record_step is a put.
Start(c, op, w, name, executor) ==
  /\ call[c] = NoCall
  /\ told[c] = None
  /\ \E born \in IF op = "record" THEN Born(w) ELSE {None} :
       /\ call' = [call EXCEPT ![c] =
            [NoCall EXCEPT !.op = op, !.of = w, !.at = First(op), !.executor = executor,
                           !.row = IF First(op) = "insert"
                                   THEN NewRow(name, None, None, None) ELSE Absent,
                           !.born = born]]
       /\ tangled' = IF \/ \E d \in Busy(w) : "delete" \in {op, call[d].op}
                        \/ op = "record" /\ born # birth[w]
                     THEN tangled \cup {w} ELSE tangled
  /\ clean' = IF op = "delete" /\ Busy(w) = {} THEN clean \cup {c} ELSE clean \ Busy(w)
  /\ UNCHANGED <<backend, tables, told, adrift, faults, late>>
-----------------------------------------------------------------------------
(* What the database does with statement s of call c.                      *)

InsertRow_Upsert(c, s) ==
  /\ rows' = [rows EXCEPT ![s.of] = s.row]
  /\ birth' = [birth EXCEPT ![s.of] = c]
  /\ applied' = applied \cup {c}
  /\ UNCHANGED parts

\* INSERT ... ON CONFLICT DO NOTHING: no deduplication id is looked at.
InsertRow(c, s) ==
  IF rows[s.of] = Absent
  THEN /\ rows' = [rows EXCEPT ![s.of] = s.row]
       /\ birth' = [birth EXCEPT ![s.of] = c]
       /\ applied' = applied \cup {c}
       /\ UNCHANGED parts
  ELSE UNCHANGED tables

\* UPDATE ... WHERE status and executor_id permit it.
ClaimRow(c, s) ==
  IF Claimable(rows[s.of])
  THEN /\ rows' = [rows EXCEPT ![s.of] = ClaimedRow(@, s.executor, c)]
       /\ applied' = applied \cup {c}
       /\ UNCHANGED <<parts, birth>>
  ELSE UNCHANGED tables

\* An upsert of the whole row, whatever there is by now.
PutRow(s) ==
  /\ rows' = [rows EXCEPT ![s.of] = s.row]
  /\ birth' = [birth EXCEPT ![s.of] = s.born]
  /\ UNCHANGED <<parts, applied>>

DeleteRow(s) ==
  /\ rows' = [rows EXCEPT ![s.of] = Absent]
  /\ birth' = [birth EXCEPT ![s.of] = None]
  /\ UNCHANGED <<parts, applied>>

SetPart(s, origin) ==
  /\ parts' = [parts EXCEPT ![s.of][s.kind] = origin]
  /\ UNCHANGED <<rows, birth, applied>>

Apply(c, s) ==
  \/ s.at = "insert" /\ InsertRow(c, s)
  \/ s.at = "update" /\ ClaimRow(c, s)
  \/ s.at = "put" /\ PutRow(s)
  \/ s.at = "part" /\ SetPart(s, s.born)
  \/ s.at = "delete" /\ DeleteRow(s)
  \/ s.at = "sweep" /\ SetPart(s, None)
  \/ s.at \in {"select", "resolve", "get", "list"} /\ UNCHANGED tables
-----------------------------------------------------------------------------
(* What the client does when the database has answered.                    *)

Goto(c, at) == call' = [call EXCEPT ![c].at = at, ![c].try = 0] /\ UNCHANGED told

Return(c, answer) ==
  /\ call' = [call EXCEPT ![c] = [NoCall EXCEPT !.op = call[c].op, !.of = call[c].of]]
  /\ told' = [told EXCEPT ![c] = answer]

\* On to the next table of related rows, with the statement at.
NextKind_Early(c, at) ==
  IF call[c].kind + 1 < Related
  THEN /\ call' = [call EXCEPT ![c].at = at, ![c].try = 0, ![c].kind = @ + 1]
       /\ UNCHANGED told
  ELSE Return(c, "ok")

NextKind(c, at) ==
  IF call[c].kind < Related
  THEN /\ call' = [call EXCEPT ![c].at = at, ![c].try = 0, ![c].kind = @ + 1]
       /\ UNCHANGED told
  ELSE Return(c, "ok")

\* import_workflow goes on with the related rows only if the row is its own.
Inserted(c) ==
  IF call[c].op = "import"
  THEN call' = [call EXCEPT ![c].at = "part", ![c].try = 0, ![c].born = c] /\ UNCHANGED told
  ELSE Return(c, "inserted")

Existing_Import(c) == IF call[c].op = "import" THEN Inserted(c) ELSE Return(c, "existing")
Existing(c) == Return(c, IF call[c].op = "import" THEN "conflict" ELSE "existing")

AfterInsert(c) ==
  \/ rows[call[c].of] = Absent /\ Inserted(c)
  \/ rows[call[c].of] # Absent /\ Goto(c, "select")

\* The row that was in the way may be gone by now.
AfterSelect(c) ==
  LET row == rows[call[c].of] IN
  \/ row = Absent /\ Return(c, "error")
  \/ row # Absent /\ IdentityMatches(row, call[c].row) /\ Existing(c)
  \/ row # Absent /\ ~IdentityMatches(row, call[c].row) /\ Return(c, "conflict")

\* No row updated: the claim may have been granted to an earlier try of this call.
AfterUpdate(c) ==
  \/ Claimable(rows[call[c].of]) /\ Return(c, "granted")
  \/ ~Claimable(rows[call[c].of]) /\ Goto(c, "resolve")

AfterResolve(c) ==
  Return(c, IF rows[call[c].of].execution = c THEN "granted" ELSE "refused")

\* resume_workflow clears the claim in the copy it has read, and saves the copy.
AfterGet(c) ==
  LET row == rows[call[c].of] IN
  \/ row = Absent /\ Return(c, "error")
  \/ /\ row # Absent
     /\ call' = [call EXCEPT ![c].at = "put", ![c].try = 0, ![c].born = birth[call[c].of],
          ![c].row = [row EXCEPT !.status = "Pending", !.executor = None, !.execution = None]]
     /\ UNCHANGED told

AfterList(c) ==
  \/ parts[call[c].of][call[c].kind] # None /\ Goto(c, "sweep")
  \/ parts[call[c].of][call[c].kind] = None /\ NextKind(c, "list")

AfterPart(c) ==
  \/ call[c].op = "import" /\ NextKind(c, "part")
  \/ call[c].op = "record" /\ Return(c, "ok")

Proceed(c) ==
  \/ call[c].at = "insert" /\ AfterInsert(c)
  \/ call[c].at = "select" /\ AfterSelect(c)
  \/ call[c].at = "update" /\ AfterUpdate(c)
  \/ call[c].at = "resolve" /\ AfterResolve(c)
  \/ call[c].at = "get" /\ AfterGet(c)
  \/ call[c].at = "put" /\ Return(c, "ok")
  \/ call[c].at = "part" /\ AfterPart(c)
  \/ call[c].at = "delete" /\ Goto(c, "list")
  \/ call[c].at = "list" /\ AfterList(c)
  \/ call[c].at = "sweep" /\ NextKind(c, "list")

\* A statement is applied, and its answer arrives.
Execute(c) ==
  /\ Active(c)
  /\ Apply(c, call[c])
  /\ Proceed(c)
  /\ IF c \in clean /\ told'[c] # None
     THEN clean' = clean \ {c} /\ tangled' = tangled \ {call[c].of}
     ELSE UNCHANGED histories
  /\ UNCHANGED <<backend, adrift, faults, late>>
-----------------------------------------------------------------------------
(* Failures.  A delete that gives up leaves related rows without a workflow. *)

GivenUp(c) == IF call[c].op = "delete" /\ told'[c] # None
              THEN clean' = clean \ {c} /\ tangled' = tangled \cup {call[c].of}
              ELSE UNCHANGED histories

Retry_Refused(c) ==
  \/ call[c].try = 0 /\ call' = [call EXCEPT ![c].try = 1] /\ UNCHANGED told
  \/ call[c].try = 1 /\ Return(c, IF call[c].at = "update" THEN "refused" ELSE "error")

\* The statement is sent once more over a new connection; insert starts over with its
\* INSERT.  After the second failure a claim looks at the row.  Any other call answers
\* the error, as does a claim that cannot look.
Retry(c) ==
  \/ /\ call[c].try = 0 /\ call[c].at # "resolve"
     /\ call' = [call EXCEPT ![c].try = 1, ![c].at = IF @ = "select" THEN "insert" ELSE @]
     /\ UNCHANGED told
  \/ call[c].try = 1 /\ call[c].at = "update" /\ Goto(c, "resolve")
  \/ call[c].try = 1 /\ call[c].at # "update" /\ Return(c, "error")
  \/ call[c].at = "resolve" /\ Return(c, "error")

Fault(c) ==
  /\ Active(c)
  /\ faults > 0
  /\ faults' = faults - 1

\* PostgreSQL: the connection breaks before the answer.  The statement has been applied,
\* or never will be, or is still on its way.
LoseAnswer(c) ==
  /\ backend = "postgres"
  /\ Fault(c)
  /\ \/ Apply(c, call[c]) /\ UNCHANGED adrift
     \/ UNCHANGED <<tables, adrift>>
     \/ UNCHANGED tables /\ adrift' = adrift \cup {[by |-> c, sent |-> call[c]]}
  /\ Retry(c)
  /\ GivenUp(c)
  /\ UNCHANGED <<backend, late>>

Land(s) ==
  /\ s \in adrift
  /\ Apply(s.by, s.sent)
  /\ adrift' = adrift \ {s}
  /\ late' = late \cup {s.by}
  /\ clean' = clean \ Busy(s.sent.of)
  /\ tangled' = tangled \cup {s.sent.of}
  /\ UNCHANGED <<backend, call, told, faults>>

\* The error that was retried is returned in the end, and nothing is applied:
\* PostgreSQL finds no connection within the reconnect timeout,
Unreachable(c) ==
  /\ backend = "postgres"
  /\ Fault(c)
  /\ Return(c, "error")
  /\ GivenUp(c)
  /\ UNCHANGED <<backend, tables, adrift, late>>

\* and Turso finds the database busy until the deadline.
StaysBusy(c) ==
  /\ backend = "turso"
  /\ Fault(c)
  /\ Return(c, "error")
  /\ GivenUp(c)
  /\ UNCHANGED <<backend, tables, adrift, late>>

\* Turso: the SELECT of an insert finds the database busy, which starts the insert over.
\* A busy write is just sent again, and any other statement that is busy fails.
StartOver(c) ==
  /\ backend = "turso"
  /\ Fault(c)
  /\ call[c].at = "select"
  /\ Goto(c, "insert")
  /\ UNCHANGED <<backend, tables, adrift, late, histories>>
-----------------------------------------------------------------------------
Next ==
  \/ \E c \in Executions, w \in Workflows, name \in Names, executor \in ExecutorIds, op \in Ops :
       Start(c, op, w, name, executor)
  \/ \E c \in Executions :
       Execute(c) \/ LoseAnswer(c) \/ Unreachable(c) \/ StaysBusy(c) \/ StartOver(c)
  \/ \E s \in adrift : Land(s)

Spec == Init /\ [][Next]_vars

-----------------------------------------------------------------------------
TypeOK ==
  /\ backend \in Backends
  /\ rows \in [Workflows -> Row]
  /\ parts \in [Workflows -> [Kinds -> Executions \cup {None}]]
  /\ call \in [Executions -> Call]
  /\ told \in [Executions -> Answers \cup {None}]
  /\ adrift \subseteq [by : Executions, sent : Call]
  /\ faults \in 0..Faults
  /\ birth \in [Workflows -> Executions \cup {None}]
  /\ applied \subseteq Executions
  /\ late \subseteq Executions
  /\ clean \subseteq Executions
  /\ tangled \subseteq Workflows

\* A claim answered yes has been granted, and one answered no does not hold the row:
\* a claim whose answer was lost is found again by its execution id.  Only a statement
\* that is applied after its call has returned can leave a claim nobody knows of.
ClaimAnswers ==
  \A c \in Executions :
    /\ told[c] \in {"granted", "inserted"} => c \in applied
    /\ told[c] = "refused" /\ c \notin late => \A w \in Workflows : rows[w].execution # c

\* The related rows of a workflow belong to the row there is, and there are none where
\* there is no workflow: an import does not write beside a row it has not created
\* (store.rs 30-32), and a workflow created after a delete does not find the steps of the
\* one before.  It takes a delete that fails or meets other calls, an execution that
\* outlives a delete and records a step, or a statement applied late, to mix them; a
\* delete that meets no other call and is answered Ok then sets it right.
OneHistory ==
  \A w \in Workflows \ tangled :
    rows[w] # Absent \/ (\A d \in Busy(w) : call[d].op # "delete")
      => \A k \in Kinds : parts[w][k] \in {birth[w], None}

\* An import that is answered Ok has left its whole history, as long as its row is there:
\* however the calls of the import, of other imports and of the executions of its workflow
\* come between.  The steps of an execution of an earlier row of that id can replace its own.
ImportIsWhole ==
  \A c \in Executions, w \in Workflows \ tangled :
    call[c].op = "import" /\ told[c] = "ok" /\ birth[w] = c => \A k \in Kinds : parts[w][k] = c

Promise ==
  INSTANCE AtomicStore WITH Calls <- Executions

\* The statements of all calls together are an atomic store: rows come and go, are claimed
\* and replaced, one at a time, and the answers agree.
AtomicStatements == Promise!Spec
=============================================================================
