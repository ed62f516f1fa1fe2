------------------------------ MODULE AtomicStore ------------------------------
(***************************************************************************)
(* What a system database promises of its workflow rows (the trait          *)
(* SystemDatabase): a row is created only where there is none, claimed only *)
(* while it waits for a claim, and the answer to a call agrees with what    *)
(* has happened.  A call may be repeated inside the store, so it may have   *)
(* its effect again if others have undone it.                               *)
(***************************************************************************)
EXTENDS WorkflowStore

CONSTANT Calls

VARIABLES
  rows,      \* the workflow rows
  birth,     \* the call that created each of them
  applied,   \* the calls that have created or claimed a row
  told       \* what each call was answered

vars == <<rows, birth, applied, told>>

Init ==
  /\ rows = [w \in Workflows |-> Absent]
  /\ birth = [w \in Workflows |-> None]
  /\ applied = {}
  /\ told = [c \in Calls |-> None]

\* An answer may come with the effect or after it, and an error at any time.
Answer(c, success) ==
  \/ UNCHANGED told
  \/ told[c] = None /\ \E a \in {success, "error"} : told' = [told EXCEPT ![c] = a]

Create(c, w, row) ==
  /\ rows[w] = Absent
  /\ row = NewRow(row.name, None, None, None)
  /\ rows' = [rows EXCEPT ![w] = row]
  /\ birth' = [birth EXCEPT ![w] = c]
  /\ applied' = applied \cup {c}
  /\ Answer(c, "inserted")

Claim(c, w, executor) ==
  /\ Claimable(rows[w])
  /\ rows' = [rows EXCEPT ![w] = ClaimedRow(@, executor, c)]
  /\ applied' = applied \cup {c}
  /\ Answer(c, "granted")
  /\ UNCHANGED birth

\* A row is put back as it was when somebody read it, waiting for a new claim.
Replace(c, w, name, born) ==
  /\ rows' = [rows EXCEPT ![w] = NewRow(name, None, None, None)]
  /\ birth' = [birth EXCEPT ![w] = born]
  /\ Answer(c, "ok")
  /\ UNCHANGED applied

Remove(c, w) ==
  /\ rows' = [rows EXCEPT ![w] = Absent]
  /\ birth' = [birth EXCEPT ![w] = None]
  /\ Answer(c, "ok")
  /\ UNCHANGED applied

\* A call is answered without touching a row.
Settle(c, a) ==
  /\ told[c] = None
  /\ told' = [told EXCEPT ![c] = a]
  /\ a \in {"granted", "inserted"} => c \in applied
  /\ a \in {"existing", "conflict"} => \E w \in Workflows : rows[w] # Absent
  /\ UNCHANGED <<rows, birth, applied>>

Next ==
  \E c \in Calls :
    \/ \E w \in Workflows :
         \/ \E name \in Names :
              \/ Create(c, w, NewRow(name, None, None, None))
              \/ \E born \in Calls : Replace(c, w, name, born)
         \/ \E executor \in ExecutorIds : Claim(c, w, executor)
         \/ Remove(c, w)
    \/ \E a \in {"inserted", "existing", "conflict", "granted", "refused", "ok", "error"} :
         Settle(c, a)

Spec == Init /\ [][Next]_vars
=============================================================================
