----------------------------- MODULE Communication -----------------------------
(***************************************************************************)
(* Messages, events and streams, put together as an application would: one  *)
(* workflow receives messages on a topic, writes each to a stream, sets an  *)
(* event and closes the stream, while others send, wait for the event, and  *)
(* read the stream as it grows.                                             *)
(*                                                                         *)
(* None of these calls records a step: a workflow that is executed again    *)
(* after a crash makes all of them again.  A put of a SQL store that loses  *)
(* its answer was applied, or never will be, or will be later, and is sent  *)
(* once more before it answers an error.                                    *)
(***************************************************************************)
EXTENDS Naturals, Sequences, FiniteSets, SequencesExt

CONSTANTS
  Backends,       \* which of "memory" and "sql" the store may be
  Senders,
  Plans,          \* how many messages each sender may be going to send
  Wanted,         \* how many messages the handler receives
  LastExecution,  \* bound on the executions of the workflow
  Followed,       \* the plans under which others wait for the event and read the stream
  Overlap,        \* those under which an execution may begin while an earlier one is running
  Budget,         \* bound on crashes, on statements that fail, and on values that
                  \* cannot be encoded or decoded
  MaxTime,        \* bound on the stamps of messages
  None

Executions == 1..LastExecution
Time == 1..MaxTime

ASSUME CommunicationAssumption ==
  /\ Backends \subseteq {"memory", "sql"}
  /\ Plans \subseteq [Senders -> Nat]
  /\ Wanted \in Nat \ {0} /\ LastExecution \in Nat /\ MaxTime \in Nat
  /\ Followed \subseteq Plans /\ Overlap \subseteq Plans
  /\ Budget \in [{"crash", "fault", "codec"} -> Nat]

VARIABLES
  backend,    \* the store that the configuration has chosen
  plan,       \* how many messages each sender is going to send
  sender,     \* each sender's message under way, and the numbers it was told were sent
  mail,       \* the message rows of the workflow and topic, in the order of their arrival
  life,       \* what became of each execution
  at,         \* the call each execution has reached
  held,       \* the message row it has listed, or the message it has received
  offset,     \* the length of the stream it has read
  received,   \* the messages each execution was given
  stream,     \* the entries of the stream
  event,      \* the value of the event
  waiter,     \* what get_event was answered
  reader,     \* whether the subscription is open, and the values it has delivered
  adrift,     \* puts whose connection is lost and that may still be applied
  overlapped, \* history: two executions have been running at the same time
  late,       \* history: a put to the stream was applied late
  stepped,    \* history: senders whose clock has not moved on between two messages
  resent,     \* history: messages that were put again after an answer was lost, or late
  spoiled,    \* history: messages marked but not received, or hit by an equal stamp
  budget

tables == <<mail, stream, event>>
workerVars == <<life, at, held, offset, received>>
histories == <<overlapped, late, stepped, resent, spoiled>>
vars == <<backend, plan, sender, tables, workerVars, waiter, reader, adrift, histories, budget>>
-----------------------------------------------------------------------------
Messages == UNION {[from : {s}, number : 1..p[s]] : s \in Senders, p \in Plans}
Mail == [of : Messages, stamp : Time, consumed : BOOLEAN]
NoMessage == [from |-> None, number |-> 0]
NoMail == [of |-> NoMessage, stamp |-> 0, consumed |-> FALSE]
Entry == [by : Executions, value : Messages \cup {NoMessage}, closed : BOOLEAN]
Puts == {"send", "consume", "write", "event", "close"}

Message(s) == [from |-> s, number |-> sender[s].number]

Init ==
  /\ backend \in Backends
  /\ plan \in Plans
  /\ sender = [s \in Senders |-> [number |-> 1, stamp |-> None, last |-> 0, told |-> {}]]
  /\ mail = <<>>
  /\ life = [e \in Executions |-> "unborn"]
  /\ at = [e \in Executions |-> "recv"]
  /\ held = [e \in Executions |-> NoMail]
  /\ offset = [e \in Executions |-> 0]
  /\ received = [e \in Executions |-> <<>>]
  /\ stream = <<>>
  /\ event = NoMessage
  /\ waiter = IF plan \in Followed THEN "asking" ELSE "absent"
  /\ reader = [open |-> plan \in Followed, sent |-> <<>>]
  /\ adrift = {}
  /\ overlapped = FALSE
  /\ late = FALSE
  /\ stepped = {}
  /\ resent = {}
  /\ spoiled = {}
  /\ budget = Budget

Spend(kind) == budget[kind] > 0 /\ budget' = [budget EXCEPT ![kind] = @ - 1]

\* A statement of a SQL store fails; the memory store does not.
Fault == backend = "sql" /\ Spend("fault")

\* A value cannot be encoded or decoded.
Unfit == Spend("codec")
-----------------------------------------------------------------------------
(* Rows of the store.                                                      *)

Keyed(row) == {i \in 1..Len(mail) : mail[i].stamp = row.stamp}

\* The key of a message row in a SQL store is its stamp: put replaces the row that has
\* the same one.  The memory store keeps every message.
PutMail(row) ==
  mail' = IF backend = "memory" \/ Keyed(row) = {}
          THEN Append(mail, row)
          ELSE [i \in 1..Len(mail) |-> IF i \in Keyed(row) THEN row ELSE mail[i]]

\* The messages that an upsert of row takes away, other than its own.
Replaced(row) ==
  IF backend = "memory" THEN {} ELSE {mail[i].of : i \in Keyed(row)} \ {row.of}

Unconsumed == {i \in 1..Len(mail) : ~mail[i].consumed}

First_Any(i) == i \in Unconsumed

\* The memory store finds the first message that arrived, a SQL store the oldest stamp.
First(i) ==
  \A j \in Unconsumed : IF backend = "memory" THEN i <= j ELSE mail[i].stamp <= mail[j].stamp

\* The memory store pushes an entry whatever its offset; a SQL store upserts by offset.
PutEntry(o, entry) ==
  stream' = IF backend = "memory" \/ o = Len(stream)
            THEN Append(stream, entry)
            ELSE [stream EXCEPT ![o + 1] = entry]

\* What a put w that is made at w.at does to the tables.
Put(w) ==
  \/ w.at \in {"send", "consume"} /\ PutMail(w.held) /\ UNCHANGED <<stream, event>>
  \/ /\ w.at \in {"write", "close"}
     /\ PutEntry(w.offset, [by |-> w.by, closed |-> w.at = "close",
                            value |-> IF w.at = "close" THEN NoMessage ELSE w.held.of])
     /\ UNCHANGED <<mail, event>>
  \/ w.at = "event" /\ event' = w.held.of /\ UNCHANGED <<mail, stream>>

\* The messages that put w may take away if its caller does not know that it was applied.
Risked(w) ==
  (IF w.at \in {"send", "consume"} THEN Replaced(w.held) ELSE {})
    \cup (IF w.at = "consume" THEN {w.held.of} ELSE {})

\* The answer is lost: the put was applied, or never will be, or may be yet.
Lost(w) ==
  /\ Fault
  /\ \/ Put(w) /\ spoiled' = spoiled \cup Risked(w) /\ UNCHANGED adrift
     \/ UNCHANGED <<tables, spoiled, adrift>>
     \/ UNCHANGED <<tables, spoiled>> /\ adrift' = adrift \cup {w}

Land(w) ==
  /\ w \in adrift
  /\ Put(w)
  /\ spoiled' = spoiled \cup Risked(w)
  /\ resent' = IF w.at = "send" THEN resent \cup {w.held.of} ELSE resent
  /\ late' = (late \/ w.at \in {"write", "close"})
  /\ adrift' = adrift \ {w}
  /\ UNCHANGED <<backend, plan, sender, workerVars, waiter, reader, overlapped, stepped, budget>>
-----------------------------------------------------------------------------
(* send                                                                    *)

\* created_at is read from the wall clock before the store is called: one sender's stamps
\* can be equal or go back, as those of two senders can.
Stamp(s) ==
  /\ sender[s].number <= plan[s]
  /\ sender[s].stamp = None
  /\ \E t \in Time :
       /\ sender' = [sender EXCEPT ![s].stamp = t, ![s].last = t]
       /\ stepped' = IF t <= sender[s].last THEN stepped \cup {s} ELSE stepped
  /\ UNCHANGED <<backend, plan, tables, workerVars, waiter, reader, adrift, overlapped, late,
                 resent, spoiled, budget>>

Sending(s) ==
  [by |-> s, at |-> "send", offset |-> 0,
   held |-> [of |-> Message(s), stamp |-> sender[s].stamp, consumed |-> FALSE]]

SendMessage(s) ==
  /\ sender[s].stamp # None
  /\ Put(Sending(s))
  /\ spoiled' = spoiled \cup Replaced(Sending(s).held)
  /\ sender' = [sender EXCEPT ![s].number = @ + 1, ![s].stamp = None,
                              ![s].told = @ \cup {sender[s].number}]
  /\ UNCHANGED <<backend, plan, workerVars, waiter, reader, adrift, overlapped, late, stepped,
                 resent, budget>>

\* put is at its first try, and sends the row again as it was: not consumed.
SendAgain(s) ==
  /\ sender[s].stamp # None
  /\ Lost(Sending(s))
  /\ resent' = resent \cup {Message(s)}
  /\ UNCHANGED <<backend, plan, sender, workerVars, waiter, reader, overlapped, late, stepped>>

Refused_Told(s) ==
  sender' = [sender EXCEPT ![s].number = @ + 1, ![s].stamp = None,
                           ![s].told = @ \cup {sender[s].number}]
Refused(s) == sender' = [sender EXCEPT ![s].number = @ + 1, ![s].stamp = None]

\* The sender is answered an error, whether the row is written or not,
SendFails(s) ==
  /\ sender[s].stamp # None
  /\ Lost(Sending(s))
  /\ Refused(s)
  /\ UNCHANGED <<backend, plan, workerVars, waiter, reader, overlapped, late, stepped, resent>>

\* or because its message cannot be encoded.
EncodeFails(s) ==
  /\ sender[s].number <= plan[s]
  /\ sender[s].stamp = None
  /\ Unfit
  /\ Refused(s)
  /\ UNCHANGED <<backend, plan, tables, workerVars, waiter, reader, adrift, histories>>
-----------------------------------------------------------------------------
(* recv                                                                    *)

Running(e) == life[e] = "running"
At(e, call) == Running(e) /\ at[e] = call

\* The handler is executed from its beginning: by a recovery, or by a resume after its end.
Begin(e) ==
  /\ life[e] = "unborn"
  /\ \A f \in Executions : f < e => life[f] # "unborn" /\ (Running(f) => plan \in Overlap)
  /\ life' = [life EXCEPT ![e] = "running"]
  /\ overlapped' = (overlapped \/ \E f \in Executions : Running(f))
  /\ UNCHANGED <<backend, plan, sender, tables, at, held, offset, received, waiter, reader, adrift,
                 late, stepped, resent, spoiled, budget>>

Given(e, m) ==
  /\ received' = [received EXCEPT ![e] = Append(@, m)]
  /\ at' = [at EXCEPT ![e] = "length"]

\* The message is marked, but recv cannot decode it and returns the error.
Undecodable(e, m) ==
  /\ Unfit
  /\ life' = [life EXCEPT ![e] = "failed"]
  /\ UNCHANGED <<at, received>>

\* The memory store marks and returns a message in one step.
Receive(e) ==
  /\ backend = "memory"
  /\ At(e, "recv")
  /\ \E i \in Unconsumed :
       /\ First(i)
       /\ mail' = [mail EXCEPT ![i].consumed = TRUE]
       /\ held' = [held EXCEPT ![e] = mail[i]]
       /\ \/ Given(e, mail[i].of) /\ UNCHANGED <<life, spoiled, budget>>
          \/ Undecodable(e, mail[i].of) /\ spoiled' = spoiled \cup {mail[i].of}
  /\ UNCHANGED <<backend, plan, sender, offset, stream, event, waiter, reader, adrift, overlapped,
                 late, stepped, resent>>

\* A SQL store lists the messages,
ListMessages(e) ==
  /\ backend = "sql"
  /\ At(e, "recv")
  /\ \E i \in Unconsumed :
       /\ First(i)
       /\ held' = [held EXCEPT ![e] = mail[i]]
  /\ at' = [at EXCEPT ![e] = "consume"]
  /\ UNCHANGED <<backend, plan, sender, tables, life, offset, received, waiter, reader, adrift,
                 histories, budget>>

Consumed_Unmarked(e) == held[e]
Consumed(e) == [held[e] EXCEPT !.consumed = TRUE]

\* The put that execution e has come to.
Writing(e) ==
  [by |-> e, at |-> at[e], offset |-> offset[e],
   held |-> IF at[e] = "consume" THEN Consumed(e) ELSE held[e]]

\* and puts the one it has chosen, marked.
Consume(e) ==
  /\ At(e, "consume")
  /\ Put(Writing(e))
  /\ \/ /\ Given(e, held[e].of)
        /\ spoiled' = spoiled \cup Replaced(Consumed(e))
        /\ UNCHANGED <<life, budget>>
     \/ Undecodable(e, held[e].of) /\ spoiled' = spoiled \cup Risked(Writing(e))
  /\ UNCHANGED <<backend, plan, sender, held, offset, waiter, reader, adrift, overlapped, late,
                 stepped, resent>>

\* A transient error makes recv poll again, until its deadline; any other one is returned.
Retried(e) == at' = [at EXCEPT ![e] = "recv"] /\ UNCHANGED life
ReceiveFails(e) == life' = [life EXCEPT ![e] = "failed"] /\ UNCHANGED at

\* The put is sent again, or fails.
ConsumeFails(e) ==
  /\ At(e, "consume")
  /\ Lost(Writing(e))
  /\ UNCHANGED <<at, life>> \/ Retried(e) \/ ReceiveFails(e)
  /\ UNCHANGED <<backend, plan, sender, held, offset, received, waiter, reader, overlapped, late,
                 stepped, resent>>

\* The deadline is looked at after a poll that has found nothing, or has failed.
TimeOut(e) ==
  /\ At(e, "recv")
  /\ \/ Unconsumed = {} /\ UNCHANGED budget
     \/ Fault
  /\ ReceiveFails(e)
  /\ UNCHANGED <<backend, plan, sender, tables, held, offset, received, waiter, reader, adrift,
                 histories>>
-----------------------------------------------------------------------------
(* write_stream, set_event, close_stream                                   *)

Length_LastOffset == IF stream = <<>> THEN 0 ELSE Len(stream) - 1
Length_Signed == Len(stream) - 1
Length == Len(stream)

\* The offset of an entry is the length of the stream that was read.
ReadLength(e) ==
  /\ Running(e)
  /\ \/ at[e] = "length" /\ at' = [at EXCEPT ![e] = "write"]
     \/ at[e] = "end" /\ backend = "sql" /\ at' = [at EXCEPT ![e] = "close"]
  /\ offset' = [offset EXCEPT ![e] = Length]
  /\ UNCHANGED <<backend, plan, sender, tables, life, held, received, waiter, reader, adrift,
                 histories, budget>>

AfterWrite(e) == IF Len(received[e]) < Wanted THEN "recv" ELSE "event"

WriteStream(e) ==
  /\ At(e, "write")
  /\ Put(Writing(e))
  /\ at' = [at EXCEPT ![e] = AfterWrite(e)]
  /\ UNCHANGED <<backend, plan, sender, life, held, offset, received, waiter, reader, adrift,
                 histories, budget>>

SetEvent(e) ==
  /\ At(e, "event")
  /\ Put(Writing(e))
  /\ at' = [at EXCEPT ![e] = "end"]
  /\ UNCHANGED <<backend, plan, sender, life, held, offset, received, waiter, reader, adrift,
                 histories, budget>>

\* The memory store reads the length and pushes the entry in one step.
CloseStream(e) ==
  /\ At(e, "close") \/ (At(e, "end") /\ backend = "memory")
  /\ Put([Writing(e) EXCEPT !.at = "close"])
  /\ life' = [life EXCEPT ![e] = "done"]
  /\ UNCHANGED <<backend, plan, sender, at, held, offset, received, waiter, reader, adrift,
                 histories, budget>>

\* A put of the handler loses its answer: it is sent again, or the handler returns the error.
PutFails(e) ==
  /\ Running(e)
  /\ at[e] \in {"write", "event", "close"}
  /\ Lost(Writing(e))
  /\ UNCHANGED life \/ life' = [life EXCEPT ![e] = "failed"]
  /\ UNCHANGED <<backend, plan, sender, at, held, offset, received, waiter, reader, overlapped,
                 late, stepped, resent>>

\* So it does if the length cannot be read, or a value cannot be encoded.
HandlerFails(e) ==
  /\ Running(e)
  /\ \/ at[e] \in {"length", "end"} /\ Fault
     \/ at[e] \in {"write", "event"} /\ Unfit
  /\ life' = [life EXCEPT ![e] = "failed"]
  /\ UNCHANGED <<backend, plan, sender, tables, at, held, offset, received, waiter, reader, adrift,
                 histories>>

\* The process of an execution dies: the message it holds may be marked already, and the
\* put that it has sent may still be applied.  A memory store would die with it.
Crash(e) ==
  /\ backend = "sql"
  /\ Running(e)
  /\ Spend("crash")
  /\ life' = [life EXCEPT ![e] = "crashed"]
  /\ UNCHANGED adrift \/ (at[e] \in Puts /\ adrift' = adrift \cup {Writing(e)})
  /\ UNCHANGED <<backend, plan, sender, tables, at, held, offset, received, waiter, reader,
                 histories>>
-----------------------------------------------------------------------------
(* get_event and read_stream_async                                         *)

\* The application asks for the event while the workflow finishes, or afterwards.
Finishing == \E e \in Executions : Len(received[e]) = Wanted
Answered == \E e \in Executions : life[e] = "done"

GetEvent ==
  /\ waiter = "asking"
  /\ Finishing
  /\ event # NoMessage
  /\ \/ waiter' = "answered" /\ UNCHANGED budget
     \/ waiter' = "failed" /\ Unfit
  /\ UNCHANGED <<backend, plan, sender, tables, workerVars, reader, adrift, histories>>

GetEventTimesOut_First ==
  /\ waiter = "asking"
  /\ Finishing
  /\ waiter' = IF Answered THEN "timeout" ELSE "early"
  /\ UNCHANGED <<backend, plan, sender, tables, workerVars, reader, adrift, histories, budget>>

\* The deadline is looked at after a poll that has found nothing, or has failed.
GetEventTimesOut ==
  /\ waiter = "asking"
  /\ Finishing
  /\ \/ event = NoMessage /\ UNCHANGED budget
     \/ Fault
  /\ waiter' = IF Answered THEN "timeout" ELSE "early"
  /\ UNCHANGED <<backend, plan, sender, tables, workerVars, reader, adrift, histories>>

\* The entries that carry a value, in the order of the stream.
Carrying(entries) == {i \in 1..Len(entries) : ~entries[i].closed}
Rank(places, i) == Cardinality({j \in places : j <= i})
Values(entries) ==
  [n \in 1..Cardinality(Carrying(entries)) |->
    entries[CHOOSE i \in Carrying(entries) : Rank(Carrying(entries), i) = n]]
Closed == \E i \in 1..Len(stream) : stream[i].closed

Undelivered_All(values) == values

\* The values that the subscription has not delivered yet: it counts, and skips.
Undelivered(values) == SubSeq(values, Len(reader.sent) + 1, Len(values))

\* One poll of the subscription, which ends once it has delivered what a closed stream has.
PollStream ==
  LET values == Values(stream) IN
  /\ reader.open
  /\ reader' = [open |-> ~Closed, sent |-> reader.sent \o Undelivered(values)]
  /\ UNCHANGED <<backend, plan, sender, tables, workerVars, waiter, adrift, histories, budget>>

\* Any error ends it: of the store, or of a value that cannot be decoded.
PollStreamFails ==
  /\ reader.open
  /\ Fault \/ (Carrying(stream) # {} /\ Unfit)
  /\ reader' = [reader EXCEPT !.open = FALSE]
  /\ UNCHANGED <<backend, plan, sender, tables, workerVars, waiter, adrift, histories>>
-----------------------------------------------------------------------------
Next ==
  \/ \E s \in Senders :
       Stamp(s) \/ SendMessage(s) \/ SendAgain(s) \/ SendFails(s) \/ EncodeFails(s)
  \/ \E e \in Executions :
       \/ Begin(e) \/ Receive(e) \/ ListMessages(e) \/ Consume(e) \/ ConsumeFails(e)
       \/ TimeOut(e) \/ ReadLength(e) \/ WriteStream(e) \/ SetEvent(e) \/ CloseStream(e)
       \/ PutFails(e) \/ HandlerFails(e) \/ Crash(e)
  \/ \E w \in adrift : Land(w)
  \/ GetEvent \/ GetEventTimesOut \/ PollStream \/ PollStreamFails

Spec == Init /\ [][Next]_vars

-----------------------------------------------------------------------------
Sender == [number : Nat, stamp : Time \cup {None}, last : 0..MaxTime, told : SUBSET Nat]
PutCall == [by : Executions \cup Senders, at : Puts, offset : Nat, held : Mail \cup {NoMail}]

TypeOK ==
  /\ backend \in Backends
  /\ plan \in Plans
  /\ sender \in [Senders -> Sender]
  /\ mail \in Seq(Mail)
  /\ life \in [Executions -> {"unborn", "running", "done", "failed", "crashed"}]
  /\ at \in [Executions -> {"recv", "length", "end"} \cup Puts]
  /\ held \in [Executions -> Mail \cup {NoMail}]
  /\ offset \in [Executions -> Nat]
  /\ received \in [Executions -> Seq(Messages)]
  /\ stream \in Seq(Entry)
  /\ event \in Messages \cup {NoMessage}
  /\ waiter \in {"absent", "asking", "answered", "failed", "early", "timeout"}
  /\ reader \in [open : BOOLEAN, sent : Seq(Entry)]
  /\ adrift \subseteq PutCall
  /\ overlapped \in BOOLEAN
  /\ late \in BOOLEAN
  /\ stepped \subseteq Senders
  /\ resent \subseteq Messages
  /\ spoiled \subseteq Messages
  /\ budget \in [{"crash", "fault", "codec"} -> Nat]

\* The executions m was given to, and as which of their messages.
Handed(m) ==
  {h \in Executions \X (1..Wanted) :
    h[2] <= Len(received[h[1]]) /\ received[h[1]][h[2]] = m}

\* No message is received twice, by one execution or by two, although a SQL store lists
\* and marks it in two statements: that takes two calls of recv at the same time, as of two
\* executions that overlap, or a put of send that is sent again, or applied late.
ReceivedOnce ==
  backend = "memory" \/ ~overlapped =>
    \A m \in Messages \ resent : Cardinality(Handed(m)) <= 1

\* What one sender has sent is received in that order, by whatever execution, as long as
\* its clock moves on, which only a SQL store minds: a message that was sent again, or late,
\* may come after a later one, or once more.
SenderOrder ==
  \A e \in Executions : \A i, j \in 1..Len(received[e]) :
    LET m == received[e][i]
        n == received[e][j]
    IN  i < j /\ m.from = n.from /\ (backend = "memory" \/ m.from \notin stepped)
          => m.number < n.number \/ n \in resent

Stored(m) == \E i \in Unconsumed : mail[i].of = m

\* A message that was sent waits until it is received.  Only a call of recv that fails
\* after it has marked the message, and two messages of one stamp, can lose it.
NotLost ==
  \A s \in Senders : \A n \in sender[s].told :
    LET m == [from |-> s, number |-> n] IN Stored(m) \/ Handed(m) # {} \/ m \in spoiled

Written(e) == {i \in Carrying(stream) : stream[i].by = e}

\* The stream has what each execution received, in that order, none left out and none
\* twice; entries are never replaced while one execution writes at a time, and none of its
\* writes is applied late.
StreamAgrees ==
  backend = "memory" \/ (~overlapped /\ ~late) =>
    \A e \in Executions : \A i \in Written(e) :
      LET n == Rank(Written(e), i)
      IN  n <= Len(received[e]) /\ stream[i].value = received[e][n]

\* A subscription delivers every value once, in the order of the stream: what it counted
\* and skipped is what it has delivered.
ReaderPrefix ==
  backend = "memory" \/ (~overlapped /\ ~late) => IsPrefix(reader.sent, Values(stream))

\* Who asks for the event of a workflow that is done gets it, unless a poll fails.
EventAnswered == waiter = "timeout" => budget["fault"] < Budget["fault"]
=============================================================================
