-------------------------- MODULE Communication_proofs --------------------------
(***************************************************************************)
(* Theorems about Communication: its messages, its event, its stream and   *)
(* the subscription to it, for any number of senders, messages, executions, *)
(* crashes, failing store calls and puts that are sent again or applied     *)
(* late.                                                                   *)
(***************************************************************************)
EXTENDS Communication, FiniteSetTheorems, SequenceTheorems, TLAPS

Lives == {"unborn", "running", "done", "failed", "crashed"}
Calls == {"recv", "consume", "length", "write", "event", "end", "close"}
Kinds == {"crash", "fault", "codec"}

\* The types of the variables that messages and the event depend on.
MailTypes ==
  /\ backend \in {"memory", "sql"} /\ plan \in Plans
  /\ sender \in [Senders -> Sender]
  /\ mail \in Seq(Mail)
  /\ life \in [Executions -> Lives]
  /\ at \in [Executions -> Calls]
  /\ held \in [Executions -> Mail \cup {NoMail}]
  /\ received \in [Executions -> Seq(Messages)]
  /\ stepped \subseteq Senders /\ resent \subseteq Messages
  /\ budget \in [Kinds -> Nat]

\* What an execution has done by the call it has reached.
Progress ==
  \A e \in Executions :
    /\ life[e] = "unborn" => at[e] = "recv"
    /\ at[e] # "recv" => held[e] # NoMail
    /\ at[e] = "consume" => backend = "sql"
    /\ Len(received[e]) <= Wanted
    /\ at[e] \in {"recv", "consume"} => Len(received[e]) < Wanted
    /\ at[e] \in {"end", "close"} \/ life[e] = "done" => event # NoMessage

\* A message under way is one the sender was going to send, with the stamp it read last.
Sound ==
  \A s \in Senders :
    /\ sender[s].number >= 1
    /\ sender[s].stamp # None => sender[s].number <= plan[s] /\ sender[s].last = sender[s].stamp

\* A put that may still be applied has the row it was sent with, which is marked if recv
\* has chosen it.
Whole(w) ==
  /\ w.at \in {"send", "consume", "event"} => w.held \in Mail
  /\ w.at = "consume" => w.held.consumed
  /\ w.at = "send" => ~w.held.consumed

\* The memory store loses nothing.
Adrift ==
  /\ \A w \in adrift : Whole(w)
  /\ backend = "memory" => adrift = {} /\ resent = {}

Typed == MailTypes /\ Progress /\ Sound /\ Adrift
-----------------------------------------------------------------------------
(* Types.                                                                  *)

\* What a message is made of.
LEMMA MessageFacts ==
  /\ \A m \in Messages : /\ m.from \in Senders /\ m.number \in Nat /\ m.number >= 1
                         /\ m = [from |-> m.from, number |-> m.number] /\ m # NoMessage
  /\ \A s \in Senders, p \in Plans : \A n \in 1..p[s] : [from |-> s, number |-> n] \in Messages
  /\ NoMail \notin Mail
<1>1. ASSUME NEW m \in Messages
      PROVE  /\ m.from \in Senders /\ m.number \in Nat /\ m.number >= 1
             /\ m = [from |-> m.from, number |-> m.number] /\ m # NoMessage
  <2> DEFINE From(s, p) == [from : {s}, number : 1..p[s]]
  <2>1. Messages = UNION {From(s, p) : s \in Senders, p \in Plans}
    BY DEF Messages
  <2> HIDE DEF From
  <2>2. PICK s \in Senders, p \in Plans : m \in From(s, p)
    BY <2>1
  <2>3. m \in [from : {s}, number : 1..p[s]]
    BY <2>2 DEF From
  <2>4. p[s] \in Nat
    BY CommunicationAssumption
  <2>5. m.number \in 1..p[s] /\ m.from = s /\ m = [from |-> m.from, number |-> m.number]
    BY <2>3
  <2>6. QED
    BY <2>4, <2>5 DEF NoMessage
<1>2. \A s \in Senders, p \in Plans : \A n \in 1..p[s] : [from |-> s, number |-> n] \in Messages
  <2> DEFINE From(s, p) == [from : {s}, number : 1..p[s]]
  <2>1. SUFFICES ASSUME NEW s \in Senders, NEW p \in Plans, NEW n \in 1..p[s]
                 PROVE  [from |-> s, number |-> n] \in Messages
    OBVIOUS
  <2>2. [from |-> s, number |-> n] \in From(s, p)
    OBVIOUS
  <2>3. Messages = UNION {From(t, q) : t \in Senders, q \in Plans}
    BY DEF Messages
  <2> HIDE DEF From
  <2>4. QED
    BY <2>2, <2>3
<1>3. NoMail \notin Mail
  <2>1. NoMessage \notin Messages
    BY <1>1
  <2>2. QED
    BY <2>1 DEF NoMail, Mail
<1>4. QED
  BY <1>1, <1>2, <1>3

\* What a row is made of.
LEMMA RowFacts ==
  \A row \in Mail : /\ row.of \in Messages /\ row.stamp \in Time /\ row.stamp \in Nat
                    /\ row.consumed \in BOOLEAN
BY CommunicationAssumption DEF Mail, Time

\* The row being sent, and a row that is held.
LEMMA OwnRows ==
  ASSUME Typed
  PROVE  /\ \A s \in Senders : sender[s].stamp # None =>
              /\ Sending(s).held \in Mail /\ Sending(s).held.of = Message(s)
              /\ ~Sending(s).held.consumed
              /\ Sending(s).held.stamp = sender[s].stamp
              /\ Message(s).from = s /\ Message(s).number = sender[s].number
              /\ Message(s) \in Messages
         /\ \A e \in Executions : at[e] # "recv" =>
              /\ held[e] \in Mail
              /\ Consumed(e) \in Mail /\ Consumed(e).of = held[e].of
              /\ Consumed(e).stamp = held[e].stamp /\ Consumed(e).consumed
<1>1. ASSUME NEW s \in Senders, sender[s].stamp # None
      PROVE  /\ Sending(s).held \in Mail /\ Sending(s).held.of = Message(s)
             /\ ~Sending(s).held.consumed
             /\ Sending(s).held.stamp = sender[s].stamp
             /\ Message(s).from = s /\ Message(s).number = sender[s].number
             /\ Message(s) \in Messages
  <2>1. /\ plan \in Plans /\ plan[s] \in Nat /\ sender[s].number \in Nat
        /\ sender[s].number >= 1 /\ sender[s].number <= plan[s] /\ sender[s].stamp \in Time
    BY <1>1, CommunicationAssumption DEF Typed, MailTypes, Sound, Sender
  <2>2. Message(s) \in Messages
    BY <2>1, MessageFacts DEF Message
  <2>3. QED
    BY <2>1, <2>2 DEF Sending, Message, Mail
<1>2. ASSUME NEW e \in Executions, at[e] # "recv"
      PROVE  /\ held[e] \in Mail
             /\ Consumed(e) \in Mail /\ Consumed(e).of = held[e].of
             /\ Consumed(e).stamp = held[e].stamp /\ Consumed(e).consumed
  <2>1. held[e] \in Mail
    BY <1>2 DEF Typed, MailTypes, Progress
  <2>2. QED
    BY <2>1 DEF Consumed, Mail
<1>3. QED
  BY <1>1, <1>2

\* What puts do to the tables, and what they risk.
LEMMA PutCases ==
  /\ \A s \in Senders :
       /\ Put(Sending(s)) => PutMail(Sending(s).held) /\ UNCHANGED <<stream, event>>
       /\ Risked(Sending(s)) = Replaced(Sending(s).held)
       /\ Sending(s).at = "send"
  /\ \A e \in Executions : at[e] = "consume" =>
       /\ Put(Writing(e)) => PutMail(Consumed(e)) /\ UNCHANGED <<stream, event>>
       /\ Risked(Writing(e)) = Replaced(Consumed(e)) \cup {Consumed(e).of}
       /\ Writing(e).at = "consume" /\ Writing(e).held = Consumed(e)
  /\ \A e \in Executions : at[e] \in {"write", "event", "close"} =>
       /\ Put(Writing(e)) => mail' = mail
       /\ Put(Writing(e)) /\ at[e] \in {"write", "close"} => event' = event
       /\ Put(Writing(e)) /\ at[e] = "event" => event' = held[e].of /\ stream' = stream
       /\ Risked(Writing(e)) = {}
       /\ Writing(e).at = at[e] /\ Writing(e).held = held[e]
<1>1. ASSUME NEW s \in Senders
      PROVE  /\ Put(Sending(s)) => PutMail(Sending(s).held) /\ UNCHANGED <<stream, event>>
             /\ Risked(Sending(s)) = Replaced(Sending(s).held)
             /\ Sending(s).at = "send"
  <2>1. Sending(s).at = "send"
    BY DEF Sending
  <2>2. QED
    BY <2>1 DEF Put, Risked
<1>2. ASSUME NEW e \in Executions, at[e] = "consume"
      PROVE  /\ Put(Writing(e)) => PutMail(Consumed(e)) /\ UNCHANGED <<stream, event>>
             /\ Risked(Writing(e)) = Replaced(Consumed(e)) \cup {Consumed(e).of}
             /\ Writing(e).at = "consume" /\ Writing(e).held = Consumed(e)
  <2>1. Writing(e).at = "consume" /\ Writing(e).held = Consumed(e)
    BY <1>2 DEF Writing
  <2>2. QED
    BY <2>1 DEF Put, Risked
<1>3. ASSUME NEW e \in Executions, at[e] \in {"write", "event", "close"}
      PROVE  /\ Put(Writing(e)) => mail' = mail
             /\ Put(Writing(e)) /\ at[e] \in {"write", "close"} => event' = event
             /\ Put(Writing(e)) /\ at[e] = "event" => event' = held[e].of /\ stream' = stream
             /\ Risked(Writing(e)) = {}
             /\ Writing(e).at = at[e] /\ Writing(e).held = held[e]
  <2>1. Writing(e).at = at[e] /\ Writing(e).held = held[e]
    BY <1>3 DEF Writing
  <2>2. QED
    BY <1>3, <2>1 DEF Put, Risked
<1>4. QED
  BY <1>1, <1>2, <1>3

\* What becomes of a put whose answer is lost.
LEMMA LostFacts ==
  ASSUME NEW w, Lost(w)
  PROVE  /\ backend = "sql" /\ Spend("fault")
         /\ \/ Put(w) /\ spoiled' = spoiled \cup Risked(w) /\ adrift' = adrift
            \/ /\ UNCHANGED <<mail, stream, event, spoiled>>
               /\ adrift' = adrift \/ adrift' = adrift \cup {w}
BY DEF Lost, Fault, tables

\* Kinds of calls that fail are paid for.
LEMMA SpendFacts ==
  ASSUME budget \in [Kinds -> Nat], NEW kind \in Kinds, Spend(kind)
  PROVE  budget' \in [Kinds -> Nat]
BY DEF Spend

Distinct == \A i, j \in 1..Len(mail) : mail[i].stamp = mail[j].stamp => i = j

\* What a put does to the rows.
LEMMA PutFacts ==
  ASSUME mail \in Seq(Mail), backend \in {"memory", "sql"}, NEW row \in Mail, PutMail(row)
  PROVE  /\ mail' \in Seq(Mail) /\ Len(mail') \in Nat /\ Len(mail) \in Nat
         /\ \A k \in 1..Len(mail') :
              \/ mail'[k] = row
              \/ /\ k \in 1..Len(mail) /\ mail'[k] = mail[k]
                 /\ backend = "sql" => mail[k].stamp # row.stamp
         /\ \A k \in 1..Len(mail) :
              /\ k \in 1..Len(mail')
              /\ mail'[k] = mail[k]
                 \/ (backend = "sql" /\ mail[k].stamp = row.stamp /\ mail'[k] = row)
         /\ \E k \in 1..Len(mail') : mail'[k] = row
         /\ backend = "memory" => mail' = Append(mail, row)
         /\ backend = "sql" /\ Distinct => Distinct'
<1>1. Len(mail) \in Nat /\ \A k \in 1..Len(mail) : mail[k] \in Mail
  BY ElementOfSeq, LenProperties
<1>2. CASE backend = "memory" \/ Keyed(row) = {}
  <2>1. mail' = Append(mail, row)
    BY <1>2 DEF PutMail
  <2>2. /\ mail' \in Seq(Mail) /\ Len(mail') = Len(mail) + 1
        /\ \A k \in 1..Len(mail) : mail'[k] = mail[k]
        /\ mail'[Len(mail) + 1] = row
    BY <2>1, AppendProperties
  <2>3. backend = "sql" => \A k \in 1..Len(mail) : mail[k].stamp # row.stamp
    BY <1>2 DEF Keyed
  <2>4. \A k \in 1..Len(mail') : k \in 1..Len(mail) \/ k = Len(mail) + 1
    BY <1>1, <2>2
  <2>5. Len(mail) + 1 \in 1..Len(mail') /\ \A k \in 1..Len(mail) : k \in 1..Len(mail')
    BY <1>1, <2>2
  <2>6. backend = "sql" /\ Distinct => Distinct'
    BY <2>2, <2>3, <2>4 DEF Distinct
  <2>7. QED
    BY <1>1, <2>1, <2>2, <2>3, <2>4, <2>5, <2>6
<1>3. CASE backend = "sql" /\ Keyed(row) # {}
  <2>1. mail' = [i \in 1..Len(mail) |-> IF i \in Keyed(row) THEN row ELSE mail[i]]
    BY <1>3 DEF PutMail
  <2>2. mail' \in [1..Len(mail) -> Mail]
    BY <1>1, <2>1
  <2>3. mail' \in Seq(Mail)
    BY <1>1, <2>2, IsASeq
  <2>4. Len(mail') = Len(mail)
    <3>1. DOMAIN mail' = 1..Len(mail) /\ DOMAIN mail' = 1..Len(mail') /\ Len(mail') \in Nat
      BY <2>2, <2>3, LenProperties
    <3>2. QED
      BY <1>1, <3>1
  <2>5. \A k \in 1..Len(mail) :
          mail'[k] = IF mail[k].stamp = row.stamp THEN row ELSE mail[k]
    BY <2>1 DEF Keyed
  <2>6. PICK k \in 1..Len(mail) : mail[k].stamp = row.stamp
    BY <1>3 DEF Keyed
  <2>7. mail'[k] = row
    BY <2>5, <2>6
  <2>8. Distinct => Distinct'
    BY <2>4, <2>5 DEF Distinct
  <2>9. QED
    BY <1>1, <1>3, <2>3, <2>4, <2>5, <2>7, <2>8
<1>4. QED
  BY <1>2, <1>3

\* What is given to an execution.
LEMMA GivenFacts ==
  ASSUME received \in [Executions -> Seq(Messages)], NEW e \in Executions, NEW m \in Messages,
         Given(e, m)
  PROVE  /\ received' \in [Executions -> Seq(Messages)]
         /\ \A f \in Executions : f # e => received'[f] = received[f]
         /\ Len(received[e]) \in Nat /\ Len(received'[e]) = Len(received[e]) + 1
         /\ \A i \in 1..Len(received[e]) : received'[e][i] = received[e][i]
         /\ received'[e][Len(received[e]) + 1] = m
         /\ \A i \in 1..Len(received'[e]) : i \in 1..Len(received[e]) \/ i = Len(received[e]) + 1
<1>1. received' = [received EXCEPT ![e] = Append(received[e], m)] /\ received[e] \in Seq(Messages)
  BY DEF Given
<1>2. /\ Append(received[e], m) \in Seq(Messages)
      /\ Len(Append(received[e], m)) = Len(received[e]) + 1 /\ Len(received[e]) \in Nat
      /\ \A i \in 1..Len(received[e]) : Append(received[e], m)[i] = received[e][i]
      /\ Append(received[e], m)[Len(received[e]) + 1] = m
  BY <1>1, AppendProperties, LenProperties
<1>3. received'[e] = Append(received[e], m) /\ \A f \in Executions : f # e => received'[f] = received[f]
  BY <1>1
<1>4. received' \in [Executions -> Seq(Messages)]
  BY <1>1, <1>2
<1>5. QED
  BY <1>2, <1>3, <1>4

\* Nothing is stored or running at the beginning.
LEMMA InitTyped == Init => Typed
<1> SUFFICES ASSUME Init PROVE Typed
  OBVIOUS
<1>1. MailTypes
  BY CommunicationAssumption DEF Init, MailTypes, Time, Sender, Lives, Calls, Kinds
<1>2. Progress
  BY CommunicationAssumption DEF Init, Progress
<1>3. Sound /\ Adrift
  BY DEF Init, Sound, Adrift
<1>4. QED
  BY <1>1, <1>2, <1>3 DEF Typed

\* The calls of a sender, and what they leave alone.
SenderStep(s) ==
  Stamp(s) \/ SendMessage(s) \/ SendAgain(s) \/ SendFails(s) \/ EncodeFails(s)

\* A sender's message is put, or not, or may be yet.
LEMMA SenderPuts ==
  ASSUME Typed, NEW s \in Senders, SenderStep(s)
  PROVE  /\ UNCHANGED <<backend, plan, life, at, held, offset, received, waiter, reader, stream,
                        event, overlapped, late>>
         /\ \/ mail' = mail /\ spoiled' = spoiled
            \/ /\ sender[s].stamp # None /\ PutMail(Sending(s).held)
               /\ spoiled' = spoiled \cup Replaced(Sending(s).held) /\ adrift' = adrift
         /\ \/ adrift' = adrift
            \/ sender[s].stamp # None /\ backend = "sql" /\ adrift' = adrift \cup {Sending(s)}
         /\ budget' = budget \/ Spend("fault") \/ Spend("codec")
<1>1. CASE Stamp(s)
  BY <1>1 DEF Stamp, tables, workerVars
<1>2. CASE SendMessage(s)
  BY <1>2, PutCases DEF SendMessage, workerVars
<1>3. CASE SendAgain(s)
  BY <1>3, PutCases, LostFacts DEF SendAgain, workerVars
<1>4. CASE SendFails(s)
  BY <1>4, PutCases, LostFacts DEF SendFails, workerVars
<1>5. CASE EncodeFails(s)
  BY <1>5 DEF EncodeFails, Unfit, tables, workerVars, histories
<1>6. QED
  BY <1>1, <1>2, <1>3, <1>4, <1>5 DEF SenderStep

\* A sender reads its clock, sends its message again, or goes on to its next one.
LEMMA SenderMoves ==
  ASSUME Typed, NEW s \in Senders, SenderStep(s)
  PROVE  /\ sender' \in [Senders -> Sender]
         /\ \A t \in Senders : t # s => sender'[t] = sender[t]
         /\ \/ /\ sender[s].stamp = None /\ sender[s].number <= plan[s]
               /\ sender'[s].number = sender[s].number
               /\ sender'[s].stamp \in Time /\ sender'[s].last = sender'[s].stamp
               /\ sender'[s].last > sender[s].last \/ s \in stepped'
               /\ sender'[s].told = sender[s].told
               /\ UNCHANGED <<mail, spoiled, resent, adrift>> /\ stepped \subseteq stepped'
               /\ stepped' \subseteq Senders
            \/ /\ sender[s].stamp # None /\ backend = "sql"
               /\ sender' = sender /\ resent' = resent \cup {Message(s)} /\ stepped' = stepped
            \/ /\ sender'[s].number = sender[s].number + 1 /\ sender'[s].stamp = None
               /\ sender'[s].last = sender[s].last
               /\ \/ sender'[s].told = sender[s].told
                  \/ /\ sender'[s].told = sender[s].told \cup {sender[s].number}
                     /\ sender[s].stamp # None /\ PutMail(Sending(s).held)
               /\ sender[s].stamp # None \/ UNCHANGED <<mail, spoiled, adrift>>
               /\ resent' = resent /\ stepped' = stepped
<1>1. /\ sender \in [Senders -> Sender] /\ sender[s] \in Sender
      /\ sender[s].number \in Nat /\ sender[s].last \in 0..MaxTime /\ sender[s].told \in SUBSET Nat
      /\ stepped \subseteq Senders
  BY DEF Typed, MailTypes, Sender
<1>2. CASE Stamp(s)
  <2>1. PICK t \in Time :
          /\ sender' = [sender EXCEPT ![s].stamp = t, ![s].last = t]
          /\ stepped' = IF t <= sender[s].last THEN stepped \cup {s} ELSE stepped
    BY <1>2 DEF Stamp
  <2>2. t \in 0..MaxTime /\ t \in Nat
    BY CommunicationAssumption DEF Time
  <2>3. sender' = [sender EXCEPT ![s] = [sender[s] EXCEPT !.stamp = t, !.last = t]]
    BY <1>1, <2>1
  <2>4. /\ [sender[s] EXCEPT !.stamp = t, !.last = t] \in Sender
        /\ [sender[s] EXCEPT !.stamp = t, !.last = t].number = sender[s].number
        /\ [sender[s] EXCEPT !.stamp = t, !.last = t].stamp = t
        /\ [sender[s] EXCEPT !.stamp = t, !.last = t].last = t
        /\ [sender[s] EXCEPT !.stamp = t, !.last = t].told = sender[s].told
    BY <1>1, <2>2 DEF Sender
  <2>5. /\ sender' \in [Senders -> Sender]
        /\ \A u \in Senders : u # s => sender'[u] = sender[u]
        /\ sender'[s].number = sender[s].number /\ sender'[s].stamp = t
        /\ sender'[s].last = t /\ sender'[s].told = sender[s].told
    BY <1>1, <2>3, <2>4
  <2>6. t > sender[s].last \/ s \in stepped'
    BY <1>1, <2>1, <2>2
  <2>7. stepped \subseteq stepped' /\ stepped' \subseteq Senders
    BY <1>1, <2>1
  <2>8. /\ sender[s].stamp = None /\ sender[s].number <= plan[s]
        /\ UNCHANGED <<mail, spoiled, resent, adrift>>
    BY <1>2 DEF Stamp, tables
  <2>9. QED
    BY <2>5, <2>6, <2>7, <2>8
<1>3. CASE SendAgain(s)
  BY <1>1, <1>3, LostFacts DEF SendAgain
<1>4. CASE SendMessage(s) \/ SendFails(s) \/ EncodeFails(s)
  <2>1. PICK told \in SUBSET Nat :
          /\ sender' = [sender EXCEPT ![s] = [sender[s] EXCEPT !.number = sender[s].number + 1,
                                                               !.stamp = None, !.told = told]]
          /\ \/ told = sender[s].told
             \/ SendMessage(s) /\ told = sender[s].told \cup {sender[s].number}
    <3>1. CASE SendMessage(s)
      BY <1>1, <3>1 DEF SendMessage
    <3>2. CASE SendFails(s) \/ EncodeFails(s)
      <4>1. sender' = [sender EXCEPT ![s].number = @ + 1, ![s].stamp = None]
        BY <3>2 DEF SendFails, EncodeFails, Refused
      <4>2. sender' = [sender EXCEPT ![s] = [sender[s] EXCEPT !.number = sender[s].number + 1,
                                               !.stamp = None, !.told = sender[s].told]]
        BY <1>1, <4>1 DEF Sender
      <4>3. QED
        BY <1>1, <4>2
    <3>3. QED
      BY <1>4, <3>1, <3>2
  <2> DEFINE next == [sender[s] EXCEPT !.number = sender[s].number + 1, !.stamp = None,
                                       !.told = told]
  <2>2. /\ next \in Sender /\ next.number = sender[s].number + 1 /\ next.stamp = None
        /\ next.last = sender[s].last /\ next.told = told
    <3>1. PICK n \in Nat : n = sender[s].number + 1
      BY <1>1
    <3>2. next = [sender[s] EXCEPT !.number = n, !.stamp = None, !.told = told]
      BY <3>1
    <3> HIDE DEF next
    <3>3. next = [number |-> n, stamp |-> None, last |-> sender[s].last, told |-> told]
      BY <1>1, <3>2 DEF Sender
    <3>4. QED
      BY <1>1, <3>1, <3>3 DEF Sender
  <2>3. /\ sender' \in [Senders -> Sender] /\ sender'[s] = next
        /\ \A u \in Senders : u # s => sender'[u] = sender[u]
    BY <1>1, <2>1, <2>2
  <2>4. SendMessage(s) => sender[s].stamp # None /\ PutMail(Sending(s).held)
    BY PutCases DEF SendMessage
  <2>5. /\ sender[s].stamp # None \/ UNCHANGED <<mail, spoiled, adrift>>
        /\ resent' = resent /\ stepped' = stepped
    BY <1>4 DEF SendMessage, SendFails, EncodeFails, tables, histories
  <2> HIDE DEF next
  <2>6. QED
    BY <2>1, <2>2, <2>3, <2>4, <2>5
<1>5. QED
  BY <1>2, <1>3, <1>4 DEF SenderStep

\* A sender's calls keep the types.
LEMMA SenderTyped ==
  ASSUME Typed, NEW s \in Senders, SenderStep(s)
  PROVE  Typed'
<1>1. /\ UNCHANGED <<backend, plan, life, at, held, received, event>>
      /\ mail' = mail \/ (sender[s].stamp # None /\ PutMail(Sending(s).held))
      /\ \/ adrift' = adrift
         \/ sender[s].stamp # None /\ backend = "sql" /\ adrift' = adrift \cup {Sending(s)}
  BY SenderPuts
<1>2. budget' \in [Kinds -> Nat]
  BY SenderPuts, SpendFacts DEF Typed, MailTypes, Kinds
<1>3. mail' \in Seq(Mail)
  BY <1>1, OwnRows, PutFacts DEF Typed, MailTypes
<1>4. /\ sender' \in [Senders -> Sender] /\ stepped' \subseteq Senders /\ resent' \subseteq Messages
      /\ backend = "memory" => resent' = resent
  BY SenderMoves, OwnRows DEF Typed, MailTypes
<1>5. MailTypes'
  BY <1>1, <1>2, <1>3, <1>4 DEF Typed, MailTypes
<1>6. Progress'
  BY <1>1 DEF Typed, Progress
<1>7. Sound'
  <2>1. ASSUME NEW t \in Senders
        PROVE  /\ sender'[t].number >= 1
               /\ sender'[t].stamp # None =>
                    sender'[t].number <= plan[t] /\ sender'[t].last = sender'[t].stamp
    <3>1. /\ sender[t].number >= 1 /\ sender[t].number \in Nat
          /\ sender[t].stamp # None => sender[t].number <= plan[t] /\ sender[t].last = sender[t].stamp
      BY DEF Typed, MailTypes, Sound, Sender
    <3>2. CASE sender'[t] = sender[t]
      BY <3>1, <3>2
    <3>3. CASE sender'[t] # sender[t]
      <4>1. t = s
        BY <3>3, SenderMoves
      <4>2. /\ sender'[t].number \in {sender[t].number, sender[t].number + 1}
            /\ sender'[t].stamp # None =>
                 sender[t].number <= plan[t] /\ sender'[t].last = sender'[t].stamp
                 /\ sender'[t].number = sender[t].number
        BY <3>3, <4>1, SenderMoves
      <4>3. QED
        BY <3>1, <4>2
    <3>4. QED
      BY <3>2, <3>3
  <2>2. QED
    BY <1>1, <2>1 DEF Sound
<1>8. Adrift'
  <2>1. sender[s].stamp # None => Whole(Sending(s))
    BY OwnRows, PutCases DEF Whole
  <2>2. (\A w \in adrift : Whole(w)) /\ (backend = "memory" => adrift = {} /\ resent = {})
    BY DEF Typed, Adrift
  <2>3. \A w \in adrift' : Whole(w)
    BY <1>1, <2>1, <2>2
  <2>4. backend = "memory" => adrift' = {} /\ resent' = {}
    BY <1>1, <1>4, <2>2
  <2>5. QED
    BY <1>1, <2>3, <2>4 DEF Adrift, Whole
<1>9. QED
  BY <1>5, <1>6, <1>7, <1>8 DEF Typed

\* The steps that concern neither mail nor an execution.
OtherStep == GetEvent \/ GetEventTimesOut \/ PollStream \/ PollStreamFails \/ UNCHANGED vars

\* They touch neither the messages nor what executions have.
LEMMA OtherTyped ==
  ASSUME Typed, OtherStep
  PROVE  /\ Typed'
         /\ UNCHANGED <<backend, plan, sender, tables, workerVars, adrift, histories>>
<1>1. UNCHANGED <<backend, plan, sender, tables, workerVars, adrift, histories>>
  BY DEF OtherStep, GetEvent, GetEventTimesOut, PollStream, PollStreamFails, vars
<1>2. budget' = budget \/ Spend("fault") \/ Spend("codec")
  BY DEF OtherStep, GetEvent, GetEventTimesOut, PollStream, PollStreamFails, vars, Fault, Unfit
<1>3. budget' \in [Kinds -> Nat]
  BY <1>2, SpendFacts DEF Typed, MailTypes, Kinds
<1>4. /\ UNCHANGED <<backend, plan, sender, mail, event, adrift, stepped, resent>>
      /\ UNCHANGED <<life, at, held, received>>
  BY <1>1 DEF tables, workerVars, histories
<1>5. MailTypes'
  BY <1>3, <1>4 DEF Typed, MailTypes
<1>6. Progress' /\ Sound' /\ Adrift'
  BY <1>4 DEF Typed, Progress, Sound, Adrift, Whole
<1>7. QED
  BY <1>1, <1>5, <1>6 DEF Typed

\* The calls an execution makes besides recv, and its begin and end.
RestStep(e) ==
  \/ Begin(e) \/ TimeOut(e) \/ ReadLength(e) \/ WriteStream(e) \/ SetEvent(e) \/ CloseStream(e)
  \/ PutFails(e) \/ HandlerFails(e) \/ Crash(e)

\* The put that an execution has come to is whole.
LEMMA WritingWhole ==
  ASSUME Typed, NEW e \in Executions, at[e] \in Puts
  PROVE  Whole(Writing(e)) /\ at[e] \in {"consume", "write", "event", "close"}
<1>1. at[e] \in {"consume", "write", "event", "close"}
  BY DEF Typed, MailTypes, Calls, Puts
<1>2. CASE at[e] = "consume"
  BY <1>2, OwnRows, PutCases DEF Whole
<1>3. CASE at[e] \in {"write", "event", "close"}
  BY <1>3, OwnRows, PutCases DEF Whole
<1>4. QED
  BY <1>1, <1>2, <1>3

\* They leave the messages alone, and nobody comes to hold one by them.
LEMMA RestPuts ==
  ASSUME Typed, NEW e \in Executions, RestStep(e)
  PROVE  /\ UNCHANGED <<backend, plan, sender, mail, held, received, spoiled, resent, stepped, late,
                        waiter, reader>>
         /\ \/ adrift' = adrift
            \/ backend = "sql" /\ at[e] \in Puts /\ adrift' = adrift \cup {Writing(e)}
         /\ budget' = budget \/ \E kind \in Kinds : Spend(kind)
<1>1. CASE Begin(e)
  BY <1>1 DEF Begin, tables
<1>2. CASE TimeOut(e) \/ HandlerFails(e)
  BY <1>2 DEF TimeOut, HandlerFails, ReceiveFails, Fault, Unfit, tables, histories, Kinds
<1>3. CASE ReadLength(e)
  BY <1>3 DEF ReadLength, tables, histories
<1>4. CASE WriteStream(e) \/ SetEvent(e)
  BY <1>4, PutCases DEF WriteStream, SetEvent, At, histories
<1>5. CASE CloseStream(e)
  BY <1>5 DEF CloseStream, Put, Writing, histories
<1>6. CASE PutFails(e)
  BY <1>6, PutCases, LostFacts DEF PutFails, Puts, Kinds
<1>7. CASE Crash(e)
  BY <1>7 DEF Crash, tables, histories, Kinds
<1>8. QED
  BY <1>1, <1>2, <1>3, <1>4, <1>5, <1>6, <1>7 DEF RestStep

\* What they do to where an execution is.
LEMMA RestMoves ==
  ASSUME Typed, NEW e \in Executions, RestStep(e)
  PROVE  \/ /\ life[e] = "unborn" /\ life' = [life EXCEPT ![e] = "running"]
            /\ UNCHANGED <<at, event>>
         \/ /\ life[e] = "running" /\ at' = at
            /\ \E l \in {"failed", "crashed", "running"} : life' = [life EXCEPT ![e] = l]
            /\ event' = event \/ (at[e] = "event" /\ event' = held[e].of)
         \/ /\ life[e] = "running" /\ life' = life /\ event' = event
            /\ \/ at[e] = "length" /\ at' = [at EXCEPT ![e] = "write"]
               \/ at[e] = "end" /\ backend = "sql" /\ at' = [at EXCEPT ![e] = "close"]
               \/ at[e] = "write" /\ at' = [at EXCEPT ![e] = AfterWrite(e)]
         \/ /\ life[e] = "running" /\ life' = life
            /\ at[e] = "event" /\ at' = [at EXCEPT ![e] = "end"] /\ event' = held[e].of
         \/ /\ life[e] = "running" /\ at[e] \in {"close", "end"}
            /\ life' = [life EXCEPT ![e] = "done"] /\ UNCHANGED <<at, event>>
<1>1. CASE Begin(e)
  BY <1>1 DEF Begin, tables
<1>2. CASE TimeOut(e) \/ Crash(e)
  BY <1>2 DEF TimeOut, Crash, ReceiveFails, At, Running, tables
<1>3. CASE HandlerFails(e)
  BY <1>3 DEF HandlerFails, Running, tables
<1>4. CASE ReadLength(e) \/ WriteStream(e)
  BY <1>4, PutCases DEF ReadLength, WriteStream, At, Running, tables
<1>5. CASE SetEvent(e)
  BY <1>5, PutCases DEF SetEvent, At, Running
<1>6. CASE CloseStream(e)
  BY <1>6 DEF CloseStream, Put, Writing, At, Running
<1>7. CASE PutFails(e)
  <2>1. life' = life \/ life' = [life EXCEPT ![e] = "failed"]
    BY <1>7 DEF PutFails
  <2>2. life[e] = "running" /\ at' = at /\ at[e] \in {"write", "event", "close"} /\ Lost(Writing(e))
    BY <1>7 DEF PutFails, Running
  <2>3. event' = event \/ (at[e] = "event" /\ event' = held[e].of)
    BY <2>2, PutCases, LostFacts
  <2>4. life = [life EXCEPT ![e] = "running"]
    BY <2>2 DEF Typed, MailTypes
  <2>5. QED
    BY <2>1, <2>2, <2>3, <2>4
<1>8. QED
  BY <1>1, <1>2, <1>3, <1>4, <1>5, <1>6, <1>7 DEF RestStep

\* They keep the types.
LEMMA RestTyped ==
  ASSUME Typed, NEW e \in Executions, RestStep(e)
  PROVE  /\ Typed'
         /\ \A f \in Executions : At(f, "consume")' => At(f, "consume")
<1>1. UNCHANGED <<backend, plan, sender, mail, held, received, resent, stepped>>
  BY RestPuts
<1>2. /\ life \in [Executions -> Lives] /\ at \in [Executions -> Calls] /\ Progress
  BY DEF Typed, MailTypes
<1>3. budget' \in [Kinds -> Nat]
  BY RestPuts, SpendFacts DEF Typed, MailTypes
<1>4. AfterWrite(e) = (IF Len(received[e]) < Wanted THEN "recv" ELSE "event")
  BY DEF AfterWrite
<1>5. life' \in [Executions -> Lives] /\ at' \in [Executions -> Calls]
  BY <1>2, <1>4, RestMoves DEF Lives, Calls
<1>6. MailTypes' /\ Sound'
  BY <1>1, <1>3, <1>5 DEF Typed, MailTypes, Sound
<1>7. event # NoMessage => event' # NoMessage
  <2>1. at[e] = "event" => held[e].of # NoMessage
    BY OwnRows, RowFacts, MessageFacts DEF Typed
  <2>2. QED
    BY <2>1, RestMoves
<1>8. ASSUME NEW f \in Executions
      PROVE  /\ life'[f] = "unborn" => at'[f] = "recv"
             /\ at'[f] # "recv" => held[f] # NoMail
             /\ at'[f] = "consume" => backend = "sql"
             /\ Len(received[f]) <= Wanted
             /\ at'[f] \in {"recv", "consume"} => Len(received[f]) < Wanted
             /\ at'[f] \in {"end", "close"} \/ life'[f] = "done" => event' # NoMessage
             /\ At(f, "consume")' => At(f, "consume")
  <2>1. /\ life[f] = "unborn" => at[f] = "recv"
        /\ at[f] # "recv" => held[f] # NoMail
        /\ at[f] = "consume" => backend = "sql"
        /\ Len(received[f]) <= Wanted
        /\ at[f] \in {"recv", "consume"} => Len(received[f]) < Wanted
        /\ at[f] \in {"end", "close"} \/ life[f] = "done" => event # NoMessage
    BY <1>2 DEF Progress
  <2>2. at[e] = "event" => held[e].of # NoMessage
    BY OwnRows, RowFacts, MessageFacts DEF Typed
  <2>3. CASE f # e
    <3>1. at'[f] = at[f] /\ life'[f] = life[f]
      BY <1>2, <2>3, RestMoves
    <3>2. QED
      BY <1>7, <2>1, <3>1 DEF At, Running
  <2>4. CASE f = e
    BY <1>2, <1>4, <1>7, <2>1, <2>2, <2>4, RestMoves DEF At, Running
  <2>5. QED
    BY <2>3, <2>4
<1>9. Progress'
  BY <1>1, <1>8 DEF Progress
<1>10. Adrift'
  <2>1. (\A w \in adrift : Whole(w)) /\ (backend = "memory" => adrift = {} /\ resent = {})
    BY DEF Typed, Adrift
  <2>2. \A w \in adrift' : Whole(w)
    BY <2>1, RestPuts, WritingWhole
  <2>3. QED
    BY <2>1, <2>2, RestPuts DEF Adrift, Whole
<1>11. QED
  BY <1>6, <1>8, <1>9, <1>10 DEF Typed

\* recv.
RecvStep(e) == Receive(e) \/ ListMessages(e) \/ Consume(e) \/ ConsumeFails(e)

\* What recv leaves alone.
Aside == UNCHANGED <<backend, plan, sender, offset, stream, event, waiter, reader, overlapped, late,
                     stepped, resent>>

\* A message is received from the memory store, or is marked and cannot be decoded.
LEMMA ReceiveFacts ==
  ASSUME Typed, NEW e \in Executions, Receive(e)
  PROVE  \E i \in Unconsumed :
           /\ i \in 1..Len(mail) /\ mail[i] \in Mail /\ ~mail[i].consumed /\ First(i)
           /\ backend = "memory" /\ at[e] = "recv" /\ At(e, "recv")
           /\ mail' \in Seq(Mail) /\ Len(mail') = Len(mail) /\ Len(mail) \in Nat
           /\ \A k \in 1..Len(mail) :
                mail'[k] = IF k = i THEN [mail[i] EXCEPT !.consumed = TRUE] ELSE mail[k]
           /\ held' = [held EXCEPT ![e] = mail[i]] /\ mail[i].of \in Messages
           /\ \/ Given(e, mail[i].of) /\ UNCHANGED <<life, spoiled>>
              \/ /\ life' = [life EXCEPT ![e] = "failed"] /\ UNCHANGED <<at, received>>
                 /\ spoiled' = spoiled \cup {mail[i].of}
           /\ budget' = budget \/ Spend("codec")
           /\ Aside /\ adrift' = adrift
<1>1. PICK i \in Unconsumed :
        /\ First(i)
        /\ mail' = [mail EXCEPT ![i].consumed = TRUE]
        /\ held' = [held EXCEPT ![e] = mail[i]]
        /\ \/ Given(e, mail[i].of) /\ UNCHANGED <<life, spoiled, budget>>
           \/ Undecodable(e, mail[i].of) /\ spoiled' = spoiled \cup {mail[i].of}
  BY DEF Receive
<1>2. mail \in Seq(Mail) /\ i \in 1..Len(mail) /\ ~mail[i].consumed
  BY DEF Typed, MailTypes, Unconsumed
<1>3. mail[i] \in Mail /\ mail[i].of \in Messages /\ Len(mail) \in Nat
  BY <1>2, ElementOfSeq, LenProperties, RowFacts
<1>4. [mail[i] EXCEPT !.consumed = TRUE] \in Mail
  BY <1>3 DEF Mail
<1>5. /\ mail' \in Seq(Mail) /\ Len(mail') = Len(mail)
      /\ \A k \in 1..Len(mail) :
           mail'[k] = IF k = i THEN [mail[i] EXCEPT !.consumed = TRUE] ELSE mail[k]
  <2>1. mail' = [mail EXCEPT ![i] = [mail[i] EXCEPT !.consumed = TRUE]]
    BY <1>1
  <2>2. QED
    BY <1>2, <1>4, <2>1, ExceptSeq
<1>6. /\ backend = "memory" /\ at[e] = "recv" /\ At(e, "recv") /\ Aside /\ adrift' = adrift
  BY DEF Receive, At, Aside
<1>7. \/ Given(e, mail[i].of) /\ UNCHANGED <<life, spoiled, budget>>
      \/ /\ life' = [life EXCEPT ![e] = "failed"] /\ UNCHANGED <<at, received>>
         /\ spoiled' = spoiled \cup {mail[i].of} /\ Spend("codec")
  BY <1>1 DEF Undecodable, Unfit
<1>8. QED
  BY <1>1, <1>2, <1>3, <1>5, <1>6, <1>7

\* A message is listed.
LEMMA ListFacts ==
  ASSUME Typed, NEW e \in Executions, ListMessages(e)
  PROVE  \E i \in Unconsumed :
           /\ i \in 1..Len(mail) /\ mail[i] \in Mail /\ ~mail[i].consumed /\ First(i)
           /\ backend = "sql" /\ At(e, "recv")
           /\ held' = [held EXCEPT ![e] = mail[i]]
           /\ at' = [at EXCEPT ![e] = "consume"]
           /\ UNCHANGED <<mail, life, received, spoiled, adrift, budget>> /\ Aside
<1>1. PICK i \in Unconsumed : First(i) /\ held' = [held EXCEPT ![e] = mail[i]]
  BY DEF ListMessages
<1>2. i \in 1..Len(mail) /\ mail[i] \in Mail /\ ~mail[i].consumed
  BY ElementOfSeq DEF Typed, MailTypes, Unconsumed
<1>3. /\ backend = "sql" /\ At(e, "recv") /\ at' = [at EXCEPT ![e] = "consume"]
      /\ UNCHANGED <<mail, life, received, spoiled, adrift, budget>> /\ Aside
  BY DEF ListMessages, Aside, tables, histories
<1>4. QED
  BY <1>1, <1>2, <1>3

\* A message is marked, and given;
Marks(e) ==
  /\ At(e, "consume")
  /\ PutMail(Consumed(e)) /\ spoiled' = spoiled \cup Replaced(Consumed(e))
  /\ Given(e, held[e].of)
  /\ UNCHANGED <<life, held, adrift, budget>> /\ Aside

\* it is marked, or may be yet, and is given to nobody.
Misses(e) ==
  /\ At(e, "consume")
  /\ \/ /\ PutMail(Consumed(e)) /\ adrift' = adrift
        /\ spoiled' = spoiled \cup Replaced(Consumed(e)) \cup {held[e].of}
     \/ /\ UNCHANGED <<mail, spoiled>>
        /\ adrift' = adrift \/ adrift' = adrift \cup {Writing(e)}
  /\ \/ UNCHANGED <<at, life>>
     \/ at' = [at EXCEPT ![e] = "recv"] /\ life' = life
     \/ life' = [life EXCEPT ![e] = "failed"] /\ at' = at
  /\ \E kind \in Kinds : Spend(kind)
  /\ UNCHANGED <<held, received>> /\ Aside

\* The steps of recv over a SQL store.
LEMMA RecvCases ==
  ASSUME Typed, NEW e \in Executions
  PROVE  /\ Consume(e) => Marks(e) \/ Misses(e)
         /\ ConsumeFails(e) => Misses(e)
<1>1. ASSUME Consume(e) PROVE Marks(e) \/ Misses(e)
  <2>1. /\ At(e, "consume") /\ at[e] = "consume" /\ Put(Writing(e)) /\ Aside
        /\ UNCHANGED <<held, adrift>>
        /\ \/ /\ Given(e, held[e].of) /\ spoiled' = spoiled \cup Replaced(Consumed(e))
              /\ UNCHANGED <<life, budget>>
           \/ /\ life' = [life EXCEPT ![e] = "failed"] /\ UNCHANGED <<at, received>>
              /\ Spend("codec") /\ spoiled' = spoiled \cup Risked(Writing(e))
    <3>1. At(e, "consume") /\ Put(Writing(e)) /\ at[e] = "consume"
      BY <1>1 DEF Consume, At
    <3>2. UNCHANGED <<stream, event>>
      BY <3>1, PutCases
    <3>3. QED
      BY <1>1, <3>1, <3>2 DEF Consume, Undecodable, Unfit, Aside
  <2>2. /\ PutMail(Consumed(e)) /\ Consumed(e).of = held[e].of
        /\ Risked(Writing(e)) = Replaced(Consumed(e)) \cup {Consumed(e).of}
    BY <2>1, PutCases, OwnRows
  <2>3. "codec" \in Kinds
    BY DEF Kinds
  <2>4. QED
    BY <2>1, <2>2, <2>3 DEF Marks, Misses
<1>2. ASSUME ConsumeFails(e) PROVE Misses(e)
  <2>1. /\ At(e, "consume") /\ at[e] = "consume" /\ Lost(Writing(e))
        /\ \/ UNCHANGED <<at, life>>
           \/ at' = [at EXCEPT ![e] = "recv"] /\ life' = life
           \/ life' = [life EXCEPT ![e] = "failed"] /\ at' = at
        /\ UNCHANGED <<backend, plan, sender, held, offset, received, waiter, reader, overlapped,
                       late, stepped, resent>>
    BY <1>2 DEF ConsumeFails, Retried, ReceiveFails, At
  <2>2. /\ Put(Writing(e)) => PutMail(Consumed(e)) /\ UNCHANGED <<stream, event>>
        /\ Risked(Writing(e)) = Replaced(Consumed(e)) \cup {held[e].of}
    BY <2>1, PutCases, OwnRows
  <2>3. /\ Spend("fault") /\ "fault" \in Kinds /\ UNCHANGED <<stream, event>>
        /\ \/ /\ PutMail(Consumed(e)) /\ adrift' = adrift
              /\ spoiled' = spoiled \cup Replaced(Consumed(e)) \cup {held[e].of}
           \/ /\ UNCHANGED <<mail, spoiled>>
              /\ adrift' = adrift \/ adrift' = adrift \cup {Writing(e)}
    BY <2>1, <2>2, LostFacts DEF Kinds
  <2>4. Aside
    BY <2>1, <2>3 DEF Aside
  <2>5. QED
    BY <2>1, <2>3, <2>4 DEF Misses
<1>3. QED
  BY <1>1, <1>2

\* A message is received, listed, marked, or not.
LEMMA RecvTyped ==
  ASSUME Typed, NEW e \in Executions, RecvStep(e)
  PROVE  Typed'
<1>1. Aside
  BY ReceiveFacts, ListFacts, RecvCases DEF RecvStep, Marks, Misses
<1>2. /\ life \in [Executions -> Lives] /\ at \in [Executions -> Calls] /\ Progress
      /\ backend \in {"memory", "sql"} /\ mail \in Seq(Mail)
      /\ held \in [Executions -> Mail \cup {NoMail}] /\ received \in [Executions -> Seq(Messages)]
      /\ Wanted \in Nat /\ budget \in [Kinds -> Nat]
  BY CommunicationAssumption DEF Typed, MailTypes
<1>3. Sound'
  BY <1>1 DEF Typed, Sound, Aside
<1>4. ASSUME MailTypes' \/ (mail' \in Seq(Mail) /\ life' \in [Executions -> Lives]
                            /\ at' \in [Executions -> Calls]
                            /\ held' \in [Executions -> Mail \cup {NoMail}]
                            /\ received' \in [Executions -> Seq(Messages)]
                            /\ budget' \in [Kinds -> Nat])
      PROVE  MailTypes'
  BY <1>1, <1>4 DEF Typed, MailTypes, Aside
<1>5. ASSUME adrift' = adrift \/ (at[e] = "consume" /\ adrift' = adrift \cup {Writing(e)})
      PROVE  Adrift'
  <2>1. /\ \A w \in adrift : Whole(w)
        /\ backend = "memory" => adrift = {} /\ resent = {}
        /\ at[e] = "consume" => backend = "sql" /\ at[e] \in Puts
    BY <1>2 DEF Typed, Adrift, Progress, Puts
  <2>2. \A w \in adrift' : Whole(w)
    BY <1>5, <2>1, WritingWhole
  <2>3. backend' = "memory" => adrift' = {} /\ resent' = {}
    BY <1>1, <1>5, <2>1 DEF Aside
  <2>4. QED
    BY <2>2, <2>3 DEF Adrift, Whole
<1>6. CASE Receive(e)
  <2>1. PICK i \in Unconsumed :
           /\ mail[i] \in Mail /\ at[e] = "recv" /\ At(e, "recv") /\ mail' \in Seq(Mail)
           /\ held' = [held EXCEPT ![e] = mail[i]] /\ mail[i].of \in Messages
           /\ \/ Given(e, mail[i].of) /\ life' = life
              \/ life' = [life EXCEPT ![e] = "failed"] /\ UNCHANGED <<at, received>>
           /\ budget' = budget \/ Spend("codec")
           /\ adrift' = adrift
    BY <1>6, ReceiveFacts
  <2>2. budget' \in [Kinds -> Nat]
    BY <1>2, <2>1, SpendFacts DEF Kinds
  <2>3. held'[e] # NoMail /\ \A f \in Executions : f # e => held'[f] = held[f]
    BY <1>2, <2>1, MessageFacts
  <2>4. CASE Given(e, mail[i].of) /\ life' = life
    <3>1. /\ received' \in [Executions -> Seq(Messages)]
          /\ \A f \in Executions : f # e => received'[f] = received[f]
          /\ Len(received[e]) \in Nat /\ Len(received'[e]) = Len(received[e]) + 1
          /\ at' = [at EXCEPT ![e] = "length"]
      BY <1>2, <2>1, <2>4, GivenFacts DEF Given
    <3>2. MailTypes'
      BY <1>2, <1>4, <2>1, <2>2, <2>4, <3>1 DEF Calls
    <3>3. Progress'
      BY <1>1, <1>2, <2>1, <2>3, <2>4, <3>1 DEF Progress, Aside, At, Running
    <3>4. QED
      BY <1>3, <1>5, <2>1, <3>2, <3>3 DEF Typed
  <2>5. CASE life' = [life EXCEPT ![e] = "failed"] /\ UNCHANGED <<at, received>>
    <3>1. MailTypes'
      BY <1>2, <1>4, <2>1, <2>2, <2>5 DEF Lives
    <3>2. Progress'
      BY <1>1, <1>2, <2>1, <2>3, <2>5 DEF Progress, Aside
    <3>3. QED
      BY <1>3, <1>5, <2>1, <3>1, <3>2 DEF Typed
  <2>6. QED
    BY <2>1, <2>4, <2>5
<1>7. CASE ListMessages(e)
  <2>1. PICK i \in Unconsumed :
          /\ mail[i] \in Mail /\ backend = "sql" /\ At(e, "recv")
          /\ held' = [held EXCEPT ![e] = mail[i]] /\ at' = [at EXCEPT ![e] = "consume"]
          /\ UNCHANGED <<mail, life, received, spoiled, adrift, budget>>
    BY <1>7, ListFacts
  <2>2. mail[i] # NoMail
    BY <2>1, MessageFacts
  <2>3. MailTypes'
    BY <1>2, <1>4, <2>1 DEF Calls
  <2>4. Progress'
    BY <1>1, <1>2, <2>1, <2>2 DEF Progress, Aside, At, Running
  <2>5. QED
    BY <1>3, <1>5, <2>1, <2>3, <2>4 DEF Typed
<1>8. CASE Marks(e)
  <2>1. /\ at[e] = "consume" /\ life[e] = "running" /\ PutMail(Consumed(e)) /\ Given(e, held[e].of)
        /\ at' = [at EXCEPT ![e] = "length"] /\ UNCHANGED <<life, held, budget, adrift>>
    BY <1>8 DEF Marks, At, Running, Given
  <2>2. held[e] \in Mail /\ Consumed(e) \in Mail /\ held[e].of \in Messages
    BY <2>1, OwnRows, RowFacts
  <2>3. mail' \in Seq(Mail)
    BY <1>2, <2>1, <2>2, PutFacts
  <2>4. /\ received' \in [Executions -> Seq(Messages)]
        /\ \A f \in Executions : f # e => received'[f] = received[f]
        /\ Len(received[e]) \in Nat /\ Len(received'[e]) = Len(received[e]) + 1
    BY <1>2, <2>1, <2>2, GivenFacts
  <2>5. MailTypes'
    BY <1>2, <1>4, <2>1, <2>3, <2>4 DEF Calls
  <2>6. Progress'
    BY <1>1, <1>2, <2>1, <2>4 DEF Progress, Aside
  <2>7. QED
    BY <1>3, <1>5, <2>1, <2>5, <2>6 DEF Typed
<1>9. CASE Misses(e)
  <2>1. /\ at[e] = "consume" /\ life[e] = "running"
        /\ PutMail(Consumed(e)) \/ mail' = mail
        /\ UNCHANGED <<held, received>>
        /\ \/ UNCHANGED <<at, life>>
           \/ at' = [at EXCEPT ![e] = "recv"] /\ life' = life
           \/ life' = [life EXCEPT ![e] = "failed"] /\ at' = at
        /\ adrift' = adrift \/ adrift' = adrift \cup {Writing(e)}
    BY <1>9 DEF Misses, At, Running
  <2>2. Consumed(e) \in Mail
    BY <2>1, OwnRows
  <2>3. mail' \in Seq(Mail)
    BY <1>2, <2>1, <2>2, PutFacts
  <2>4. budget' \in [Kinds -> Nat]
    BY <1>2, <1>9, SpendFacts DEF Misses
  <2>5. MailTypes'
    BY <1>2, <1>4, <2>1, <2>3, <2>4 DEF Lives, Calls
  <2>6. Progress'
    BY <1>1, <1>2, <2>1 DEF Progress, Aside
  <2>7. QED
    BY <1>3, <1>5, <2>1, <2>5, <2>6 DEF Typed
<1>10. QED
  BY <1>6, <1>7, <1>8, <1>9, RecvCases DEF RecvStep

\* What a put that is applied late does.
LEMMA LandFacts ==
  ASSUME Typed, NEW w \in adrift, Land(w)
  PROVE  /\ backend = "sql"
         /\ UNCHANGED <<backend, plan, sender, workerVars, waiter, reader, overlapped, stepped,
                        budget>>
         /\ adrift' = adrift \ {w} /\ resent \subseteq resent' /\ resent' \subseteq Messages
         /\ late => late'
         /\ \/ /\ w.at \in {"send", "consume"} /\ w.held \in Mail /\ PutMail(w.held)
               /\ spoiled' = spoiled \cup Risked(w) /\ UNCHANGED <<stream, event>>
               /\ w.held.consumed \/ w.held.of \in resent'
            \/ UNCHANGED <<mail, spoiled, resent>> /\ (stream' = stream \/ late')
               /\ event' \in Messages \cup {event}
<1>1. Whole(w) /\ (backend = "memory" => adrift = {}) /\ backend \in {"memory", "sql"}
  BY DEF Typed, Adrift, MailTypes
<1>2. /\ UNCHANGED <<backend, plan, sender, workerVars, waiter, reader, overlapped, stepped, budget>>
      /\ adrift' = adrift \ {w} /\ Put(w) /\ spoiled' = spoiled \cup Risked(w)
      /\ resent' = IF w.at = "send" THEN resent \cup {w.held.of} ELSE resent
      /\ late' = (late \/ w.at \in {"write", "close"})
  BY DEF Land
<1>3. resent \subseteq Messages
  BY DEF Typed, MailTypes
<1>4. CASE w.at \in {"send", "consume"}
  <2>1. w.held \in Mail /\ w.held.of \in Messages /\ (w.at = "consume" => w.held.consumed)
    BY <1>1, <1>4, RowFacts DEF Whole
  <2>2. PutMail(w.held) /\ UNCHANGED <<stream, event>>
    BY <1>2, <1>4 DEF Put
  <2>3. QED
    BY <1>1, <1>2, <1>3, <1>4, <2>1, <2>2
<1>5. CASE w.at \notin {"send", "consume"}
  <2>1. w.at \in {"write", "close", "event"} /\ mail' = mail
    BY <1>2, <1>5 DEF Put
  <2>2. Risked(w) = {}
    BY <1>5 DEF Risked
  <2>3. w.at = "event" => event' \in Messages /\ stream' = stream
    BY <1>1, <1>2, RowFacts DEF Put, Whole
  <2>4. w.at \in {"write", "close"} => event' = event
    BY <1>2 DEF Put
  <2>5. QED
    BY <1>1, <1>2, <1>3, <1>5, <2>1, <2>2, <2>3, <2>4
<1>6. QED
  BY <1>4, <1>5

\* It keeps the types.
LEMMA LandTyped ==
  ASSUME Typed, NEW w \in adrift, Land(w)
  PROVE  Typed'
<1>1. /\ UNCHANGED <<backend, plan, sender, life, at, held, received, stepped, budget>>
      /\ backend = "sql" /\ resent' \subseteq Messages /\ adrift' = adrift \ {w}
  BY LandFacts DEF workerVars
<1>2. mail' \in Seq(Mail)
  BY LandFacts, PutFacts DEF Typed, MailTypes
<1>3. event # NoMessage => event' # NoMessage
  BY LandFacts, MessageFacts
<1>4. MailTypes'
  BY <1>1, <1>2 DEF Typed, MailTypes
<1>5. Progress' /\ Sound'
  BY <1>1, <1>3 DEF Typed, Progress, Sound
<1>6. Adrift'
  BY <1>1 DEF Typed, Adrift, Whole
<1>7. QED
  BY <1>4, <1>5, <1>6 DEF Typed

\* Every step is one of these.
LEMMA StepCases ==
  [Next]_vars => \/ OtherStep
                 \/ \E s \in Senders : SenderStep(s)
                 \/ \E e \in Executions : RestStep(e) \/ RecvStep(e)
                 \/ \E w \in adrift : Land(w)
BY DEF Next, OtherStep, SenderStep, RestStep, RecvStep

\* Every step keeps the types, and what an execution has done by the call it has reached.
LEMMA StepTyped == Typed /\ [Next]_vars => Typed'
BY StepCases, OtherTyped, SenderTyped, RestTyped, RecvTyped, LandTyped
-----------------------------------------------------------------------------
(* What the steps do to the messages.                                       *)

\* No message is touched, but a put of a row that is chosen already may be yet to come.
Quiet ==
  /\ UNCHANGED <<backend, sender, mail, held, received, spoiled, resent, stepped>>
  /\ \A f \in Executions : At(f, "consume")' => At(f, "consume")
  /\ \A w \in adrift' :
       \/ w \in adrift \/ w.at \notin {"send", "consume"}
       \/ \E e \in Executions : at[e] = "consume" /\ w.held = Consumed(e)

\* A sender reads its clock.
Reads(s) ==
  /\ SenderStep(s)
  /\ sender[s].stamp = None /\ sender'[s].number = sender[s].number
  /\ sender'[s].told = sender[s].told
  /\ UNCHANGED <<mail, spoiled, resent, adrift>>

\* It goes on to its next message, or is to send this one again,
Turns(s, numbers) ==
  /\ sender'[s].number = sender[s].number + 1 /\ sender'[s].told = numbers
  /\ UNCHANGED <<resent, stepped>>
Repeats(s) ==
  /\ sender[s].stamp # None /\ backend = "sql"
  /\ sender' = sender /\ resent' = resent \cup {Message(s)} /\ stepped' = stepped

\* having sent this one,
Sends(s) ==
  /\ SenderStep(s) /\ sender[s].stamp # None
  /\ Turns(s, sender[s].told) \/ Turns(s, sender[s].told \cup {sender[s].number}) \/ Repeats(s)
  /\ PutMail(Sending(s).held) /\ spoiled' = spoiled \cup Replaced(Sending(s).held)
  /\ adrift' = adrift

\* or not.
Drops(s) ==
  /\ SenderStep(s)
  /\ Turns(s, sender[s].told) \/ Repeats(s)
  /\ UNCHANGED <<mail, spoiled>>
  /\ adrift' = adrift \/ (sender[s].stamp # None /\ adrift' = adrift \cup {Sending(s)})

\* A message is marked, and is given to nobody.
Loses(e) ==
  /\ At(e, "consume")
  /\ PutMail(Consumed(e)) /\ spoiled' = spoiled \cup Replaced(Consumed(e)) \cup {held[e].of}
  /\ \A f \in Executions : At(f, "consume")' => At(f, "consume")
  /\ UNCHANGED <<backend, sender, held, received, resent, stepped, adrift>>

\* A row is put late.
Lands(w) ==
  /\ w.at \in {"send", "consume"} /\ w.held \in Mail /\ PutMail(w.held)
  /\ w.held.consumed \/ w.held.of \in resent'
  /\ spoiled' = spoiled \cup Risked(w) /\ adrift' \subseteq adrift /\ resent \subseteq resent'
  /\ UNCHANGED <<backend, sender, life, at, held, received, stepped>>

\* What a sender's calls leave alone.
LEMMA SenderCalm ==
  ASSUME Typed, NEW s \in Senders, SenderStep(s)
  PROVE  /\ UNCHANGED <<backend, life, at, held, received>>
         /\ Reads(s) \/ Sends(s) \/ Drops(s)
<1>1. UNCHANGED <<backend, life, at, held, received>>
  BY SenderPuts
<1>2. \/ /\ mail' = mail /\ spoiled' = spoiled
         /\ adrift' = adrift \/ (sender[s].stamp # None /\ adrift' = adrift \cup {Sending(s)})
      \/ /\ sender[s].stamp # None /\ PutMail(Sending(s).held)
         /\ spoiled' = spoiled \cup Replaced(Sending(s).held) /\ adrift' = adrift
  BY SenderPuts
<1>3. \/ /\ sender[s].stamp = None /\ sender'[s].number = sender[s].number
         /\ sender'[s].told = sender[s].told
         /\ UNCHANGED <<mail, spoiled, resent, adrift>>
      \/ Repeats(s)
      \/ Turns(s, sender[s].told)
      \/ Turns(s, sender[s].told \cup {sender[s].number}) /\ sender[s].stamp # None
         /\ ~(UNCHANGED <<mail, spoiled>>)
      \/ Turns(s, sender[s].told \cup {sender[s].number}) /\ sender[s].stamp # None
         /\ PutMail(Sending(s).held) /\ spoiled' = spoiled \cup Replaced(Sending(s).held)
         /\ adrift' = adrift
  <2>1. CASE SendMessage(s)
    <3>1. /\ sender[s].stamp # None /\ PutMail(Sending(s).held)
          /\ spoiled' = spoiled \cup Replaced(Sending(s).held)
          /\ adrift' = adrift /\ stepped' = stepped /\ resent' = resent
      BY <2>1, PutCases DEF SendMessage
    <3>2. /\ sender'[s].number = sender[s].number + 1
          /\ sender'[s].told = sender[s].told \cup {sender[s].number}
      <4>1. sender[s] \in Sender
        BY DEF Typed, MailTypes
      <4>2. QED
        BY <2>1, <4>1 DEF SendMessage, Typed, MailTypes, Sender
    <3>3. QED
      BY <3>1, <3>2 DEF Turns
  <2>2. CASE ~SendMessage(s)
    <3>1. CASE Stamp(s)
      BY <3>1, SenderMoves DEF Stamp, tables, Typed, MailTypes, Sender
    <3>2. CASE SendAgain(s)
      BY <3>2, LostFacts DEF SendAgain, Repeats
    <3>3. CASE SendFails(s) \/ EncodeFails(s)
      <4>1. sender' = [sender EXCEPT ![s].number = @ + 1, ![s].stamp = None]
            /\ UNCHANGED <<resent, stepped>>
        BY <3>3 DEF SendFails, EncodeFails, Refused, histories
      <4>2. sender'[s].number = sender[s].number + 1 /\ sender'[s].told = sender[s].told
        BY <4>1 DEF Typed, MailTypes, Sender
      <4>3. QED
        BY <4>1, <4>2 DEF Turns
    <3>4. QED
      BY <2>2, <3>1, <3>2, <3>3 DEF SenderStep
  <2>3. QED
    BY <2>1, <2>2
<1>4. QED
  BY <1>1, <1>2, <1>3 DEF Reads, Sends, Drops

\* Every step is one of these.
LEMMA MailCases ==
  ASSUME Typed, [Next]_vars
  PROVE  \/ Quiet
         \/ \E s \in Senders : Reads(s) \/ Sends(s) \/ Drops(s)
         \/ \E e \in Executions : Receive(e) \/ ListMessages(e) \/ Marks(e) \/ Loses(e)
         \/ \E w \in adrift : Lands(w)
<1>1. CASE OtherStep
  <2>1. UNCHANGED <<backend, sender, mail, held, received, spoiled, resent, stepped, adrift, at, life>>
    BY <1>1, OtherTyped DEF tables, workerVars, histories
  <2>2. QED
    BY <2>1 DEF Quiet, At, Running
<1>2. ASSUME NEW e \in Executions, RestStep(e) PROVE Quiet
  <2>1. \A w \in adrift' :
          \/ w \in adrift \/ w.at \notin {"send", "consume"}
          \/ \E f \in Executions : at[f] = "consume" /\ w.held = Consumed(f)
    <3>1. SUFFICES ASSUME at[e] \in Puts, adrift' = adrift \cup {Writing(e)}
                   PROVE  \/ Writing(e).at \notin {"send", "consume"}
                          \/ at[e] = "consume" /\ Writing(e).held = Consumed(e)
      BY <1>2, RestPuts
    <3>2. at[e] \in {"consume", "write", "event", "close"}
      BY <3>1, WritingWhole
    <3>3. QED
      BY <3>2, PutCases
  <2>2. QED
    BY <1>2, <2>1, RestPuts, RestTyped DEF Quiet
<1>3. ASSUME NEW e \in Executions, Misses(e) PROVE Quiet \/ Loses(e)
  <2>1. /\ At(e, "consume") /\ at[e] = "consume"
        /\ UNCHANGED <<backend, sender, held, received, resent, stepped>>
        /\ \/ /\ PutMail(Consumed(e)) /\ adrift' = adrift
              /\ spoiled' = spoiled \cup Replaced(Consumed(e)) \cup {held[e].of}
           \/ /\ UNCHANGED <<mail, spoiled>>
              /\ adrift' = adrift \/ adrift' = adrift \cup {Writing(e)}
        /\ \/ UNCHANGED <<at, life>>
           \/ at' = [at EXCEPT ![e] = "recv"] /\ life' = life
           \/ life' = [life EXCEPT ![e] = "failed"] /\ at' = at
    BY <1>3 DEF Misses, Aside, At
  <2>2. ASSUME NEW f \in Executions, At(f, "consume")' PROVE At(f, "consume")
    BY <2>1, <2>2 DEF Typed, MailTypes, At, Running
  <2>3. Writing(e).held = Consumed(e)
    BY <2>1, PutCases
  <2>4. QED
    BY <2>1, <2>2, <2>3 DEF Quiet, Loses
<1>4. ASSUME NEW w \in adrift, Land(w) PROVE Quiet \/ Lands(w)
  <2>1. UNCHANGED <<backend, sender, life, at, held, received, stepped>> /\ adrift' = adrift \ {w}
    BY <1>4, LandFacts DEF workerVars
  <2>2. QED
    BY <1>4, <2>1, LandFacts DEF Quiet, Lands, At, Running
<1>5. ASSUME NEW e \in Executions, RecvStep(e)
      PROVE  Quiet \/ Receive(e) \/ ListMessages(e) \/ Marks(e) \/ Loses(e)
  BY <1>3, <1>5, RecvCases DEF RecvStep
<1>6. QED
  BY <1>1, <1>2, <1>4, <1>5, StepCases, SenderCalm

\* What becomes of the senders, and of what is noted of them.
LEMMA Noted ==
  ASSUME Typed, [Next]_vars
  PROVE  /\ backend' = backend /\ resent \subseteq resent' /\ stepped \subseteq stepped'
         /\ spoiled \subseteq spoiled'
         /\ backend = "memory" => resent' = resent
<1>1. CASE Quiet
  BY <1>1 DEF Quiet
<1>2. ASSUME NEW s \in Senders, Reads(s) \/ Sends(s) \/ Drops(s)
      PROVE  /\ backend' = backend /\ resent \subseteq resent' /\ stepped \subseteq stepped'
             /\ spoiled \subseteq spoiled'
             /\ backend = "memory" => resent' = resent
  <2>1. SenderStep(s) /\ spoiled \subseteq spoiled'
    BY <1>2 DEF Reads, Sends, Drops
  <2>2. QED
    BY <2>1, SenderMoves, SenderPuts
<1>3. ASSUME NEW e \in Executions, Receive(e) \/ ListMessages(e)
      PROVE  UNCHANGED <<backend, resent, stepped>> /\ spoiled \subseteq spoiled'
  BY <1>3, ReceiveFacts, ListFacts DEF Aside
<1>4. ASSUME NEW e \in Executions, Marks(e) \/ Loses(e)
      PROVE  UNCHANGED <<backend, resent, stepped>> /\ spoiled \subseteq spoiled'
  BY <1>4 DEF Marks, Loses, Aside
<1>5. ASSUME NEW w \in adrift, Lands(w)
      PROVE  /\ UNCHANGED <<backend, stepped>> /\ resent \subseteq resent'
             /\ spoiled \subseteq spoiled' /\ backend # "memory"
  BY <1>5 DEF Lands, Typed, Adrift
<1>6. QED
  BY <1>1, <1>2, <1>3, <1>4, <1>5, MailCases

\* Each sender stays where it is, reads its clock, or goes on.
LEMMA SenderChange ==
  ASSUME Typed, [Next]_vars, NEW t \in Senders
  PROVE  /\ sender[t].number \in Nat /\ sender'[t].number \in Nat
         /\ \/ sender'[t] = sender[t]
            \/ /\ SenderStep(t) /\ sender[t].stamp = None
               /\ sender'[t].number = sender[t].number
               /\ sender'[t].stamp \in Time /\ sender'[t].last = sender'[t].stamp
               /\ sender'[t].last > sender[t].last \/ t \in stepped'
               /\ UNCHANGED <<mail, adrift>>
            \/ /\ SenderStep(t) /\ sender'[t].number = sender[t].number + 1
               /\ sender'[t].stamp = None /\ sender'[t].last = sender[t].last
<1>1. sender[t].number \in Nat
  BY DEF Typed, MailTypes, Sender
<1>2. sender'[t].number \in Nat
  <2>1. sender' \in [Senders -> Sender]
    BY StepTyped DEF Typed, MailTypes
  <2>2. QED
    BY <2>1 DEF Sender
<1>3. CASE \E s \in Senders : SenderStep(s)
  <2>1. PICK s \in Senders : SenderStep(s)
    BY <1>3
  <2>2. CASE t # s
    BY <1>1, <1>2, <2>1, <2>2, SenderMoves
  <2>3. CASE t = s
    BY <1>1, <1>2, <2>1, <2>3, SenderMoves
  <2>4. QED
    BY <2>2, <2>3
<1>4. CASE sender' = sender
  BY <1>1, <1>2, <1>4
<1>5. CASE OtherStep
  BY <1>4, <1>5, OtherTyped
<1>6. ASSUME NEW e \in Executions, RestStep(e) PROVE sender' = sender
  BY <1>6, RestPuts
<1>7. ASSUME NEW e \in Executions, RecvStep(e) PROVE sender' = sender
  BY <1>7, ReceiveFacts, ListFacts, RecvCases DEF RecvStep, Aside, Marks, Misses
<1>8. ASSUME NEW w \in adrift, Land(w) PROVE sender' = sender
  BY <1>8, LandFacts
<1>9. QED
  BY <1>3, <1>4, <1>5, <1>6, <1>7, <1>8, StepCases
-----------------------------------------------------------------------------
(* Numbers and stamps.                                                     *)

\* The rows of puts that may still be applied.
Drifting == {w.held : w \in {v \in adrift : v.at \in {"send", "consume"}}}

\* The rows there are, and the copies of rows that executions hold, or that are adrift.
Copies ==
  {mail[k] : k \in 1..Len(mail)} \cup ({held[e] : e \in Executions} \ {NoMail}) \cup Drifting

\* The sender has gone on since, or is sending it again.
Known(m) ==
  \/ m.number < sender[m.from].number
  \/ m.number = sender[m.from].number /\ sender[m.from].stamp # None /\ m \in resent

AllKnown ==
  /\ \A x \in Copies : Known(x.of)
  /\ \A e \in Executions : \A i \in 1..Len(received[e]) : Known(received[e][i])

\* The memory store has the messages of a sender in the order of their numbers,
InOrder ==
  backend = "memory" =>
    \A i, j \in 1..Len(mail) :
      i < j /\ mail[i].of.from = mail[j].of.from => mail[i].of.number < mail[j].of.number

\* the SQL stores in the order of their stamps, if the clock moves on.
SameStamp(x, y) == x.of = y.of => x.stamp = y.stamp
LaterStamp(x, y) ==
  x.of.from = y.of.from /\ x.of.from \notin stepped /\ x.of.number < y.of.number
    => x.stamp <= y.stamp
UnderWay(s, x) ==
  x.of.from = s =>
    /\ sender[s].stamp # None /\ x.of.number = sender[s].number => x.stamp = sender[s].stamp
    /\ s \notin stepped => x.stamp <= sender[s].last

Stamped ==
  backend = "sql" =>
    /\ Distinct
    /\ \A x, y \in Copies : SameStamp(x, y) /\ LaterStamp(x, y)
    /\ \A s \in Senders, x \in Copies : UnderWay(s, x)

Ordered == AllKnown /\ InOrder /\ Stamped

\* Where copies are.
LEMMA CopyFacts ==
  /\ \A k \in 1..Len(mail) : mail[k] \in Copies
  /\ \A e \in Executions : held[e] # NoMail => held[e] \in Copies
  /\ \A w \in adrift : w.at \in {"send", "consume"} => w.held \in Copies
  /\ Typed => Copies \subseteq Mail
<1>1. \A k \in 1..Len(mail) : mail[k] \in Copies
  BY DEF Copies
<1>2. \A e \in Executions : held[e] # NoMail => held[e] \in Copies
  BY DEF Copies
<1>3. ASSUME Typed, NEW x \in Copies PROVE x \in Mail
  <2>1. CASE x \in {mail[k] : k \in 1..Len(mail)}
    BY <1>3, <2>1, ElementOfSeq DEF Typed, MailTypes
  <2>2. CASE x \in {held[e] : e \in Executions} \ {NoMail}
    BY <1>3, <2>2 DEF Typed, MailTypes
  <2>3. CASE x \in Drifting
    BY <1>3, <2>3 DEF Typed, Adrift, Whole, Drifting
  <2>4. QED
    BY <2>1, <2>2, <2>3 DEF Copies
<1>4. \A w \in adrift : w.at \in {"send", "consume"} => w.held \in Copies
  BY DEF Copies, Drifting
<1>5. QED
  BY <1>1, <1>2, <1>3, <1>4

\* The same message with the same stamp is known.
Alike(x) == \E y \in Copies : x.of = y.of /\ x.stamp = y.stamp

\* A put adds copies of its row only.
LEMMA PutCopies ==
  ASSUME Typed, NEW row \in Mail, PutMail(row), held' = held, adrift' \subseteq adrift,
         NEW x \in Copies'
  PROVE  Alike(x) \/ x = row
<1>1. CASE x \in {held'[e] : e \in Executions} \ {NoMail}
  BY <1>1 DEF Alike, Copies
<1>2. CASE x \in {mail'[k] : k \in 1..Len(mail')}
  <2>1. PICK k \in 1..Len(mail') : x = mail'[k]
    BY <1>2
  <2>2. x = row \/ (k \in 1..Len(mail) /\ x = mail[k])
    BY <2>1, PutFacts DEF Typed, MailTypes
  <2>3. QED
    BY <2>2, CopyFacts DEF Alike
<1>3. CASE x \in Drifting'
  BY <1>3, CopyFacts DEF Alike, Drifting
<1>4. QED
  BY <1>1, <1>2, <1>3 DEF Copies

\* A sender has sent its message, whether the row is there or adrift.
Issues(s) == sender[s].stamp # None /\ (Sends(s) \/ Drops(s))

\* It goes on, or is sending it again.
LEMMA IssuesFacts ==
  ASSUME Typed, NEW s \in Senders, Issues(s)
  PROVE  /\ sender[s].stamp # None /\ sender[s].last = sender[s].stamp /\ sender[s].stamp \in Nat
         /\ Sending(s).held \in Mail /\ Sending(s).held.of = Message(s)
         /\ ~Sending(s).held.consumed /\ Sending(s).held.stamp = sender[s].stamp
         /\ Message(s).from = s /\ Message(s).number = sender[s].number
         /\ Message(s) \in Messages /\ sender[s].number \in Nat
         /\ \/ /\ sender'[s].number = sender[s].number + 1 /\ sender'[s].stamp = None
               /\ sender'[s].last = sender[s].last
            \/ sender' = sender /\ Message(s) \in resent' /\ backend = "sql"
         /\ stepped' = stepped
         /\ \A t \in Senders : t # s => sender'[t] = sender[t]
<1>1. sender[s].stamp # None /\ SenderStep(s)
  BY DEF Issues, Sends, Drops
<1>2. /\ sender[s].last = sender[s].stamp /\ sender[s].number \in Nat
  BY <1>1 DEF Typed, Sound, MailTypes, Sender
<1>3. sender[s].stamp \in Nat
  BY <1>1, OwnRows, RowFacts
<1>4. \/ /\ sender'[s].number = sender[s].number + 1 /\ sender'[s].stamp = None
         /\ sender'[s].last = sender[s].last /\ stepped' = stepped
      \/ sender' = sender /\ Message(s) \in resent' /\ backend = "sql" /\ stepped' = stepped
  BY <1>1, SenderMoves
<1>5. \A t \in Senders : t # s => sender'[t] = sender[t]
  BY <1>1, SenderMoves
<1>6. QED
  BY <1>1, <1>2, <1>3, <1>4, <1>5, OwnRows

\* Copies after a step.
LEMMA CopiesChange ==
  ASSUME Typed, [Next]_vars, NEW x \in Copies'
  PROVE  Alike(x) \/ \E s \in Senders : Issues(s) /\ x = Sending(s).held
<1>1. /\ mail \in Seq(Mail) /\ held \in [Executions -> Mail \cup {NoMail}]
  BY DEF Typed, MailTypes
<1>2. ASSUME NEW y \in Copies, x = y PROVE Alike(x)
  BY <1>2 DEF Alike
<1>3. x \in {mail'[k] : k \in 1..Len(mail')} \/ x \in {held'[e] : e \in Executions} \ {NoMail}
      \/ x \in Drifting'
  BY DEF Copies
<1>4. ASSUME UNCHANGED <<mail, held>>, adrift' \subseteq adrift PROVE Alike(x)
  BY <1>3, <1>2, <1>4 DEF Copies, Drifting
<1>5. CASE Quiet
  <2>1. UNCHANGED <<mail, held>>
    BY <1>5 DEF Quiet
  <2>2. CASE x \in Drifting'
    <3>1. PICK w \in adrift' : x = w.held /\ w.at \in {"send", "consume"}
      BY <2>2 DEF Drifting
    <3>2. CASE w \in adrift
      BY <1>2, <3>1, <3>2, CopyFacts
    <3>3. ASSUME NEW e \in Executions, at[e] = "consume", w.held = Consumed(e) PROVE Alike(x)
      <4>1. /\ held[e] \in Mail /\ x.of = held[e].of /\ x.stamp = held[e].stamp
        BY <3>1, <3>3, OwnRows
      <4>2. held[e] \in Copies
        BY <4>1, CopyFacts, MessageFacts
      <4>3. QED
        BY <4>1, <4>2 DEF Alike
    <3>4. QED
      BY <1>5, <3>1, <3>2, <3>3 DEF Quiet
  <2>3. CASE x \notin Drifting'
    BY <1>2, <1>3, <2>1, <2>3 DEF Copies
  <2>4. QED
    BY <2>2, <2>3
<1>6. ASSUME NEW s \in Senders, Reads(s) PROVE Alike(x)
  BY <1>4, <1>6, SenderCalm DEF Reads
<1>7. ASSUME NEW s \in Senders, Sends(s) PROVE Alike(x) \/ (Issues(s) /\ x = Sending(s).held)
  <2>1. Issues(s) /\ PutMail(Sending(s).held) /\ adrift' = adrift /\ SenderStep(s)
    BY <1>7 DEF Issues, Sends
  <2>2. Sending(s).held \in Mail /\ held' = held
    BY <2>1, IssuesFacts, SenderCalm
  <2>3. QED
    BY <2>1, <2>2, PutCopies
<1>8. ASSUME NEW s \in Senders, Drops(s) PROVE Alike(x) \/ (Issues(s) /\ x = Sending(s).held)
  <2>1. SenderStep(s) /\ mail' = mail
        /\ (adrift' = adrift \/ (sender[s].stamp # None /\ adrift' = adrift \cup {Sending(s)}))
    BY <1>8 DEF Drops
  <2>2. held' = held
    BY <2>1, SenderCalm
  <2>3. CASE adrift' = adrift
    BY <1>4, <2>1, <2>2, <2>3
  <2>4. CASE sender[s].stamp # None /\ adrift' = adrift \cup {Sending(s)}
    <3>1. Issues(s)
      BY <1>8, <2>4 DEF Issues
    <3>2. CASE x \in Drifting'
      <4>1. PICK w \in adrift' : x = w.held /\ w.at \in {"send", "consume"}
        BY <3>2 DEF Drifting
      <4>2. CASE w \in adrift
        BY <1>2, <4>1, <4>2, CopyFacts
      <4>3. CASE w = Sending(s)
        BY <3>1, <4>1, <4>3
      <4>4. QED
        BY <2>4, <4>1, <4>2, <4>3
    <3>3. CASE x \notin Drifting'
      BY <1>2, <1>3, <2>1, <2>2, <3>3 DEF Copies
    <3>4. QED
      BY <3>2, <3>3
  <2>5. QED
    BY <2>1, <2>3, <2>4
<1>9. ASSUME NEW i \in 1..Len(mail), NEW e \in Executions, held' = [held EXCEPT ![e] = mail[i]],
             adrift' = adrift, x \notin {mail'[k] : k \in 1..Len(mail')}
      PROVE  Alike(x)
  <2>1. CASE x \in Drifting'
    BY <1>9, <2>1, CopyFacts DEF Alike, Drifting
  <2>2. CASE x \in {held'[f] : f \in Executions} \ {NoMail}
    <3>1. PICK f \in Executions : x = held'[f] /\ x # NoMail
      BY <2>2
    <3>2. x = mail[i] \/ x = held[f]
      BY <1>1, <1>9, <3>1
    <3>3. QED
      BY <3>1, <3>2, CopyFacts DEF Alike
  <2>3. QED
    BY <1>3, <1>9, <2>1, <2>2
<1>10. ASSUME NEW e \in Executions, Receive(e) PROVE Alike(x)
  <2>1. PICK i \in Unconsumed :
           /\ i \in 1..Len(mail) /\ mail[i] \in Mail
           /\ Len(mail') = Len(mail)
           /\ \A k \in 1..Len(mail) :
                mail'[k] = IF k = i THEN [mail[i] EXCEPT !.consumed = TRUE] ELSE mail[k]
           /\ held' = [held EXCEPT ![e] = mail[i]] /\ adrift' = adrift
    BY <1>10, ReceiveFacts
  <2>2. CASE x \in {mail'[k] : k \in 1..Len(mail')}
    <3>1. PICK k \in 1..Len(mail) : x = mail'[k]
      BY <2>1, <2>2
    <3>2. mail[k] \in Copies
      BY CopyFacts
    <3>3. x.of = mail[k].of /\ x.stamp = mail[k].stamp
      BY <2>1, <3>1 DEF Mail
    <3>4. QED
      BY <3>2, <3>3 DEF Alike
  <2>3. QED
    BY <1>9, <2>1, <2>2
<1>11. ASSUME NEW e \in Executions, ListMessages(e) PROVE Alike(x)
  <2>1. PICK i \in Unconsumed :
           /\ i \in 1..Len(mail) /\ held' = [held EXCEPT ![e] = mail[i]]
           /\ mail' = mail /\ adrift' = adrift
    BY <1>11, ListFacts
  <2>2. CASE x \in {mail'[k] : k \in 1..Len(mail')}
    BY <1>2, <2>1, <2>2, CopyFacts
  <2>3. QED
    BY <1>9, <2>1, <2>2
<1>12. ASSUME NEW e \in Executions, Marks(e) \/ Loses(e) PROVE Alike(x)
  <2>1. /\ at[e] # "recv" /\ PutMail(Consumed(e)) /\ held' = held /\ adrift' = adrift
    BY <1>12 DEF Marks, Loses, At
  <2>2. /\ held[e] \in Mail /\ Consumed(e) \in Mail /\ Consumed(e).of = held[e].of
        /\ Consumed(e).stamp = held[e].stamp
    BY <2>1, OwnRows
  <2>3. held[e] \in Copies
    BY <2>2, CopyFacts, MessageFacts
  <2>4. QED
    BY <2>1, <2>2, <2>3, PutCopies DEF Alike
<1>13. ASSUME NEW w \in adrift, Lands(w) PROVE Alike(x)
  <2>1. /\ w.held \in Mail /\ PutMail(w.held) /\ held' = held /\ adrift' \subseteq adrift
        /\ w.held \in Copies
    BY <1>13, CopyFacts DEF Lands
  <2>2. QED
    BY <2>1, PutCopies DEF Alike
<1>14. QED
  BY <1>5, <1>6, <1>7, <1>8, <1>10, <1>11, <1>12, <1>13, MailCases

\* What is given is a copy's.
LEMMA GivenChange ==
  ASSUME Typed, [Next]_vars
  PROVE  \/ received' = received
         \/ \E e \in Executions, m \in Messages :
              /\ Given(e, m) /\ \E y \in Copies : m = y.of
              /\ Receive(e) \/ Marks(e)
<1>1. ASSUME NEW e \in Executions, Receive(e), received' # received
      PROVE  \E m \in Messages : Given(e, m) /\ \E y \in Copies : m = y.of
  <2>1. PICK i \in 1..Len(mail) : Given(e, mail[i].of) /\ mail[i].of \in Messages
    BY <1>1, ReceiveFacts
  <2>2. QED
    BY <2>1, CopyFacts
<1>2. ASSUME NEW e \in Executions, Marks(e)
      PROVE  \E m \in Messages : Given(e, m) /\ \E y \in Copies : m = y.of
  <2>1. at[e] # "recv" /\ Given(e, held[e].of)
    BY <1>2 DEF Marks, At
  <2>2. held[e] \in Mail /\ held[e] \in Copies /\ held[e].of \in Messages
    BY <2>1, OwnRows, CopyFacts, MessageFacts, RowFacts
  <2>3. QED
    BY <2>1, <2>2
<1>3. \A s \in Senders : Reads(s) \/ Sends(s) \/ Drops(s) => received' = received
  BY SenderCalm DEF Reads, Sends, Drops
<1>4. \A e \in Executions : ListMessages(e) => received' = received
  BY ListFacts
<1>5. QED
  BY <1>1, <1>2, <1>3, <1>4, MailCases DEF Quiet, Loses, Lands

\* A message that was sent, listed or received is known.
LEMMA KnownKept ==
  ASSUME Typed, AllKnown, [Next]_vars
  PROVE  AllKnown'
<1>1. Copies \subseteq Mail /\ resent \subseteq resent'
  BY CopyFacts, Noted
<1>2. \A m \in Messages : Known(m) => Known(m)'
  <2> SUFFICES ASSUME NEW m \in Messages, Known(m) PROVE Known(m)'
    OBVIOUS
  <2>1. m.from \in Senders /\ m.number \in Nat
    BY MessageFacts
  <2>2. PICK t \in Senders : t = m.from
    BY <2>1
  <2>3. sender[t].number \in Nat /\ sender'[t].number \in Nat
    BY SenderChange
  <2>4. CASE sender'[t] = sender[t]
    BY <1>1, <2>2, <2>4 DEF Known
  <2>5. CASE sender[t].stamp = None /\ sender'[t].number = sender[t].number
    BY <2>2, <2>5 DEF Known
  <2>6. CASE sender'[t].number = sender[t].number + 1
    BY <2>1, <2>2, <2>3, <2>6 DEF Known
  <2>7. QED
    BY <2>4, <2>5, <2>6, SenderChange
<1>3. \A y \in Copies : y.of \in Messages /\ Known(y.of)
  BY <1>1, RowFacts DEF AllKnown
<1>4. ASSUME NEW x \in Copies' PROVE Known(x.of)'
  <2>1. CASE Alike(x)
    <3>1. PICK y \in Copies : x.of = y.of
      BY <2>1 DEF Alike
    <3>2. QED
      BY <1>2, <1>3, <3>1
  <2>2. ASSUME NEW s \in Senders, Issues(s), x = Sending(s).held PROVE Known(x.of)'
    <3>1. /\ x.of = Message(s) /\ Message(s).from = s /\ Message(s).number = sender[s].number
          /\ sender[s].number \in Nat /\ sender[s].stamp # None
          /\ \/ sender'[s].number = sender[s].number + 1
             \/ sender' = sender /\ Message(s) \in resent'
      BY <2>2, IssuesFacts
    <3>2. PICK m : m = Message(s)
      OBVIOUS
    <3>3. Known(m)'
      BY <3>1, <3>2 DEF Known
    <3>4. x.of = m
      BY <3>1, <3>2
    <3>5. QED
      BY <3>3, <3>4
  <2>3. QED
    BY <2>1, <2>2, CopiesChange
<1>5. ASSUME NEW e \in Executions, NEW i \in 1..Len(received'[e]), NEW m, m = received'[e][i]
      PROVE  Known(m)'
  <2>1. received \in [Executions -> Seq(Messages)]
    BY DEF Typed, MailTypes
  <2>2. CASE i \in 1..Len(received[e]) /\ m = received[e][i]
    <3>1. m \in Messages
      BY <2>1, <2>2, ElementOfSeq
    <3>2. Known(m)
      BY <2>2 DEF AllKnown
    <3>3. QED
      BY <1>2, <3>1, <3>2
  <2>3. CASE \E y \in Copies : m = y.of
    BY <1>2, <1>3, <2>3
  <2>4. CASE received' = received
    BY <1>5, <2>2, <2>4
  <2>5. ASSUME NEW f \in Executions, NEW n \in Messages, Given(f, n), \E y \in Copies : n = y.of
        PROVE  Known(m)'
    <3>1. \/ i \in 1..Len(received[e]) /\ m = received[e][i]
          \/ m = n
      <4>1. /\ \A j \in 1..Len(received'[f]) :
                 j \in 1..Len(received[f]) \/ j = Len(received[f]) + 1
            /\ \A j \in 1..Len(received[f]) : received'[f][j] = received[f][j]
            /\ received'[f][Len(received[f]) + 1] = n
            /\ e # f => received'[e] = received[e]
        BY <2>1, <2>5, GivenFacts
      <4>2. QED
        BY <1>5, <4>1
    <3>2. QED
      BY <2>2, <2>3, <2>5, <3>1
  <2>6. QED
    BY <2>4, <2>5, GivenChange
<1>6. QED
  BY <1>4, <1>5 DEF AllKnown, Known

\* The memory store keeps the order of arrival.
LEMMA InOrderKept ==
  ASSUME Typed, AllKnown, InOrder, [Next]_vars
  PROVE  InOrder'
<1> SUFFICES ASSUME backend' = "memory" PROVE InOrder'
  BY DEF InOrder
<1>1. /\ backend = "memory" /\ mail \in Seq(Mail) /\ Len(mail) \in Nat
      /\ \A k \in 1..Len(mail) : mail[k].of \in Messages
      /\ \A i, j \in 1..Len(mail) :
           i < j /\ mail[i].of.from = mail[j].of.from => mail[i].of.number < mail[j].of.number
  BY Noted, LenProperties, ElementOfSeq, RowFacts DEF Typed, MailTypes, InOrder
<1>2. resent = {} /\ adrift = {}
  BY <1>1 DEF Typed, Adrift
<1>3. CASE mail' = mail
  BY <1>1, <1>3 DEF InOrder
<1>4. ASSUME NEW s \in Senders, Sends(s) PROVE InOrder'
  <2>1. PICK row \in Mail : row = Sending(s).held /\ row.of.from = s
                            /\ row.of.number = sender[s].number
    BY <1>4, OwnRows DEF Sends
  <2>2. PutMail(row)
    BY <1>4, <2>1 DEF Sends
  <2>3. mail' = Append(mail, row)
    BY <1>1, <2>2, PutFacts
  <2>4. /\ Len(mail') = Len(mail) + 1 /\ mail'[Len(mail) + 1] = row
        /\ \A k \in 1..Len(mail) : mail'[k] = mail[k]
    BY <1>1, <2>3, AppendProperties
  <2>5. \A k \in 1..Len(mail) : mail[k].of.from = s => mail[k].of.number < row.of.number
    BY <1>2, <2>1, CopyFacts DEF AllKnown, Known
  <2>6. ASSUME NEW i \in 1..Len(mail'), NEW j \in 1..Len(mail'),
               i < j, mail'[i].of.from = mail'[j].of.from
        PROVE  mail'[i].of.number < mail'[j].of.number
    <3>1. i \in 1..Len(mail) /\ (j \in 1..Len(mail) \/ j = Len(mail) + 1)
      BY <1>1, <2>4, <2>6
    <3>2. QED
      BY <1>1, <2>1, <2>4, <2>5, <2>6, <3>1
  <2>7. QED
    BY <2>6 DEF InOrder
<1>5. ASSUME NEW e \in Executions, Receive(e) PROVE InOrder'
  <2>1. /\ Len(mail') = Len(mail)
        /\ \A k \in 1..Len(mail) : mail'[k].of = mail[k].of
    <3>1. PICK i \in Unconsumed :
            /\ mail[i] \in Mail /\ Len(mail') = Len(mail)
            /\ \A k \in 1..Len(mail) :
                 mail'[k] = IF k = i THEN [mail[i] EXCEPT !.consumed = TRUE] ELSE mail[k]
      BY <1>5, ReceiveFacts
    <3>2. [mail[i] EXCEPT !.consumed = TRUE].of = mail[i].of
      BY <3>1 DEF Mail
    <3>3. QED
      BY <3>1, <3>2
  <2>2. QED
    BY <1>1, <2>1 DEF InOrder
<1>6. ASSUME NEW e \in Executions, At(e, "consume") PROVE FALSE
  BY <1>1, <1>6 DEF Typed, Progress, At
<1>7. \A e \in Executions : ListMessages(e) => mail' = mail
  BY ListFacts
<1>8. QED
  BY <1>2, <1>3, <1>4, <1>5, <1>6, <1>7, MailCases DEF Quiet, Reads, Drops, Marks, Loses

\* The stamps in a SQL store stay the numbers' order.
LEMMA StampedKept ==
  ASSUME Typed, AllKnown, Stamped, [Next]_vars
  PROVE  Stamped'
<1> SUFFICES ASSUME backend' = "sql" PROVE Stamped'
  BY DEF Stamped
<1>1. /\ backend = "sql" /\ mail \in Seq(Mail) /\ Distinct
      /\ stepped \subseteq stepped'
      /\ \A y \in Copies : /\ y.of \in Messages /\ y.of.from \in Senders /\ y.of.number \in Nat
                           /\ y.stamp \in Nat /\ Known(y.of)
  BY Noted, CopyFacts, RowFacts, MessageFacts DEF Typed, MailTypes, Stamped, AllKnown
<1>2. Distinct'
  <2>1. CASE mail' = mail
    BY <1>1, <2>1 DEF Distinct
  <2>2. ASSUME NEW row \in Mail, PutMail(row) PROVE Distinct'
    BY <1>1, <2>2, PutFacts
  <2>3. \A s \in Senders : Sends(s) => Sending(s).held \in Mail /\ PutMail(Sending(s).held)
    BY OwnRows DEF Sends
  <2>4. \A e \in Executions : Marks(e) \/ Loses(e) => Consumed(e) \in Mail /\ PutMail(Consumed(e))
    BY OwnRows DEF Marks, Loses, At
  <2>5. \A e \in Executions : ~Receive(e) /\ (ListMessages(e) => mail' = mail)
    BY <1>1, ReceiveFacts, ListFacts
  <2>6. \A w \in adrift : Lands(w) => w.held \in Mail /\ PutMail(w.held)
    BY DEF Lands
  <2>7. QED
    BY <2>1, <2>2, <2>3, <2>4, <2>5, <2>6, MailCases DEF Quiet, Reads, Drops
<1>3. ASSUME NEW s \in Senders, Issues(s), NEW x, x = Sending(s).held
      PROVE  /\ sender[s].stamp # None /\ sender[s].stamp \in Nat
             /\ sender[s].last = sender[s].stamp
             /\ x.of.from = s /\ x.of.number = sender[s].number
             /\ x.stamp = sender[s].stamp /\ sender[s].number \in Nat
  BY <1>3, IssuesFacts
<1>4. ASSUME NEW x \in Copies', Alike(x)
      PROVE  \E y \in Copies : x.of = y.of /\ x.stamp = y.stamp
  BY <1>4 DEF Alike
<1>5. ASSUME NEW x \in Copies', NEW y \in Copies'
      PROVE  SameStamp(x, y)' /\ LaterStamp(x, y)'
  <2>1. ASSUME NEW u \in Copies, NEW v \in Copies, x.of = u.of, x.stamp = u.stamp,
               y.of = v.of, y.stamp = v.stamp
        PROVE  SameStamp(x, y)' /\ LaterStamp(x, y)'
    <3>1. SameStamp(u, v) /\ LaterStamp(u, v)
      BY <1>1 DEF Stamped
    <3>2. QED
      BY <1>1, <2>1, <3>1 DEF SameStamp, LaterStamp
  <2>2. ASSUME NEW s \in Senders, Issues(s), NEW v \in Copies, NEW z, z = Sending(s).held,
               v.of.from = s
        PROVE  /\ v.of.number <= z.of.number
               /\ v.of.number = z.of.number => v.stamp = z.stamp
               /\ s \notin stepped => v.stamp <= z.stamp
    <3>1. Known(v.of) /\ UnderWay(s, v) /\ v.of.number \in Nat
      BY <1>1 DEF Stamped
    <3>2. QED
      BY <1>3, <2>2, <3>1 DEF Known, UnderWay
  <2>3. ASSUME NEW s \in Senders, Issues(s), x = Sending(s).held, NEW v \in Copies,
               y.of = v.of, y.stamp = v.stamp
        PROVE  SameStamp(x, y)' /\ LaterStamp(x, y)'
    <3>1. x.of.from = s /\ x.of.number \in Nat /\ v.of.number \in Nat
      BY <1>1, <1>3, <2>3
    <3>2. CASE v.of.from # s
      BY <2>3, <3>1, <3>2 DEF SameStamp, LaterStamp
    <3>3. CASE v.of.from = s
      <4>1. /\ v.of.number <= x.of.number
            /\ v.of.number = x.of.number => v.stamp = x.stamp
        BY <2>2, <2>3, <3>3
      <4>2. QED
        BY <2>3, <3>1, <4>1 DEF SameStamp, LaterStamp
    <3>4. QED
      BY <3>2, <3>3
  <2>4. ASSUME NEW s \in Senders, Issues(s), y = Sending(s).held, NEW u \in Copies,
               x.of = u.of, x.stamp = u.stamp
        PROVE  SameStamp(x, y)' /\ LaterStamp(x, y)'
    <3>1. y.of.from = s /\ y.of.number \in Nat /\ u.of.number \in Nat
      BY <1>1, <1>3, <2>4
    <3>2. CASE u.of.from # s
      BY <2>4, <3>1, <3>2 DEF SameStamp, LaterStamp
    <3>3. CASE u.of.from = s
      <4>1. /\ u.of.number = y.of.number => u.stamp = y.stamp
            /\ s \notin stepped => u.stamp <= y.stamp
        BY <2>2, <2>4, <3>3
      <4>2. QED
        BY <1>1, <2>4, <3>1, <3>3, <4>1 DEF SameStamp, LaterStamp
    <3>4. QED
      BY <3>2, <3>3
  <2>5. ASSUME NEW s \in Senders, NEW t \in Senders, Issues(s), Issues(t),
               x = Sending(s).held, y = Sending(t).held
        PROVE  SameStamp(x, y)' /\ LaterStamp(x, y)'
    <3>1. x.of.from = s /\ y.of.from = t /\ x.of.number \in Nat /\ x.stamp \in Nat
      BY <1>3, <2>5
    <3>2. CASE s = t
      BY <2>5, <3>1, <3>2 DEF SameStamp, LaterStamp
    <3>3. CASE s # t
      BY <3>1, <3>3 DEF SameStamp, LaterStamp
    <3>4. QED
      BY <3>2, <3>3
  <2>6. CASE Alike(x) /\ Alike(y)
    BY <1>4, <2>1, <2>6
  <2>7. CASE Alike(x) /\ ~Alike(y)
    BY <1>4, <2>4, <2>7, CopiesChange
  <2>8. CASE ~Alike(x) /\ Alike(y)
    BY <1>4, <2>3, <2>8, CopiesChange
  <2>9. CASE ~Alike(x) /\ ~Alike(y)
    BY <2>5, <2>9, CopiesChange
  <2>10. QED
    BY <2>6, <2>7, <2>8, <2>9
<1>6. ASSUME NEW s \in Senders, NEW x \in Copies' PROVE UnderWay(s, x)'
  <2>1. SUFFICES ASSUME x.of.from = s
                 PROVE  /\ sender'[s].stamp # None /\ x.of.number = sender'[s].number
                             => x.stamp = sender'[s].stamp
                        /\ s \notin stepped' => x.stamp <= sender'[s].last
    BY DEF UnderWay
  <2>2. \/ \E y \in Copies : x.of = y.of /\ x.stamp = y.stamp
        \/ Issues(s) /\ x = Sending(s).held
    <3>1. \A t \in Senders : Issues(t) /\ x = Sending(t).held => t = s
      BY <1>3, <2>1
    <3>2. QED
      BY <1>4, <3>1, CopiesChange
  <2>3. /\ sender[s].number \in Nat /\ sender[s].last \in Nat /\ sender'[s].last \in Nat
    <3>1. sender[s] \in Sender /\ sender'[s] \in Sender
      BY StepTyped DEF Typed, MailTypes
    <3>2. QED
      BY <3>1, CommunicationAssumption DEF Sender
  <2>4. CASE Issues(s) /\ x = Sending(s).held
    BY <1>3, <2>3, <2>4, IssuesFacts
  <2>5. ASSUME NEW y \in Copies, x.of = y.of, x.stamp = y.stamp
        PROVE  /\ sender'[s].stamp # None /\ x.of.number = sender'[s].number
                    => x.stamp = sender'[s].stamp
               /\ s \notin stepped' => x.stamp <= sender'[s].last
    <3>1. /\ y.of.from = s /\ y.of.number \in Nat /\ y.stamp \in Nat
          /\ Known(y.of) /\ UnderWay(s, y)
      BY <1>1, <2>1, <2>5 DEF Stamped
    <3>2. CASE sender'[s] = sender[s]
      BY <1>1, <2>5, <3>1, <3>2 DEF UnderWay
    <3>3. CASE /\ sender[s].stamp = None /\ sender'[s].number = sender[s].number
               /\ sender'[s].last > sender[s].last \/ s \in stepped'
      <4>1. y.of.number < sender[s].number
        BY <3>1, <3>3 DEF Known
      <4>2. s \notin stepped => y.stamp <= sender[s].last
        BY <3>1 DEF UnderWay
      <4>3. QED
        BY <1>1, <2>3, <2>5, <3>1, <3>3, <4>1, <4>2
    <3>4. CASE sender'[s].stamp = None /\ sender'[s].last = sender[s].last
      BY <1>1, <2>5, <3>1, <3>4 DEF UnderWay
    <3>5. QED
      BY <3>2, <3>3, <3>4, SenderChange
  <2>6. QED
    BY <2>2, <2>4, <2>5
<1>7. QED
  BY <1>2, <1>5, <1>6 DEF Stamped

\* Numbers and stamps agree, whatever the store.
LEMMA OrderedKept == Typed /\ Ordered /\ [Next]_vars => Ordered'
BY KnownKept, InOrderKept, StampedKept DEF Ordered
-----------------------------------------------------------------------------
(* No message is received twice, unless it was sent again.                  *)

\* What was received is marked.
Settled ==
  \A e \in Executions : \A k \in 1..Len(received[e]) : \A i \in 1..Len(mail) :
    mail[i].of = received[e][k] /\ mail[i].of \notin resent => mail[i].consumed

Lone == ~overlapped => \A e, f \in Executions : Running(e) /\ Running(f) => e = f

\* What an execution holds to mark nobody has received.
HeldNew ==
  ~overlapped => \A e \in Executions : At(e, "consume") /\ held[e].of \notin resent =>
    \A f \in Executions : \A k \in 1..Len(received[f]) : received[f][k] # held[e].of

Once ==
  backend = "memory" \/ ~overlapped =>
    \A e, f \in Executions : \A i \in 1..Len(received[e]), j \in 1..Len(received[f]) :
      received[e][i] = received[f][j] /\ received[e][i] \notin resent => e = f /\ i = j

Unique == Settled /\ Lone /\ HeldNew /\ Once

\* An execution starts to run by its begin only, which notes what is running.
LEMMA LifeChange ==
  ASSUME Typed, [Next]_vars
  PROVE  /\ ~overlapped' => ~overlapped
         /\ late => late'
         /\ \/ \E e \in Executions : Begin(e)
            \/ overlapped' = overlapped /\ \A f \in Executions : Running(f)' => Running(f)
<1>1. life \in [Executions -> Lives]
  BY DEF Typed, MailTypes
<1>2. CASE OtherStep
  BY <1>2, OtherTyped DEF workerVars, histories, Running
<1>3. ASSUME NEW s \in Senders, SenderStep(s)
      PROVE  /\ late' = late
             /\ overlapped' = overlapped /\ \A f \in Executions : Running(f)' => Running(f)
  BY <1>3, SenderPuts DEF Running
<1>4. ASSUME NEW e \in Executions, RecvStep(e)
      PROVE  /\ late' = late
             /\ overlapped' = overlapped /\ \A f \in Executions : Running(f)' => Running(f)
  <2>1. UNCHANGED <<late, overlapped>>
        /\ (life' = life \/ life' = [life EXCEPT ![e] = "failed"])
    BY <1>4, ReceiveFacts, ListFacts, RecvCases DEF RecvStep, Aside, Marks, Misses
  <2>2. QED
    BY <1>1, <2>1 DEF Running
<1>5. ASSUME NEW e \in Executions, RestStep(e) PROVE late' = late
  BY <1>5, RestPuts
<1>6. ASSUME NEW e \in Executions, RestStep(e), ~Begin(e)
      PROVE  overlapped' = overlapped /\ \A f \in Executions : Running(f)' => Running(f)
  <2>1. overlapped' = overlapped
    BY <1>6 DEF RestStep, TimeOut, ReadLength, WriteStream, SetEvent, CloseStream, PutFails,
                HandlerFails, Crash, histories
  <2>2. \/ life[e] = "running"
        \/ life' = life
    BY <1>6 DEF RestStep, TimeOut, ReadLength, WriteStream, SetEvent, CloseStream, PutFails,
                HandlerFails, Crash, At, Running
  <2>3. \A f \in Executions : Running(f)' => Running(f)
    BY <1>1, <1>6, <2>2, RestMoves DEF Running
  <2>4. QED
    BY <2>1, <2>3
<1>7. ASSUME NEW e \in Executions, Begin(e) PROVE ~overlapped' => ~overlapped
  BY <1>7 DEF Begin
<1>8. ASSUME NEW w \in adrift, Land(w)
      PROVE  /\ late => late'
             /\ overlapped' = overlapped /\ \A f \in Executions : Running(f)' => Running(f)
  BY <1>8, LandFacts DEF workerVars, Running
<1>9. QED
  BY <1>2, <1>3, <1>4, <1>5, <1>6, <1>7, <1>8, StepCases

\* Executions that overlap are noted.
LEMMA LoneKept ==
  ASSUME Typed, Lone, [Next]_vars
  PROVE  Lone'
<1>1. ASSUME NEW e \in Executions, Begin(e) PROVE Lone'
  BY <1>1 DEF Begin, Running, Lone, Typed, MailTypes
<1>2. QED
  BY <1>1, LifeChange DEF Lone

\* A message that is sent for the first time is new.
LEMMA NewMessage ==
  ASSUME Typed, AllKnown, NEW s \in Senders, sender[s].stamp # None, Message(s) \notin resent
  PROVE  /\ \A x \in Copies : x.of # Message(s)
         /\ \A e \in Executions : \A k \in 1..Len(received[e]) : received[e][k] # Message(s)
<1>1. Message(s).from = s /\ Message(s).number = sender[s].number /\ sender[s].number \in Nat
  <2>1. sender[s] \in Sender
    BY DEF Typed, MailTypes
  <2>2. QED
    BY <2>1, OwnRows DEF Sender
<1>2. ~Known(Message(s))
  BY <1>1 DEF Known
<1>3. QED
  BY <1>2 DEF AllKnown

\* What is not marked after a put of a marked row was there before, with another stamp.
LEMMA MarkFacts ==
  ASSUME Typed, Ordered, NEW e \in Executions, Marks(e) \/ Loses(e),
         NEW k \in 1..Len(mail'), ~mail'[k].consumed
  PROVE  /\ k \in 1..Len(mail) /\ mail'[k] = mail[k] /\ mail[k] \in Mail
         /\ held[e] \in Mail /\ mail[k].of # held[e].of
<1>1. At(e, "consume") /\ PutMail(Consumed(e)) /\ at[e] = "consume"
  BY DEF Marks, Loses, At
<1>2. /\ Consumed(e) \in Mail /\ Consumed(e).consumed /\ Consumed(e).stamp = held[e].stamp
      /\ held[e] \in Mail /\ held[e] # NoMail /\ backend = "sql"
  BY <1>1, OwnRows, MessageFacts DEF Typed, Progress
<1>3. /\ k \in 1..Len(mail) /\ mail'[k] = mail[k] /\ mail[k].stamp # held[e].stamp
  BY <1>1, <1>2, PutFacts DEF Typed, MailTypes
<1>4. mail[k] \in Copies /\ held[e] \in Copies /\ mail[k] \in Mail
  BY <1>2, <1>3, CopyFacts
<1>5. mail[k].of # held[e].of
  BY <1>2, <1>3, <1>4 DEF Ordered, Stamped, SameStamp
<1>6. QED
  BY <1>2, <1>3, <1>4, <1>5

\* A row that is put is marked, or of a message that is sent for the first time, or again.
LEMMA PutSettled ==
  ASSUME Typed, Settled, resent \subseteq resent', received' = received,
         NEW row \in Mail, PutMail(row),
         \/ row.consumed
         \/ row.of \in resent'
         \/ \A e \in Executions : \A k \in 1..Len(received[e]) : received[e][k] # row.of
  PROVE  Settled'
<1>1. \A i \in 1..Len(mail') : mail'[i] = row \/ (i \in 1..Len(mail) /\ mail'[i] = mail[i])
  BY PutFacts DEF Typed, MailTypes
<1>2. QED
  BY <1>1 DEF Settled

\* What is received is marked, and stays so.
LEMMA SettledKept ==
  ASSUME Typed, Ordered, Settled, [Next]_vars
  PROVE  Settled'
<1>1. AllKnown /\ received \in [Executions -> Seq(Messages)] /\ resent \subseteq resent'
  BY Noted DEF Ordered, Typed, MailTypes
<1>2. CASE UNCHANGED <<mail, received>>
  BY <1>1, <1>2 DEF Settled
<1>3. ASSUME NEW s \in Senders, Sends(s) PROVE Settled'
  <2>1. /\ received' = received /\ sender[s].stamp # None /\ PutMail(Sending(s).held)
    BY <1>3, SenderCalm DEF Sends
  <2>2. Sending(s).held \in Mail /\ Sending(s).held.of = Message(s)
    BY <2>1, OwnRows
  <2>3. CASE Message(s) \in resent
    BY <1>1, <2>1, <2>2, <2>3, PutSettled
  <2>4. CASE Message(s) \notin resent
    <3>1. \A e \in Executions : \A k \in 1..Len(received[e]) : received[e][k] # Sending(s).held.of
      BY <1>1, <2>1, <2>2, <2>4, NewMessage
    <3>2. QED
      BY <1>1, <2>1, <2>2, <3>1, PutSettled
  <2>5. QED
    BY <2>3, <2>4
<1>4. ASSUME NEW e \in Executions, Receive(e) PROVE Settled'
  <2>1. PICK n \in Unconsumed :
          /\ n \in 1..Len(mail) /\ mail[n] \in Mail /\ backend = "memory"
          /\ Len(mail') = Len(mail) /\ Len(mail) \in Nat
          /\ \A k \in 1..Len(mail) :
               mail'[k] = IF k = n THEN [mail[n] EXCEPT !.consumed = TRUE] ELSE mail[k]
          /\ mail[n].of \in Messages
          /\ Given(e, mail[n].of) \/ received' = received
    BY <1>4, ReceiveFacts
  <2>2. PICK m \in Messages : m = mail[n].of /\ (Given(e, m) \/ received' = received)
    BY <2>1
  <2>3. /\ mail'[n].consumed /\ mail'[n].of = m
        /\ \A k \in 1..Len(mail) : k # n => mail'[k] = mail[k]
    BY <2>1, <2>2 DEF Mail
  <2>4. \A k \in 1..Len(mail) : mail[k].of = m => k = n
    <3>1. m.number \in Nat
      BY MessageFacts
    <3>2. QED
      BY <2>1, <2>2, <3>1 DEF Ordered, InOrder
  <2>5. ASSUME NEW f \in Executions, NEW k \in 1..Len(received'[f]), NEW i \in 1..Len(mail'),
               mail'[i].of = received'[f][k], mail'[i].of \notin resent'
        PROVE  mail'[i].consumed
    <3>1. \/ k \in 1..Len(received[f]) /\ received'[f][k] = received[f][k]
          \/ received'[f][k] = m
      <4>1. CASE Given(e, m)
        <5>1. /\ \A j \in 1..Len(received'[e]) :
                   j \in 1..Len(received[e]) \/ j = Len(received[e]) + 1
              /\ \A j \in 1..Len(received[e]) : received'[e][j] = received[e][j]
              /\ received'[e][Len(received[e]) + 1] = m
              /\ f # e => received'[f] = received[f]
          BY <1>1, <2>2, <4>1, GivenFacts
        <5>2. QED
          BY <2>5, <5>1
      <4>2. QED
        BY <2>2, <2>5, <4>1
    <3>2. CASE i = n
      BY <2>3, <3>2
    <3>3. CASE i # n
      BY <1>1, <2>1, <2>3, <2>4, <2>5, <3>1, <3>3 DEF Settled
    <3>4. QED
      BY <3>2, <3>3
  <2>6. QED
    BY <2>5 DEF Settled
<1>5. ASSUME NEW e \in Executions, Marks(e) \/ Loses(e) PROVE Settled'
  <2>1. held[e].of \in Messages /\ (received' = received \/ Given(e, held[e].of))
    BY <1>5, OwnRows, RowFacts DEF Marks, Loses, At
  <2>2. PICK m \in Messages : m = held[e].of /\ (received' = received \/ Given(e, m))
    BY <2>1
  <2>3. ASSUME NEW f \in Executions, NEW k \in 1..Len(received'[f]), NEW i \in 1..Len(mail'),
               mail'[i].of = received'[f][k], mail'[i].of \notin resent', ~mail'[i].consumed
        PROVE  FALSE
    <3>1. \/ k \in 1..Len(received[f]) /\ received'[f][k] = received[f][k]
          \/ received'[f][k] = m
      <4>1. CASE Given(e, m)
        <5>1. /\ \A j \in 1..Len(received'[e]) :
                   j \in 1..Len(received[e]) \/ j = Len(received[e]) + 1
              /\ \A j \in 1..Len(received[e]) : received'[e][j] = received[e][j]
              /\ received'[e][Len(received[e]) + 1] = m
              /\ f # e => received'[f] = received[f]
          BY <1>1, <2>2, <4>1, GivenFacts
        <5>2. QED
          BY <2>3, <5>1
      <4>2. QED
        BY <2>2, <2>3, <4>1
    <3>2. i \in 1..Len(mail) /\ mail'[i] = mail[i] /\ mail[i].of # m
      BY <1>5, <2>2, <2>3, MarkFacts
    <3>3. QED
      BY <1>1, <2>3, <3>1, <3>2 DEF Settled
  <2>4. QED
    BY <2>3 DEF Settled
<1>6. ASSUME NEW w \in adrift, Lands(w) PROVE Settled'
  <2>1. /\ received' = received /\ w.held \in Mail /\ PutMail(w.held)
        /\ w.held.consumed \/ w.held.of \in resent'
    BY <1>6 DEF Lands
  <2>2. PICK row \in Mail : row = w.held
    BY <2>1
  <2>3. QED
    BY <1>1, <2>1, <2>2, PutSettled
<1>7. \A s \in Senders : Reads(s) \/ Drops(s) => UNCHANGED <<mail, received>>
  BY SenderCalm DEF Reads, Drops
<1>8. \A e \in Executions : ListMessages(e) => UNCHANGED <<mail, received>>
  BY ListFacts
<1>9. QED
  BY <1>2, <1>3, <1>4, <1>5, <1>6, <1>7, <1>8, MailCases DEF Quiet

\* Nobody else can receive what a lone execution holds.
LEMMA HeldNewKept ==
  ASSUME Typed, Typed', Ordered, Unique, [Next]_vars
  PROVE  HeldNew'
<1> SUFFICES ASSUME ~overlapped', NEW f \in Executions, At(f, "consume")',
                    held'[f].of \notin resent',
                    NEW g \in Executions, NEW k \in 1..Len(received'[g])
             PROVE  received'[g][k] # held'[f].of
  BY DEF HeldNew
<1>1. ~overlapped /\ backend' = "sql" /\ backend = "sql" /\ held'[f].of \notin resent
  BY LifeChange, Noted DEF Typed, Progress, At
<1>2. /\ held \in [Executions -> Mail \cup {NoMail}] /\ HeldNew /\ Settled /\ Lone
      /\ at \in [Executions -> Calls]
  BY DEF Typed, MailTypes, Unique
<1>3. CASE UNCHANGED <<held, received>> /\ At(f, "consume")
  BY <1>1, <1>2, <1>3 DEF HeldNew
<1>4. ASSUME NEW e \in Executions, Receive(e) PROVE FALSE
  BY <1>1, <1>4, ReceiveFacts
<1>5. ASSUME NEW e \in Executions, ListMessages(e) PROVE received'[g][k] # held'[f].of
  <2>1. PICK i \in Unconsumed :
           /\ i \in 1..Len(mail) /\ ~mail[i].consumed
           /\ held' = [held EXCEPT ![e] = mail[i]] /\ at' = [at EXCEPT ![e] = "consume"]
           /\ UNCHANGED <<life, received>>
    BY <1>5, ListFacts
  <2>2. CASE f = e
    <3>1. held'[f] = mail[i]
      BY <1>2, <2>1, <2>2
    <3>2. QED
      BY <1>1, <1>2, <2>1, <3>1 DEF Settled
  <2>3. CASE f # e
    <3>1. held'[f] = held[f] /\ At(f, "consume")
      BY <1>2, <2>1, <2>3 DEF At, Running
    <3>2. QED
      BY <1>1, <1>2, <2>1, <3>1 DEF HeldNew
  <2>4. QED
    BY <2>2, <2>3
<1>6. ASSUME NEW e \in Executions, Marks(e) PROVE FALSE
  <2>1. at' = [at EXCEPT ![e] = "length"] /\ life' = life /\ At(e, "consume")
    BY <1>6 DEF Marks, Given
  <2>2. f # e /\ At(f, "consume")
    BY <1>2, <2>1 DEF At, Running
  <2>3. QED
    BY <1>1, <1>2, <2>1, <2>2 DEF Lone, At
<1>7. ASSUME UNCHANGED <<held, received, at, life>> PROVE received'[g][k] # held'[f].of
  BY <1>3, <1>7 DEF At, Running
<1>8. \A s \in Senders : Reads(s) \/ Sends(s) \/ Drops(s) => UNCHANGED <<held, received, at, life>>
  BY SenderCalm DEF Reads, Sends, Drops
<1>9. QED
  BY <1>3, <1>4, <1>5, <1>6, <1>7, <1>8, MailCases DEF Quiet, Loses, Lands

\* No message is given a second time.
LEMMA OnceKept ==
  ASSUME Typed, Ordered, Unique, [Next]_vars
  PROVE  Once'
<1>1. /\ Settled /\ HeldNew /\ Once /\ received \in [Executions -> Seq(Messages)]
      /\ backend' = backend /\ resent \subseteq resent'
  BY Noted DEF Unique, Typed, MailTypes
<1>2. CASE received' = received
  BY <1>1, <1>2, LifeChange DEF Once
<1>3. ASSUME NEW e \in Executions, NEW m \in Messages, Given(e, m), Once,
             m \notin resent =>
               \A f \in Executions : \A k \in 1..Len(received[f]) : received[f][k] # m
      PROVE  \A g, f \in Executions : \A i \in 1..Len(received'[g]), j \in 1..Len(received'[f]) :
               (backend = "memory" \/ ~overlapped) /\ received'[g][i] = received'[f][j]
               /\ received'[g][i] \notin resent => g = f /\ i = j
  <2> SUFFICES ASSUME NEW g \in Executions, NEW f \in Executions,
                      NEW i \in 1..Len(received'[g]), NEW j \in 1..Len(received'[f]),
                      backend = "memory" \/ ~overlapped, received'[g][i] = received'[f][j],
                      received'[g][i] \notin resent
               PROVE  g = f /\ i = j
    OBVIOUS
  <2>1. \A h \in Executions : h # e => received'[h] = received[h]
    BY <1>1, <1>3, GivenFacts
  <2>2. /\ \A n \in 1..Len(received'[e]) : n \in 1..Len(received[e]) \/ n = Len(received[e]) + 1
        /\ \A n \in 1..Len(received[e]) : received'[e][n] = received[e][n]
        /\ received'[e][Len(received[e]) + 1] = m
    BY <1>1, <1>3, GivenFacts
  <2>3. \/ i \in 1..Len(received[g]) /\ received'[g][i] = received[g][i]
        \/ g = e /\ i = Len(received[e]) + 1 /\ received'[g][i] = m
    BY <2>1, <2>2
  <2>4. \/ j \in 1..Len(received[f]) /\ received'[f][j] = received[f][j]
        \/ f = e /\ j = Len(received[e]) + 1 /\ received'[f][j] = m
    BY <2>1, <2>2
  <2>5. QED
    BY <1>3, <2>3, <2>4 DEF Once
<1>4. ASSUME NEW e \in Executions, Receive(e), received' # received PROVE Once'
  <2>1. PICK n \in Unconsumed :
          /\ n \in 1..Len(mail) /\ ~mail[n].consumed
          /\ Given(e, mail[n].of) /\ mail[n].of \in Messages /\ overlapped' = overlapped
    BY <1>4, ReceiveFacts DEF Aside
  <2>2. PICK m \in Messages : m = mail[n].of /\ Given(e, m)
    BY <2>1
  <2>3. m \notin resent => \A f \in Executions : \A k \in 1..Len(received[f]) : received[f][k] # m
    BY <1>1, <2>1, <2>2 DEF Settled
  <2>4. \A g, f \in Executions : \A i \in 1..Len(received'[g]), j \in 1..Len(received'[f]) :
          (backend = "memory" \/ ~overlapped) /\ received'[g][i] = received'[f][j]
          /\ received'[g][i] \notin resent => g = f /\ i = j
    BY <1>1, <1>3, <2>2, <2>3
  <2>5. QED
    BY <1>1, <2>1, <2>4 DEF Once
<1>5. ASSUME NEW e \in Executions, Marks(e) PROVE Once'
  <2>1. /\ At(e, "consume") /\ Given(e, held[e].of) /\ held[e].of \in Messages
        /\ overlapped' = overlapped /\ backend = "sql"
    BY <1>5, OwnRows, RowFacts DEF Marks, Aside, At, Typed, Progress
  <2>2. PICK m \in Messages : m = held[e].of /\ Given(e, m)
    BY <2>1
  <2>3. CASE overlapped
    BY <1>1, <2>1, <2>3 DEF Once
  <2>4. CASE ~overlapped
    <3>1. m \notin resent =>
            \A f \in Executions : \A k \in 1..Len(received[f]) : received[f][k] # m
      BY <1>1, <2>1, <2>2, <2>4 DEF HeldNew
    <3>2. \A g, f \in Executions : \A i \in 1..Len(received'[g]), j \in 1..Len(received'[f]) :
            (backend = "memory" \/ ~overlapped) /\ received'[g][i] = received'[f][j]
            /\ received'[g][i] \notin resent => g = f /\ i = j
      BY <1>1, <1>3, <2>2, <3>1
    <3>3. QED
      BY <2>1, <1>1, <3>2 DEF Once
  <2>5. QED
    BY <2>3, <2>4
<1>6. QED
  BY <1>2, <1>4, <1>5, GivenChange
-----------------------------------------------------------------------------
(* The messages of one sender are received in its order, but for those it   *)
(* has sent again.                                                         *)

\* The stamps of a sender tell the order of its messages, or do not matter.
Steady(s) == backend = "memory" \/ s \notin stepped

\* A message that was sent once, and whose place its stamp tells.
Plain(m) == m \notin resent /\ Steady(m.from)

\* m comes after what the list has of its sender.
Newer(list, m) ==
  Plain(m) => \A k \in 1..Len(list) : list[k].from = m.from => list[k].number < m.number

NotLater(m, n) == Plain(n) /\ m.from = n.from => m.number <= n.number

Waiting == {mail[i].of : i \in Unconsumed}

\* What waits is newer than what an execution was given, and no older than what it holds
\* to mark.
Ahead ==
  \A e \in Executions :
    /\ \A m \in Waiting : Newer(received[e], m)
    /\ At(e, "consume") => /\ Newer(received[e], held[e].of)
                           /\ \A m \in Waiting : NotLater(held[e].of, m)

\* What is plain after a step was plain before it.
LEMMA PlainBefore ==
  ASSUME Typed, [Next]_vars
  PROVE  \A m : Plain(m)' => Plain(m)
BY Noted DEF Plain, Steady

\* What waits after a step has waited before, or is sent by it; what is marked waits no more.
LEMMA WaitingChange ==
  ASSUME Typed, Ordered, [Next]_vars, NEW m \in Waiting'
  PROVE  /\ \/ m \in Waiting \/ m \in resent'
            \/ \E s \in Senders : Sends(s) /\ m = Message(s)
         /\ \A e \in Executions : Marks(e) \/ Loses(e) => m \in Waiting /\ m # held[e].of
         /\ \A e \in Executions : Receive(e) => m \in Waiting
         /\ m \in Messages
<1>1. PICK k \in 1..Len(mail') : m = mail'[k].of /\ ~mail'[k].consumed
  BY DEF Waiting, Unconsumed
<1>2. \A i \in 1..Len(mail) : ~mail[i].consumed => mail[i].of \in Waiting
  BY DEF Waiting, Unconsumed
<1>3. m \in Messages
  BY <1>1, StepTyped, ElementOfSeq, RowFacts DEF Typed, MailTypes
<1>4. ASSUME NEW e \in Executions, Marks(e) \/ Loses(e) PROVE m # held[e].of /\ m \in Waiting
  BY <1>1, <1>2, <1>4, MarkFacts
<1>5. ASSUME mail' = mail PROVE m \in Waiting
  BY <1>5 DEF Waiting, Unconsumed
<1>6. ASSUME NEW s \in Senders, Sends(s) PROVE m \in Waiting \/ m = Message(s)
  <2>1. /\ Sending(s).held \in Mail /\ Sending(s).held.of = Message(s)
        /\ PutMail(Sending(s).held)
    BY <1>6, OwnRows DEF Sends
  <2>2. mail'[k] = Sending(s).held \/ (k \in 1..Len(mail) /\ mail'[k] = mail[k])
    BY <2>1, PutFacts DEF Typed, MailTypes
  <2>3. QED
    BY <1>1, <1>2, <2>1, <2>2
<1>7. ASSUME NEW e \in Executions, Receive(e) PROVE m \in Waiting
  <2>1. PICK i \in Unconsumed :
          /\ i \in 1..Len(mail) /\ mail[i] \in Mail /\ Len(mail') = Len(mail)
          /\ \A j \in 1..Len(mail) :
               mail'[j] = IF j = i THEN [mail[i] EXCEPT !.consumed = TRUE] ELSE mail[j]
    BY <1>7, ReceiveFacts
  <2>2. [mail[i] EXCEPT !.consumed = TRUE].consumed
    BY <2>1 DEF Mail
  <2>3. k # i /\ k \in 1..Len(mail) /\ mail'[k] = mail[k]
    BY <1>1, <2>1, <2>2
  <2>4. QED
    BY <1>1, <1>2, <2>3
<1>8. ASSUME NEW w \in adrift, Lands(w) PROVE m \in Waiting \/ m \in resent'
  <2>1. w.held \in Mail /\ PutMail(w.held) /\ (w.held.consumed \/ w.held.of \in resent')
    BY <1>8 DEF Lands
  <2>2. mail'[k] = w.held \/ (k \in 1..Len(mail) /\ mail'[k] = mail[k])
    BY <2>1, PutFacts DEF Typed, MailTypes
  <2>3. QED
    BY <1>1, <1>2, <2>1, <2>2
<1>9. \A e \in Executions : ListMessages(e) => mail' = mail
  BY ListFacts
<1>10. m \in Waiting \/ m \in resent' \/ \E s \in Senders : Sends(s) /\ m = Message(s)
  BY <1>4, <1>5, <1>6, <1>7, <1>8, <1>9, MailCases DEF Quiet, Reads, Drops
<1>11. QED
  BY <1>3, <1>4, <1>7, <1>10

\* What one more message does to the order of a list.
LEMMA NewerGiven ==
  ASSUME received \in [Executions -> Seq(Messages)], NEW e \in Executions, NEW m \in Messages,
         Given(e, m), NEW n, Newer(received[e], n),
         Plain(n) /\ m.from = n.from => m.number < n.number
  PROVE  Newer(received'[e], n)
BY GivenFacts DEF Newer

\* What is received from the memory store is the next of its sender.
LEMMA ReceivedFirst ==
  ASSUME Typed, Ordered, [Next]_vars, NEW e \in Executions, Receive(e)
  PROVE  \E m \in Messages :
           /\ Given(e, m) \/ received' = received
           /\ m \in Waiting
           /\ \A n \in Waiting' : n.from = m.from => m.number < n.number
<1>1. PICK i \in Unconsumed :
        /\ i \in 1..Len(mail) /\ mail[i] \in Mail /\ ~mail[i].consumed /\ First(i)
        /\ backend = "memory" /\ Len(mail') = Len(mail) /\ Len(mail) \in Nat
        /\ \A k \in 1..Len(mail) :
             mail'[k] = IF k = i THEN [mail[i] EXCEPT !.consumed = TRUE] ELSE mail[k]
        /\ mail[i].of \in Messages
        /\ Given(e, mail[i].of) \/ received' = received
  BY ReceiveFacts
<1>2. PICK m \in Messages : m = mail[i].of
  BY <1>1
<1>3. m \in Waiting
  BY <1>1, <1>2 DEF Waiting
<1>4. ASSUME NEW n \in Waiting', n.from = m.from PROVE m.number < n.number
  <2>1. PICK k \in 1..Len(mail) : n = mail'[k].of /\ ~mail'[k].consumed
    BY <1>1 DEF Waiting, Unconsumed
  <2>2. [mail[i] EXCEPT !.consumed = TRUE].consumed
    BY <1>1 DEF Mail
  <2>3. k # i /\ mail'[k] = mail[k] /\ ~mail[k].consumed
    BY <1>1, <2>1, <2>2
  <2>4. i <= k
    BY <1>1, <2>3 DEF First, Unconsumed
  <2>5. i < k
    BY <1>1, <2>3, <2>4
  <2>6. QED
    BY <1>1, <1>2, <1>4, <2>1, <2>3, <2>5 DEF Ordered, InOrder
<1>5. QED
  BY <1>1, <1>2, <1>3, <1>4

\* What is listed is the next of its sender.
LEMMA ListedFirst ==
  ASSUME Typed, Ordered, [Next]_vars, NEW e \in Executions, ListMessages(e)
  PROVE  \E m \in Waiting : /\ held'[e].of = m /\ \A f \in Executions : f # e => held'[f] = held[f]
                            /\ at' = [at EXCEPT ![e] = "consume"]
                            /\ UNCHANGED <<life, received, mail>>
                            /\ \A n \in Waiting : NotLater(m, n)
<1>1. PICK i \in Unconsumed :
        /\ i \in 1..Len(mail) /\ mail[i] \in Mail /\ ~mail[i].consumed /\ First(i)
        /\ backend = "sql" /\ held' = [held EXCEPT ![e] = mail[i]]
        /\ at' = [at EXCEPT ![e] = "consume"]
        /\ UNCHANGED <<mail, life, received>>
  BY ListFacts
<1>2. held'[e] = mail[i] /\ \A f \in Executions : f # e => held'[f] = held[f]
  BY <1>1 DEF Typed, MailTypes
<1>3. mail[i].of \in Waiting
  BY <1>1 DEF Waiting
<1>4. ASSUME NEW n \in Waiting PROVE NotLater(mail[i].of, n)
  <2>1. PICK k \in 1..Len(mail) : n = mail[k].of /\ ~mail[k].consumed
    BY DEF Waiting, Unconsumed
  <2>2. mail[i].stamp <= mail[k].stamp
    BY <1>1, <2>1 DEF First, Unconsumed
  <2>3. /\ mail[i] \in Copies /\ mail[k] \in Copies /\ mail[k] \in Mail
        /\ mail[i].of.number \in Nat /\ mail[k].of.number \in Nat
        /\ mail[i].stamp \in Nat /\ mail[k].stamp \in Nat
    BY <1>1, CopyFacts, RowFacts, MessageFacts
  <2>4. ASSUME mail[k].of.from = mail[i].of.from, mail[k].of.number < mail[i].of.number,
               Plain(mail[k].of)
        PROVE  FALSE
    <3>1. mail[k].stamp <= mail[i].stamp
      BY <1>1, <2>3, <2>4 DEF Ordered, Stamped, LaterStamp, Plain, Steady
    <3>2. mail[k].stamp = mail[i].stamp
      BY <2>2, <2>3, <3>1
    <3>3. k = i
      BY <1>1, <3>2 DEF Ordered, Stamped, Distinct
    <3>4. QED
      BY <2>3, <2>4, <3>3
  <2>5. QED
    BY <2>1, <2>3, <2>4 DEF NotLater
<1>5. QED
  BY <1>1, <1>2, <1>3, <1>4

\* Two messages of one sender and one number are one message.
LEMMA SameMessage ==
  \A m, n \in Messages :
    /\ m.number \in Nat
    /\ NotLater(m, n) /\ m # n => (Plain(n) /\ m.from = n.from => m.number < n.number)
<1>1. SUFFICES ASSUME NEW m \in Messages, NEW n \in Messages
               PROVE  /\ m.number \in Nat
                      /\ NotLater(m, n) /\ m # n
                           => (Plain(n) /\ m.from = n.from => m.number < n.number)
  OBVIOUS
<1>2. /\ m.number \in Nat /\ n.number \in Nat
      /\ m = [from |-> m.from, number |-> m.number] /\ n = [from |-> n.from, number |-> n.number]
  BY MessageFacts
<1>3. QED
  BY <1>2 DEF NotLater

\* A message that is sent for the first time comes after all that its sender has sent.
LEMMA SentLast ==
  ASSUME Typed, AllKnown, NEW s \in Senders, Sends(s), NEW n, n = Message(s), NEW e \in Executions
  PROVE  /\ Newer(received[e], n)
         /\ At(e, "consume") => NotLater(held[e].of, n)
<1>1. /\ n.from = s /\ n.number = sender[s].number /\ sender[s].number \in Nat /\ n \in Messages
      /\ received[e] \in Seq(Messages)
  <2>1. sender[s] \in Sender /\ received[e] \in Seq(Messages)
    BY DEF Typed, MailTypes
  <2>2. QED
    BY <2>1, OwnRows DEF Sends, Sender
<1>2. ASSUME Plain(n), NEW k \in 1..Len(received[e]), NEW m, m = received[e][k], m.from = s
      PROVE  m.number < n.number
  <2>1. m \in Messages /\ Known(m)
    BY <1>1, <1>2, ElementOfSeq DEF AllKnown
  <2>2. m = [from |-> m.from, number |-> m.number] /\ n = [from |-> n.from, number |-> n.number]
    BY <1>1, <2>1, MessageFacts
  <2>3. QED
    BY <1>1, <1>2, <2>1, <2>2 DEF Known, Plain
<1>3. ASSUME At(e, "consume"), held[e].of.from = s PROVE held[e].of.number <= n.number
  <2>1. held[e] \in Copies /\ held[e].of.number \in Nat
    BY <1>3, OwnRows, CopyFacts, RowFacts, MessageFacts DEF At
  <2>2. QED
    BY <1>1, <1>3, <2>1 DEF AllKnown, Known
<1>4. QED
  BY <1>1, <1>2, <1>3 DEF Newer, NotLater

\* The order is kept by a step that gives nothing to anybody, and by one that gives what
\* waits or is held.
LEMMA AheadKept ==
  ASSUME Typed, Typed', Ordered, Ahead, [Next]_vars
  PROVE  Ahead'
<1>1. /\ received \in [Executions -> Seq(Messages)] /\ held \in [Executions -> Mail \cup {NoMail}]
      /\ at \in [Executions -> Calls] /\ AllKnown
      /\ \A m : Plain(m)' => Plain(m)
  BY PlainBefore DEF Typed, MailTypes, Ordered
<1>2. ASSUME NEW m, NEW n, NotLater(m, n) PROVE NotLater(m, n)'
  BY <1>1, <1>2 DEF NotLater
<1>3. ASSUME NEW e \in Executions, NEW n, Newer(received[e], n), received'[e] = received[e]
      PROVE  Newer(received[e], n)'
  BY <1>1, <1>3 DEF Newer
<1>4. CASE UNCHANGED <<held, received>> /\ \A e \in Executions : At(e, "consume")' => At(e, "consume")
  <2>1. ASSUME NEW e \in Executions, NEW m \in Waiting'
        PROVE  /\ Newer(received[e], m)'
               /\ At(e, "consume") => NotLater(held[e].of, m)'
    <3>1. CASE m \in Waiting
      <4>1. Newer(received[e], m) /\ (At(e, "consume") => NotLater(held[e].of, m))
        BY <3>1 DEF Ahead
      <4>2. PICK h : h = held[e].of
        OBVIOUS
      <4>3. h' = h /\ held'[e].of = h
        BY <1>4, <4>2
      <4>4. QED
        BY <1>2, <1>3, <1>4, <4>1, <4>2, <4>3 DEF NotLater
    <3>2. ASSUME NEW s \in Senders, Sends(s), m = Message(s)
          PROVE  /\ Newer(received[e], m)'
                 /\ At(e, "consume") => NotLater(held[e].of, m)'
      <4>1. Newer(received[e], m) /\ (At(e, "consume") => NotLater(held[e].of, m))
        BY <1>1, <3>2, SentLast
      <4>2. PICK h : h = held[e].of
        OBVIOUS
      <4>3. QED
        BY <1>2, <1>3, <1>4, <4>1, <4>2 DEF NotLater
    <3>3. CASE m \in resent'
      BY <3>3 DEF Newer, NotLater, Plain
    <3>4. QED
      BY <3>1, <3>2, <3>3, WaitingChange
  <2>2. ASSUME NEW e \in Executions, At(e, "consume") PROVE Newer(received[e], held[e].of)'
    <3>1. PICK h : h = held[e].of
      OBVIOUS
    <3>2. Newer(received[e], h)
      BY <2>2, <3>1 DEF Ahead
    <3>3. Newer(received[e], h)'
      BY <1>3, <1>4, <3>2
    <3>4. held'[e].of = h
      BY <1>4, <3>1
    <3>5. QED
      BY <3>3, <3>4
  <2>3. QED
    BY <1>4, <2>1, <2>2 DEF Ahead
<1>5. ASSUME NEW e \in Executions, ListMessages(e) PROVE Ahead'
  <2>1. PICK m \in Waiting :
          /\ held'[e].of = m /\ \A f \in Executions : f # e => held'[f] = held[f]
          /\ at' = [at EXCEPT ![e] = "consume"] /\ UNCHANGED <<life, received, mail>>
          /\ \A n \in Waiting : NotLater(m, n)
    BY <1>5, ListedFirst
  <2>2. Waiting' = Waiting
    BY <2>1 DEF Waiting, Unconsumed
  <2>3. ASSUME NEW f \in Executions, At(f, "consume")', NEW h, h = held'[f].of
        PROVE  /\ Newer(received[f], h)
               /\ \A n \in Waiting : NotLater(h, n)
    <3>1. CASE f = e
      BY <2>1, <2>3, <3>1 DEF Ahead
    <3>2. CASE f # e
      <4>1. At(f, "consume") /\ held'[f] = held[f]
        BY <1>1, <2>1, <2>3, <3>2 DEF At, Running
      <4>2. QED
        BY <2>3, <4>1 DEF Ahead
    <3>3. QED
      BY <3>1, <3>2
  <2>4. ASSUME NEW f \in Executions, At(f, "consume")'
        PROVE  /\ Newer(received[f], held[f].of)'
               /\ \A n \in Waiting' : NotLater(held[f].of, n)'
    <3>1. PICK h : h = held'[f].of
      OBVIOUS
    <3>2. Newer(received[f], h)' /\ \A n \in Waiting' : NotLater(h, n)'
      BY <1>2, <1>3, <2>1, <2>2, <2>3, <2>4, <3>1
    <3>3. QED
      BY <3>1, <3>2
  <2>5. \A f \in Executions : \A n \in Waiting' : Newer(received[f], n)'
    BY <1>3, <2>1, <2>2 DEF Ahead
  <2>6. QED
    BY <2>4, <2>5 DEF Ahead
<1>6. ASSUME NEW e \in Executions, Receive(e) PROVE Ahead'
  <2>1. PICK m \in Messages :
          /\ Given(e, m) \/ received' = received
          /\ m \in Waiting
          /\ \A n \in Waiting' : n.from = m.from => m.number < n.number
    BY <1>6, ReceivedFirst
  <2>2. backend' = "memory"
    BY <1>6, ReceiveFacts, Noted
  <2>3. \A f \in Executions : ~At(f, "consume")'
    BY <2>2 DEF Typed, Progress, At
  <2>4. ASSUME NEW f \in Executions, NEW n \in Waiting' PROVE Newer(received[f], n)'
    <3>1. Newer(received[f], n)
      BY <1>6, WaitingChange DEF Ahead
    <3>2. CASE received'[f] = received[f]
      BY <1>3, <3>1, <3>2
    <3>3. CASE f = e /\ Given(e, m)
      <4>1. Newer(received'[e], n)
        BY <1>1, <2>1, <3>1, <3>3, NewerGiven
      <4>2. QED
        BY <1>1, <3>3, <4>1 DEF Newer
    <3>4. CASE f # e /\ Given(e, m)
      BY <1>1, <1>3, <3>1, <3>4, GivenFacts
    <3>5. QED
      BY <2>1, <3>2, <3>3, <3>4
  <2>5. QED
    BY <2>3, <2>4 DEF Ahead
<1>7. ASSUME NEW e \in Executions, Marks(e) PROVE Ahead'
  <2>1. /\ At(e, "consume") /\ Given(e, held[e].of) /\ held[e].of \in Messages
        /\ at' = [at EXCEPT ![e] = "length"] /\ life' = life /\ held' = held
    BY <1>7, OwnRows, RowFacts DEF Marks, Given, At
  <2>2. PICK m \in Messages : m = held[e].of /\ Given(e, m)
    BY <2>1
  <2>3. ASSUME NEW n \in Waiting' PROVE n \in Waiting /\ n \in Messages /\ n # m
    BY <1>7, <2>2, WaitingChange
  <2>4. ASSUME NEW n \in Waiting' PROVE Plain(n) /\ m.from = n.from => m.number < n.number
    <3>1. NotLater(m, n)
      BY <2>1, <2>2, <2>3 DEF Ahead
    <3>2. QED
      BY <2>3, <3>1, SameMessage
  <2>5. ASSUME NEW f \in Executions, NEW n \in Waiting' PROVE Newer(received[f], n)'
    <3>1. Newer(received[f], n)
      BY <2>3 DEF Ahead
    <3>2. CASE f = e
      <4>1. Newer(received'[e], n)
        BY <1>1, <2>2, <2>4, <3>1, <3>2, NewerGiven
      <4>2. QED
        BY <1>1, <3>2, <4>1 DEF Newer
    <3>3. CASE f # e
      BY <1>1, <1>3, <2>2, <3>1, <3>3, GivenFacts
    <3>4. QED
      BY <3>2, <3>3
  <2>6. ASSUME NEW f \in Executions, At(f, "consume")'
        PROVE  /\ Newer(received[f], held[f].of)'
               /\ \A n \in Waiting' : NotLater(held[f].of, n)'
    <3>1. f # e /\ At(f, "consume")
      BY <1>1, <2>1, <2>6 DEF At, Running
    <3>2. received'[f] = received[f]
      BY <1>1, <2>2, <3>1, GivenFacts
    <3>3. PICK h : h = held[f].of
      OBVIOUS
    <3>4. Newer(received[f], h) /\ \A n \in Waiting' : NotLater(h, n)
      BY <2>3, <3>1, <3>3 DEF Ahead
    <3>5. Newer(received[f], h)' /\ \A n \in Waiting' : NotLater(h, n)'
      BY <1>2, <1>3, <3>2, <3>4
    <3>6. held'[f].of = h
      BY <2>1, <3>3
    <3>7. QED
      BY <3>5, <3>6
  <2>7. QED
    BY <2>5, <2>6 DEF Ahead
<1>8. \A s \in Senders : Reads(s) \/ Sends(s) \/ Drops(s) => UNCHANGED <<held, received, at, life>>
  BY SenderCalm DEF Reads, Sends, Drops
<1>9. ASSUME UNCHANGED <<held, received, at, life>> PROVE Ahead'
  BY <1>4, <1>9 DEF At, Running
<1>10. QED
  BY <1>4, <1>5, <1>6, <1>7, <1>8, <1>9, MailCases DEF Quiet, Loses, Lands

\* The order of what was received is kept.
LEMMA OrderKept ==
  ASSUME Typed, Ordered, Ahead, SenderOrder, [Next]_vars
  PROVE  SenderOrder'
<1>1. received \in [Executions -> Seq(Messages)] /\ \A m : Plain(m)' => Plain(m)
  BY PlainBefore DEF Typed, MailTypes
<1>2. /\ resent \subseteq resent'
      /\ \A s : (backend' = "memory" \/ s \notin stepped') => (backend = "memory" \/ s \notin stepped)
  BY Noted
<1>3. CASE received' = received
  BY <1>2, <1>3 DEF SenderOrder
<1>4. ASSUME NEW e \in Executions, NEW m \in Messages, Given(e, m), Newer(received[e], m)
      PROVE  SenderOrder'
  <2>1. /\ \A f \in Executions : f # e => received'[f] = received[f]
        /\ Len(received[e]) \in Nat
        /\ \A i \in 1..Len(received[e]) : received'[e][i] = received[e][i]
        /\ received'[e][Len(received[e]) + 1] = m
        /\ \A i \in 1..Len(received'[e]) : i \in 1..Len(received[e]) \/ i = Len(received[e]) + 1
    BY <1>1, <1>4, GivenFacts
  <2>2. ASSUME NEW i \in 1..Len(received'[e]), NEW j \in 1..Len(received'[e]),
               i < j, received'[e][i].from = received'[e][j].from,
               backend' = "memory" \/ received'[e][i].from \notin stepped'
        PROVE  received'[e][i].number < received'[e][j].number \/ received'[e][j] \in resent'
    <3>1. i \in 1..Len(received[e])
      <4>1. i \in 1..Len(received[e]) \/ i = Len(received[e]) + 1
        BY <2>1
      <4>2. j \in 1..Len(received[e]) \/ j = Len(received[e]) + 1
        BY <2>1
      <4>3. QED
        BY <2>1, <2>2, <4>1, <4>2
    <3>2. CASE j \in 1..Len(received[e])
      BY <1>2, <2>1, <2>2, <3>1, <3>2 DEF SenderOrder
    <3>3. CASE j = Len(received[e]) + 1
      BY <1>2, <1>4, <2>1, <2>2, <3>1, <3>3 DEF Newer, Plain, Steady
    <3>4. QED
      BY <2>1, <3>2, <3>3
  <2>3. ASSUME NEW f \in Executions, f # e,
               NEW i \in 1..Len(received'[f]), NEW j \in 1..Len(received'[f]),
               i < j, received'[f][i].from = received'[f][j].from,
               backend' = "memory" \/ received'[f][i].from \notin stepped'
        PROVE  received'[f][i].number < received'[f][j].number \/ received'[f][j] \in resent'
    BY <1>2, <2>1, <2>3 DEF SenderOrder
  <2>4. QED
    BY <2>2, <2>3 DEF SenderOrder
<1>5. ASSUME NEW e \in Executions, Receive(e) PROVE SenderOrder'
  BY <1>3, <1>4, <1>5, ReceivedFirst DEF Ahead
<1>6. ASSUME NEW e \in Executions, Marks(e) PROVE SenderOrder'
  <2>1. At(e, "consume") /\ Given(e, held[e].of) /\ held[e].of \in Messages
    BY <1>6, OwnRows, RowFacts DEF Marks, At
  <2>2. PICK m \in Messages : m = held[e].of /\ Given(e, m)
    BY <2>1
  <2>3. QED
    BY <1>4, <2>1, <2>2 DEF Ahead
<1>7. QED
  BY <1>3, <1>5, <1>6, GivenChange
-----------------------------------------------------------------------------
(* No message is lost.                                                      *)

Had(m) == \E e \in Executions : \E k \in 1..Len(received[e]) : received[e][k] = m

Safe(m) == m \in Waiting \/ Had(m) \/ m \in spoiled

Kept == \A s \in Senders : \A n \in sender[s].told : Safe([from |-> s, number |-> n])

\* What a put takes away is the row's own message, or is noted.
LEMMA PutSafe ==
  ASSUME Typed, NEW row \in Mail, PutMail(row), NEW m \in Waiting
  PROVE  m \in Waiting' \/ m = row.of \/ m \in Replaced(row)
<1>1. PICK k \in 1..Len(mail) : m = mail[k].of /\ ~mail[k].consumed
  BY DEF Waiting, Unconsumed
<1>2. /\ k \in 1..Len(mail')
      /\ mail'[k] = mail[k] \/ (backend = "sql" /\ mail[k].stamp = row.stamp)
  BY PutFacts DEF Typed, MailTypes
<1>3. CASE mail'[k] = mail[k]
  BY <1>1, <1>2, <1>3 DEF Waiting, Unconsumed
<1>4. CASE backend = "sql" /\ mail[k].stamp = row.stamp
  BY <1>1, <1>4 DEF Replaced, Keyed
<1>5. QED
  BY <1>2, <1>3, <1>4

\* A row that is put and not marked waits.
LEMMA PutWaits ==
  ASSUME Typed, NEW row \in Mail, PutMail(row), ~row.consumed
  PROVE  row.of \in Waiting'
<1>1. PICK k \in 1..Len(mail') : mail'[k] = row
  BY PutFacts DEF Typed, MailTypes
<1>2. QED
  BY <1>1 DEF Waiting, Unconsumed

\* What was received has been received ever since.
LEMMA HadStays ==
  ASSUME Typed, [Next]_vars, NEW m, Had(m)
  PROVE  Had(m)'
<1>1. received \in [Executions -> Seq(Messages)]
  BY DEF Typed, MailTypes
<1>2. PICK f \in Executions : \E k \in 1..Len(received[f]) : received[f][k] = m
  BY DEF Had
<1>3. PICK k \in 1..Len(received[f]) : received[f][k] = m
  BY <1>2
<1>4. CASE received' = received
  BY <1>3, <1>4 DEF Had
<1>5. ASSUME NEW e \in Executions, NEW n \in Messages, Given(e, n) PROVE Had(m)'
  <2>1. CASE f = e
    <3>1. k \in 1..Len(received'[e]) /\ received'[e][k] = m
      BY <1>1, <1>3, <1>5, <2>1, GivenFacts
    <3>2. QED
      BY <3>1 DEF Had
  <2>2. CASE f # e
    <3>1. received'[f] = received[f]
      BY <1>1, <1>5, <2>2, GivenFacts
    <3>2. QED
      BY <1>3, <3>1 DEF Had
  <2>3. QED
    BY <2>1, <2>2
<1>6. QED
  BY <1>4, <1>5, GivenChange

\* What is given has been received.
LEMMA GivenHad ==
  ASSUME Typed, NEW e \in Executions, NEW m \in Messages, Given(e, m)
  PROVE  Had(m)'
<1>1. /\ received'[e][Len(received[e]) + 1] = m /\ Len(received[e]) \in Nat
      /\ Len(received'[e]) = Len(received[e]) + 1
  BY GivenFacts DEF Typed, MailTypes
<1>2. Len(received[e]) + 1 \in 1..Len(received'[e])
  BY <1>1
<1>3. QED
  BY <1>1, <1>2 DEF Had

\* A safe message stays safe.
LEMMA SafeStays ==
  ASSUME Typed, [Next]_vars, NEW m, Safe(m)
  PROVE  Safe(m)'
<1>1. spoiled \subseteq spoiled'
  BY Noted
<1>2. CASE Had(m)
  BY <1>2, HadStays DEF Safe
<1>3. CASE m \in spoiled
  BY <1>1, <1>3 DEF Safe
<1>4. CASE m \in Waiting
  <2>1. ASSUME mail' = mail PROVE Safe(m)'
    BY <1>4, <2>1 DEF Safe, Waiting, Unconsumed
  <2>2. ASSUME NEW s \in Senders, Sends(s) PROVE Safe(m)'
    <3>1. /\ Sending(s).held \in Mail /\ Sending(s).held.of = Message(s)
          /\ PutMail(Sending(s).held) /\ ~Sending(s).held.consumed
          /\ spoiled' = spoiled \cup Replaced(Sending(s).held)
      BY <2>2, OwnRows DEF Sends
    <3>2. PICK row \in Mail : row = Sending(s).held
      BY <3>1
    <3>3. m \in Waiting' \/ m = row.of \/ m \in Replaced(row)
      BY <1>4, <3>1, <3>2, PutSafe
    <3>4. row.of \in Waiting'
      BY <3>1, <3>2, PutWaits
    <3>5. QED
      BY <3>1, <3>2, <3>3, <3>4 DEF Safe
  <2>3. ASSUME NEW e \in Executions, Receive(e) PROVE Safe(m)'
    <3>1. PICK i \in Unconsumed :
            /\ i \in 1..Len(mail) /\ Len(mail') = Len(mail)
            /\ \A k \in 1..Len(mail) :
                 mail'[k] = IF k = i THEN [mail[i] EXCEPT !.consumed = TRUE] ELSE mail[k]
            /\ mail[i].of \in Messages
            /\ Given(e, mail[i].of) \/ spoiled' = spoiled \cup {mail[i].of}
      BY <2>3, ReceiveFacts
    <3>2. PICK k \in 1..Len(mail) : m = mail[k].of /\ ~mail[k].consumed
      BY <1>4 DEF Waiting, Unconsumed
    <3>3. CASE k = i
      BY <3>1, <3>2, <3>3, GivenHad DEF Safe
    <3>4. CASE k # i
      <4>1. mail'[k] = mail[k] /\ k \in 1..Len(mail')
        BY <3>1, <3>4
      <4>2. QED
        BY <3>2, <4>1 DEF Safe, Waiting, Unconsumed
    <3>5. QED
      BY <3>3, <3>4
  <2>4. ASSUME NEW e \in Executions, Marks(e) \/ Loses(e) PROVE Safe(m)'
    <3>1. /\ Consumed(e) \in Mail /\ Consumed(e).of = held[e].of /\ held[e].of \in Messages
          /\ PutMail(Consumed(e))
      BY <2>4, OwnRows, RowFacts DEF Marks, Loses, At
    <3>2. m \in Waiting' \/ m = held[e].of \/ m \in Replaced(Consumed(e))
      BY <1>4, <3>1, PutSafe
    <3>3. CASE Marks(e)
      <4>1. Given(e, held[e].of) /\ Replaced(Consumed(e)) \subseteq spoiled'
        BY <3>3 DEF Marks
      <4>2. QED
        BY <3>1, <3>2, <4>1, GivenHad DEF Safe
    <3>4. CASE Loses(e)
      BY <3>2, <3>4 DEF Safe, Loses
    <3>5. QED
      BY <2>4, <3>3, <3>4
  <2>5. ASSUME NEW w \in adrift, Lands(w) PROVE Safe(m)'
    <3>1. /\ w.held \in Mail /\ PutMail(w.held) /\ w.at \in {"send", "consume"}
          /\ spoiled' = spoiled \cup Risked(w)
      BY <2>5 DEF Lands
    <3>2. m \in Waiting' \/ m = w.held.of \/ m \in Replaced(w.held)
      BY <1>4, <3>1, PutSafe
    <3>3. /\ Replaced(w.held) \subseteq spoiled'
          /\ w.at = "consume" => w.held.of \in spoiled'
      BY <3>1 DEF Risked
    <3>4. CASE w.at = "send"
      <4>1. ~w.held.consumed
        BY <3>4 DEF Typed, Adrift, Whole
      <4>2. w.held.of \in Waiting'
        BY <3>1, <4>1, PutWaits
      <4>3. QED
        BY <3>2, <3>3, <4>2 DEF Safe
    <3>5. CASE w.at = "consume"
      BY <3>2, <3>3, <3>5 DEF Safe
    <3>6. QED
      BY <3>1, <3>4, <3>5
  <2>6. \A e \in Executions : ListMessages(e) => mail' = mail
    BY ListFacts
  <2>7. QED
    BY <2>1, <2>2, <2>3, <2>4, <2>5, <2>6, MailCases DEF Quiet, Reads, Drops
<1>5. QED
  BY <1>2, <1>3, <1>4 DEF Safe

\* What a sender is told was sent is safe from then on.
LEMMA KeptStays ==
  ASSUME Typed, Kept, [Next]_vars
  PROVE  Kept'
<1>1. ASSUME NEW t \in Senders, NEW n \in sender[t].told PROVE Safe([from |-> t, number |-> n])'
  BY <1>1, SafeStays DEF Kept
<1>2. ASSUME NEW s \in Senders, Sends(s), NEW n, n = sender[s].number
      PROVE  Safe([from |-> s, number |-> n])'
  <2>1. /\ Sending(s).held \in Mail /\ Sending(s).held.of = Message(s)
        /\ PutMail(Sending(s).held) /\ ~Sending(s).held.consumed
    BY <1>2, OwnRows DEF Sends
  <2>2. PICK row \in Mail : row = Sending(s).held
    BY <2>1
  <2>3. row.of \in Waiting'
    BY <2>1, <2>2, PutWaits
  <2>4. row.of = [from |-> s, number |-> n]
    BY <1>2, <2>1, <2>2 DEF Message
  <2>5. QED
    BY <2>3, <2>4 DEF Safe
<1>3. ASSUME NEW t \in Senders, NEW n \in sender'[t].told
      PROVE  n \in sender[t].told \/ (Sends(t) /\ n = sender[t].number)
  <2>1. CASE sender' = sender
    BY <1>3, <2>1
  <2>2. ASSUME NEW s \in Senders, Reads(s) \/ Sends(s) \/ Drops(s)
        PROVE  n \in sender[t].told \/ (Sends(t) /\ n = sender[t].number)
    <3>1. SenderStep(s)
      BY <2>2 DEF Reads, Sends, Drops
    <3>2. CASE t # s
      BY <1>3, <3>1, <3>2, SenderMoves
    <3>3. CASE t = s
      BY <1>3, <2>2, <3>3 DEF Reads, Sends, Drops, Turns, Repeats
    <3>4. QED
      BY <3>2, <3>3
  <2>3. \A e \in Executions : Receive(e) \/ ListMessages(e) => sender' = sender
    BY ReceiveFacts, ListFacts DEF Aside
  <2>4. QED
    BY <2>1, <2>2, <2>3, MailCases DEF Quiet, Marks, Aside, Loses, Lands
<1>4. ASSUME NEW t \in Senders, NEW n \in sender'[t].told PROVE Safe([from |-> t, number |-> n])'
  BY <1>1, <1>2, <1>3, <1>4
<1>5. QED
  BY <1>4 DEF Kept
-----------------------------------------------------------------------------
(* Who asks for the event.                                                  *)

\* Statements that fail are paid for.
Paid == budget["fault"] <= Budget["fault"] /\ EventAnswered

\* Nothing gives the budget back.
LEMMA BudgetSpent ==
  ASSUME Typed, [Next]_vars
  PROVE  /\ budget["fault"] \in Nat /\ budget'["fault"] \in Nat
         /\ budget'["fault"] <= budget["fault"]
<1>1. budget \in [Kinds -> Nat]
  BY DEF Typed, MailTypes
<1>2. ASSUME NEW kind \in Kinds, Spend(kind)
      PROVE  budget'["fault"] \in Nat /\ budget'["fault"] <= budget["fault"]
  BY <1>1, <1>2 DEF Spend, Kinds
<1>3. budget' = budget \/ \E kind \in Kinds : Spend(kind)
  <2>1. CASE OtherStep
    BY <2>1 DEF OtherStep, GetEvent, GetEventTimesOut, PollStream, PollStreamFails, Fault, Unfit,
                vars, Kinds
  <2>2. ASSUME NEW s \in Senders, SenderStep(s) PROVE budget' = budget \/ \E kind \in Kinds : Spend(kind)
    BY <2>2, SenderPuts DEF Kinds
  <2>3. ASSUME NEW e \in Executions, RestStep(e)
        PROVE  budget' = budget \/ \E kind \in Kinds : Spend(kind)
    BY <2>3, RestPuts
  <2>4. ASSUME NEW e \in Executions, RecvStep(e)
        PROVE  budget' = budget \/ \E kind \in Kinds : Spend(kind)
    BY <2>4, ReceiveFacts, ListFacts, RecvCases DEF RecvStep, Marks, Misses, Kinds
  <2>5. ASSUME NEW w \in adrift, Land(w) PROVE budget' = budget
    BY <2>5, LandFacts
  <2>6. QED
    BY <2>1, <2>2, <2>3, <2>4, <2>5, StepCases
<1>4. QED
  BY <1>1, <1>2, <1>3 DEF Kinds

\* The waiter is answered by its own steps only.
LEMMA WaiterChange ==
  ASSUME Typed, [Next]_vars
  PROVE  waiter' = waiter \/ GetEvent \/ GetEventTimesOut
<1>1. CASE OtherStep
  BY <1>1 DEF OtherStep, PollStream, PollStreamFails, vars
<1>2. ASSUME NEW s \in Senders, SenderStep(s) PROVE waiter' = waiter
  BY <1>2, SenderPuts
<1>3. ASSUME NEW e \in Executions, RestStep(e) PROVE waiter' = waiter
  BY <1>3, RestPuts
<1>4. ASSUME NEW e \in Executions, RecvStep(e) PROVE waiter' = waiter
  BY <1>4, ReceiveFacts, ListFacts, RecvCases DEF RecvStep, Aside, Marks, Misses
<1>5. ASSUME NEW w \in adrift, Land(w) PROVE waiter' = waiter
  BY <1>5, LandFacts
<1>6. QED
  BY <1>1, <1>2, <1>3, <1>4, <1>5, StepCases

\* An execution that is done has set the event: only a poll that fails misses it.
LEMMA PaidStays ==
  ASSUME Typed, Paid, [Next]_vars
  PROVE  Paid'
<1>1. /\ budget \in [Kinds -> Nat] /\ Budget["fault"] \in Nat
      /\ budget["fault"] \in Nat /\ budget'["fault"] \in Nat /\ budget'["fault"] <= budget["fault"]
  BY BudgetSpent, CommunicationAssumption DEF Typed, MailTypes
<1>2. CASE waiter' = waiter
  BY <1>1, <1>2 DEF Paid, EventAnswered
<1>3. CASE GetEvent
  <2>1. waiter' # "timeout"
    BY <1>3 DEF GetEvent
  <2>2. QED
    BY <1>1, <2>1 DEF Paid, EventAnswered
<1>4. CASE GetEventTimesOut
  <2>1. CASE Fault
    <3>1. budget'["fault"] < budget["fault"]
      BY <1>1, <2>1 DEF Fault, Spend, Kinds
    <3>2. QED
      BY <1>1, <3>1 DEF Paid, EventAnswered
  <2>2. CASE event = NoMessage
    <3>1. ~Answered
      BY <2>2 DEF Typed, Progress, Answered
    <3>2. waiter' = "early"
      BY <1>4, <3>1 DEF GetEventTimesOut
    <3>3. QED
      BY <1>1, <3>2 DEF Paid, EventAnswered
  <2>3. QED
    BY <1>4, <2>1, <2>2 DEF GetEventTimesOut
<1>5. QED
  BY <1>2, <1>3, <1>4, WaiterChange
-----------------------------------------------------------------------------
(* The invariants hold of what the program reaches.                         *)

MailInv == Typed /\ Ordered /\ Unique /\ Ahead /\ SenderOrder /\ Kept /\ Paid

\* Nothing was sent, held or received at the beginning.
LEMMA InitMail == Init => MailInv
<1> SUFFICES ASSUME Init PROVE MailInv
  OBVIOUS
<1>1. Typed
  BY InitTyped
<1>2. /\ Len(mail) = 0 /\ Unconsumed = {} /\ 1..Len(mail) = {}
      /\ \A e \in Executions : Len(received[e]) = 0 /\ 1..Len(received[e]) = {} /\ ~Running(e)
      /\ \A s \in Senders : sender[s].told = {}
  BY DEF Init, Unconsumed, Running
<1>3. Copies = {}
  <2>1. \A e \in Executions : held[e] = NoMail
    BY DEF Init
  <2>2. adrift = {}
    BY DEF Init
  <2>3. QED
    BY <1>2, <2>1, <2>2 DEF Copies, Drifting
<1>4. Ordered
  BY <1>2, <1>3 DEF Ordered, AllKnown, InOrder, Stamped, Distinct
<1>5. Unique
  BY <1>2 DEF Unique, Settled, Lone, HeldNew, Once, At
<1>6. Ahead /\ SenderOrder /\ Kept
  BY <1>2 DEF Ahead, Newer, Waiting, At, SenderOrder, Kept
<1>7. Paid
  BY CommunicationAssumption DEF Init, Paid, EventAnswered
<1>8. QED
  BY <1>1, <1>4, <1>5, <1>6, <1>7 DEF MailInv

\* Every step keeps all of them.
LEMMA StepMail == MailInv /\ [Next]_vars => MailInv'
<1> SUFFICES ASSUME MailInv, [Next]_vars PROVE MailInv'
  OBVIOUS
<1>1. Typed /\ Ordered /\ Unique /\ Ahead /\ SenderOrder /\ Kept /\ Paid /\ Settled /\ Lone
  BY DEF MailInv, Unique
<1>2. Typed' /\ Ordered'
  BY <1>1, StepTyped, OrderedKept
<1>3. Settled' /\ Lone' /\ Once'
  BY <1>1, SettledKept, LoneKept, OnceKept
<1>4. HeldNew'
  BY <1>1, <1>2, HeldNewKept
<1>5. Ahead' /\ SenderOrder'
  BY <1>1, <1>2, AheadKept, OrderKept
<1>6. Kept' /\ Paid'
  BY <1>1, KeptStays, PaidStays
<1>7. QED
  BY <1>2, <1>3, <1>4, <1>5, <1>6 DEF MailInv, Unique

\* So they hold at all times.
LEMMA Reached == Spec => []MailInv
BY InitMail, StepMail, PTL DEF Spec

\* One of no more than one place.
LEMMA OncePlace ==
  ASSUME Once, backend = "memory" \/ ~overlapped, NEW m, m \notin resent
  PROVE  Cardinality(Handed(m)) <= 1
<1>1. \A g, h \in Handed(m) : g = h
  <2>1. ASSUME NEW g \in Handed(m), NEW h \in Handed(m) PROVE g[1] = h[1] /\ g[2] = h[2]
    <3>1. /\ g[1] \in Executions /\ g[2] \in 1..Len(received[g[1]]) /\ received[g[1]][g[2]] = m
          /\ h[1] \in Executions /\ h[2] \in 1..Len(received[h[1]]) /\ received[h[1]][h[2]] = m
      BY DEF Handed
    <3>2. QED
      BY <3>1 DEF Once
  <2>2. \A g \in Handed(m) : g = <<g[1], g[2]>>
    BY DEF Handed
  <2>3. QED
    BY <2>1, <2>2
<1>2. CASE Handed(m) = {}
  BY <1>2, FS_EmptySet
<1>3. CASE Handed(m) # {}
  <2>1. PICK h : Handed(m) = {h}
    BY <1>1, <1>3
  <2>2. Cardinality({h}) = 1
    BY FS_Singleton, Zenon
  <2>3. QED
    BY <2>1, <2>2
<1>4. QED
  BY <1>2, <1>3

\* No message is received twice, by one execution or by two, unless two executions run at
\* the same time over a SQL store, or its put was sent again or applied late (recv,
\* context.rs; put, store.rs).
THEOREM MessageOnce == Spec => []ReceivedOnce
<1>1. MailInv => ReceivedOnce
  BY OncePlace DEF MailInv, Unique, ReceivedOnce
<1>2. QED
  BY <1>1, Reached, PTL

\* What one sender has sent is received in that order while its clock moves on, but for
\* messages that were sent again or applied late (send and recv, context.rs; put, store.rs).
THEOREM OneSendersOrder == Spec => []SenderOrder
<1>1. MailInv => SenderOrder
  BY DEF MailInv
<1>2. QED
  BY <1>1, Reached, PTL

\* What a sender was told was sent is stored or was received, unless a call of recv failed
\* after it had marked the message, or another message had its stamp.
THEOREM MailKept == Spec => []NotLost
<1>1. ASSUME MailInv, NEW s \in Senders, NEW n \in sender[s].told,
             NEW m, m = [from |-> s, number |-> n]
      PROVE  Stored(m) \/ Handed(m) # {} \/ m \in spoiled
  <2>1. Safe(m)
    BY <1>1 DEF MailInv, Kept
  <2>2. CASE m \in Waiting
    BY <2>2 DEF Waiting, Stored
  <2>3. CASE Had(m)
    <3>1. PICK e \in Executions : \E k \in 1..Len(received[e]) : received[e][k] = m
      BY <2>3 DEF Had
    <3>2. PICK k \in 1..Len(received[e]) : received[e][k] = m
      BY <3>1
    <3>3. Len(received[e]) \in Nat /\ Len(received[e]) <= Wanted /\ Wanted \in Nat
      BY <1>1, LenProperties, CommunicationAssumption DEF MailInv, Typed, MailTypes, Progress
    <3>4. <<e, k>> \in Handed(m)
      BY <3>2, <3>3 DEF Handed
    <3>5. QED
      BY <3>4
  <2>4. QED
    BY <2>1, <2>2, <2>3 DEF Safe
<1>2. MailInv => NotLost
  BY <1>1 DEF NotLost
<1>3. QED
  BY <1>2, Reached, PTL

\* Who asks for the event of a workflow that is done times out only if a poll failed
\* (get_event, context.rs).
THEOREM EventFound == Spec => []EventAnswered
<1>1. MailInv => EventAnswered
  BY DEF MailInv, Paid
<1>2. QED
  BY <1>1, Reached, PTL
-----------------------------------------------------------------------------
(* Places in a stream, and their ranks.                                     *)

\* A set of naturals has a least one.
LEMMA LeastPlace ==
  ASSUME NEW T \in SUBSET Nat, T # {}
  PROVE  \E i \in T : \A j \in T : i <= j
<1>1. \E i \in T : \A j \in T : ~(<<j, i>> \in OpToRel(<, Nat))
  BY NatLessThanWellFounded, WFMin, Zenon
<1>2. \A i, j \in Nat : ~(<<j, i>> \in OpToRel(<, Nat)) => i <= j
  BY DEF OpToRel
<1>3. QED
  BY <1>1, <1>2

\* Ranks are numbers, and count the places up to one.
LEMMA RankType ==
  ASSUME NEW size \in Nat, NEW P \in SUBSET (1..size)
  PROVE  /\ IsFiniteSet(P) /\ Cardinality(P) \in Nat
         /\ \A i \in Nat : /\ Rank(P, i) \in Nat /\ Rank(P, i) <= Cardinality(P)
                           /\ IsFiniteSet({j \in P : j <= i})
         /\ Rank(P, 0) = 0 /\ Rank(P, size) = Cardinality(P)
<1>1. IsFiniteSet(1..size)
  BY FS_Interval
<1>2. IsFiniteSet(P)
  BY <1>1, FS_Subset, Zenon
<1>3. Cardinality(P) \in Nat
  BY <1>2, FS_CardinalityType, Zenon
<1>4. ASSUME NEW i \in Nat
      PROVE  /\ Rank(P, i) \in Nat /\ Rank(P, i) <= Cardinality(P)
             /\ IsFiniteSet({j \in P : j <= i})
  <2>1. {j \in P : j <= i} \in SUBSET P
    OBVIOUS
  <2>2. /\ IsFiniteSet({j \in P : j <= i})
        /\ Cardinality({j \in P : j <= i}) <= Cardinality(P)
    BY <1>2, <2>1, FS_Subset, Zenon
  <2>3. Cardinality({j \in P : j <= i}) \in Nat
    BY <2>2, FS_CardinalityType, Zenon
  <2>4. QED
    BY <2>2, <2>3 DEF Rank
<1>5. {j \in P : j <= 0} = {} /\ {j \in P : j <= size} = P
  <2>1. \A j \in P : j <= size /\ ~(j <= 0)
    OBVIOUS
  <2>2. QED
    BY <2>1
<1>6. Rank(P, 0) = 0 /\ Rank(P, size) = Cardinality(P)
  BY <1>5, FS_EmptySet DEF Rank
<1>7. QED
  BY <1>2, <1>3, <1>4, <1>6

\* The next place adds one, if it is a place of the set.
LEMMA RankNext ==
  ASSUME NEW size \in Nat, NEW P \in SUBSET (1..size), NEW i \in 1..size
  PROVE  Rank(P, i) = IF i \in P THEN Rank(P, i - 1) + 1 ELSE Rank(P, i - 1)
<1> DEFINE Before == {j \in P : j <= i - 1}
<1>1. i - 1 \in Nat
  OBVIOUS
<1>2. IsFiniteSet(Before)
  BY <1>1, RankType
<1>3. i \notin Before
  OBVIOUS
<1>4. {j \in P : j <= i} = IF i \in P THEN Before \cup {i} ELSE Before
  <2>1. \A j \in P : j <= i <=> j <= i - 1 \/ j = i
    OBVIOUS
  <2>2. QED
    BY <2>1
<1>5. Rank(P, i - 1) = Cardinality(Before) /\ Rank(P, i) = Cardinality({j \in P : j <= i})
  BY DEF Rank
<1> HIDE DEF Before
<1>6. Cardinality(Before \cup {i}) = Cardinality(Before) + 1
  BY <1>2, <1>3, FS_AddElement
<1>7. QED
  BY <1>4, <1>5, <1>6

\* A later place has a higher rank.
LEMMA RankRises ==
  ASSUME NEW size \in Nat, NEW P \in SUBSET (1..size), NEW i \in P, NEW j \in P, i < j
  PROVE  Rank(P, i) < Rank(P, j)
<1> DEFINE Below(k) == {l \in P : l <= k}
<1>1. i \in Nat /\ j \in Nat
  OBVIOUS
<1>2. /\ Rank(P, i) \in Nat /\ Rank(P, j) \in Nat
      /\ IsFiniteSet(Below(j))
  BY <1>1, RankType
<1>3. Below(i) \in SUBSET Below(j) /\ j \in Below(j) /\ j \notin Below(i)
  <2>1. \A l \in P : l <= i => l <= j
    BY <1>1
  <2>2. j <= j /\ ~(j <= i)
    BY <1>1
  <2>3. QED
    BY <2>1, <2>2
<1>4. Rank(P, i) = Cardinality(Below(i)) /\ Rank(P, j) = Cardinality(Below(j))
  BY DEF Rank
<1> HIDE DEF Below
<1>5. Cardinality(Below(i)) <= Cardinality(Below(j)) /\ Cardinality(Below(i)) # Cardinality(Below(j))
  BY <1>2, <1>3, FS_Subset
<1>6. QED
  BY <1>2, <1>4, <1>5

\* One place has each rank.
LEMMA RankFound ==
  ASSUME NEW size \in Nat, NEW P \in SUBSET (1..size), NEW n \in 1..Cardinality(P)
  PROVE  /\ \E i \in P : Rank(P, i) = n
         /\ \A i, j \in P : Rank(P, i) = n /\ Rank(P, j) = n => i = j
<1>1. /\ Cardinality(P) \in Nat /\ \A i \in Nat : Rank(P, i) \in Nat
      /\ Rank(P, 0) = 0 /\ Rank(P, size) = Cardinality(P)
  BY RankType
<1> DEFINE T == {i \in 0..size : Rank(P, i) >= n}
<1>2. T \in SUBSET Nat /\ size \in T
  BY <1>1
<1>3. PICK i \in T : \A j \in T : i <= j
  BY <1>2, LeastPlace
<1>4. i \in 1..size
  BY <1>1, <1>3
<1>5. i - 1 \in 0..size /\ i - 1 \notin T
  BY <1>3, <1>4
<1>6. Rank(P, i - 1) < n /\ Rank(P, i) >= n /\ Rank(P, i) \in Nat /\ Rank(P, i - 1) \in Nat /\ n \in Nat
  BY <1>1, <1>3, <1>4, <1>5
<1>7. Rank(P, i) = IF i \in P THEN Rank(P, i - 1) + 1 ELSE Rank(P, i - 1)
  BY <1>4, RankNext
<1>8. i \in P /\ Rank(P, i) = n
  BY <1>6, <1>7
<1>9. ASSUME NEW k \in P, NEW j \in P, Rank(P, k) = n, Rank(P, j) = n PROVE k = j
  <2>1. k \in Nat /\ j \in Nat
    OBVIOUS
  <2>2. ~(k < j) /\ ~(j < k)
    <3>1. k < j => Rank(P, k) < Rank(P, j)
      BY RankRises
    <3>2. j < k => Rank(P, j) < Rank(P, k)
      BY RankRises
    <3>3. n \in Nat
      BY <1>1
    <3>4. QED
      BY <1>9, <3>1, <3>2, <3>3
  <2>3. QED
    BY <2>1, <2>2
<1>10. QED
  BY <1>8, <1>9

\* A place at the end leaves the earlier ones their ranks, and has the next.
LEMMA RankLast ==
  ASSUME NEW size \in Nat, NEW P \in SUBSET (1..size)
  PROVE  /\ \A i \in 1..size : Rank(P \cup {size + 1}, i) = Rank(P, i)
         /\ Rank(P \cup {size + 1}, size + 1) = Cardinality(P) + 1
         /\ Cardinality(P \cup {size + 1}) = Cardinality(P) + 1
<1>1. IsFiniteSet(P) /\ size + 1 \notin P
  BY RankType
<1>2. Cardinality(P \cup {size + 1}) = Cardinality(P) + 1
  BY <1>1, FS_AddElement
<1>3. \A i \in 1..size : {j \in P \cup {size + 1} : j <= i} = {j \in P : j <= i}
  OBVIOUS
<1>4. {j \in P \cup {size + 1} : j <= size + 1} = P \cup {size + 1}
  <2>1. \A j \in P \cup {size + 1} : j <= size + 1
    OBVIOUS
  <2>2. QED
    BY <2>1
<1>5. QED
  BY <1>2, <1>3, <1>4 DEF Rank

\* The values of a stream are those of its carrying places, by their ranks.
LEMMA ValuesFacts ==
  ASSUME NEW S, NEW s \in Seq(S)
  PROVE  /\ Carrying(s) \in SUBSET (1..Len(s)) /\ Len(s) \in Nat
         /\ Values(s) \in Seq(S) /\ Len(Values(s)) = Cardinality(Carrying(s))
         /\ \A i \in Carrying(s) : /\ Rank(Carrying(s), i) \in 1..Len(Values(s))
                                   /\ Values(s)[Rank(Carrying(s), i)] = s[i]
         /\ \A n \in 1..Len(Values(s)) :
              \E i \in Carrying(s) : Rank(Carrying(s), i) = n /\ Values(s)[n] = s[i]
<1>1. Carrying(s) \in SUBSET (1..Len(s)) /\ Len(s) \in Nat
  BY LenProperties DEF Carrying
<1> DEFINE C == Carrying(s)
<1> DEFINE Place(n) == CHOOSE i \in C : Rank(C, i) = n
<1> HIDE DEF C
<1>2. /\ C \in SUBSET (1..Len(s)) /\ Cardinality(C) \in Nat
      /\ \A i \in C : Rank(C, i) \in Nat /\ Rank(C, i) <= Cardinality(C)
  <2>1. C \in SUBSET (1..Len(s)) /\ Len(s) \in Nat
    BY <1>1 DEF C
  <2>2. \A i \in C : i \in Nat
    BY <2>1
  <2>3. QED
    BY <2>1, <2>2, RankType
<1>3. ASSUME NEW n \in 1..Cardinality(C) PROVE Place(n) \in C /\ Rank(C, Place(n)) = n
  <2>1. \E i \in C : Rank(C, i) = n
    BY <1>1, <1>2, RankFound
  <2>2. QED
    BY <2>1
<1> HIDE DEF Place
<1>4. Values(s) = [n \in 1..Cardinality(C) |-> s[Place(n)]]
  BY DEF Values, C, Place
<1>5. \A n \in 1..Cardinality(C) : s[Place(n)] \in S
  BY <1>2, <1>3, ElementOfSeq
<1>6. Values(s) \in [1..Cardinality(C) -> S]
  BY <1>4, <1>5
<1>7. Values(s) \in Seq(S)
  BY <1>2, <1>6, SeqDef
<1>8. Len(Values(s)) = Cardinality(C)
  <2>1. DOMAIN Values(s) = 1..Cardinality(C) /\ DOMAIN Values(s) = 1..Len(Values(s))
        /\ Len(Values(s)) \in Nat
    BY <1>6, <1>7, LenProperties
  <2>2. QED
    BY <1>2, <2>1
<1>9. ASSUME NEW i \in C
      PROVE  Rank(C, i) \in 1..Len(Values(s)) /\ Values(s)[Rank(C, i)] = s[i]
  <2>1. i \in 1..Len(s) /\ Rank(C, i - 1) \in Nat
    <3>1. i \in 1..Len(s)
      BY <1>2
    <3>2. i - 1 \in Nat
      BY <1>1, <3>1
    <3>3. QED
      BY <1>1, <1>2, <3>1, <3>2, RankType
  <2>2. Rank(C, i) = Rank(C, i - 1) + 1
    BY <1>1, <1>2, <2>1, RankNext
  <2>3. Rank(C, i) \in 1..Cardinality(C)
    BY <1>2, <2>1, <2>2
  <2>4. PICK n \in 1..Cardinality(C) : n = Rank(C, i)
    BY <2>3
  <2>5. Place(n) = i
    <3>1. Place(n) \in C /\ Rank(C, Place(n)) = n
      BY <1>3
    <3>2. \A j, k \in C : Rank(C, j) = n /\ Rank(C, k) = n => j = k
      BY <1>1, <1>2, RankFound
    <3>3. QED
      BY <2>4, <3>1, <3>2
  <2>6. QED
    BY <1>4, <1>8, <2>4, <2>5
<1>10. ASSUME NEW n \in 1..Len(Values(s))
       PROVE  \E i \in C : Rank(C, i) = n /\ Values(s)[n] = s[i]
  BY <1>3, <1>4, <1>8
<1>11. QED
  BY <1>1, <1>7, <1>8, <1>9, <1>10 DEF C

\* An entry at the end of a stream leaves it the values it had.
LEMMA ValuesGrow ==
  ASSUME NEW S, NEW s \in Seq(S), NEW entry \in S
  PROVE  /\ Len(Values(s)) <= Len(Values(Append(s, entry)))
         /\ \A n \in 1..Len(Values(s)) : Values(Append(s, entry))[n] = Values(s)[n]
         /\ Carrying(Append(s, entry)) =
              IF entry.closed THEN Carrying(s) ELSE Carrying(s) \cup {Len(s) + 1}
<1> DEFINE t == Append(s, entry)
<1>1. /\ t \in Seq(S) /\ Len(t) = Len(s) + 1 /\ Len(s) \in Nat
      /\ \A i \in 1..Len(s) : t[i] = s[i]
      /\ t[Len(s) + 1] = entry
  BY AppendProperties, LenProperties
<1> HIDE DEF t
<1>2. 1..Len(t) = 1..Len(s) \cup {Len(s) + 1} /\ Len(s) + 1 \notin 1..Len(s)
  BY <1>1
<1>3. Carrying(t) = IF entry.closed THEN Carrying(s) ELSE Carrying(s) \cup {Len(s) + 1}
  BY <1>1, <1>2 DEF Carrying
<1>4. /\ Carrying(s) \in SUBSET (1..Len(s)) /\ Cardinality(Carrying(s)) \in Nat
      /\ Len(Values(s)) = Cardinality(Carrying(s)) /\ Len(Values(t)) = Cardinality(Carrying(t))
  BY <1>1, ValuesFacts, RankType
<1>5. /\ Cardinality(Carrying(s)) <= Cardinality(Carrying(t))
      /\ \A i \in Carrying(s) : Rank(Carrying(t), i) = Rank(Carrying(s), i)
  <2>1. CASE entry.closed
    BY <1>3, <1>4, <2>1
  <2>2. CASE ~entry.closed
    <3>1. PICK size \in Nat : size = Len(s)
      BY <1>1
    <3>2. PICK P \in SUBSET (1..size) : P = Carrying(s)
      BY <1>4, <3>1
    <3>3. /\ \A i \in 1..size : Rank(P \cup {size + 1}, i) = Rank(P, i)
          /\ Cardinality(P \cup {size + 1}) = Cardinality(P) + 1
      BY RankLast
    <3>4. Carrying(t) = P \cup {size + 1}
      BY <1>3, <2>2, <3>1, <3>2
    <3>5. Cardinality(P) <= Cardinality(P) + 1
      BY <1>4, <3>2
    <3>6. \A i \in P : Rank(P \cup {size + 1}, i) = Rank(P, i)
      BY <3>3
    <3>7. QED
      BY <3>2, <3>3, <3>4, <3>5, <3>6
  <2>3. QED
    BY <2>1, <2>2
<1>6. ASSUME NEW n \in 1..Len(Values(s)) PROVE Values(t)[n] = Values(s)[n]
  <2>1. PICK i \in Carrying(s) : Rank(Carrying(s), i) = n /\ Values(s)[n] = s[i]
    BY ValuesFacts
  <2>2. i \in Carrying(t) /\ Rank(Carrying(t), i) = n
    BY <1>3, <1>5, <2>1
  <2>3. Values(t)[n] = t[i]
    BY <1>1, <2>2, ValuesFacts
  <2>4. QED
    BY <1>1, <1>4, <2>1, <2>3
<1>7. QED
  BY <1>3, <1>4, <1>5, <1>6 DEF t

-----------------------------------------------------------------------------
(* What the steps do to the stream.                                         *)

\* While one execution writes at a time, and in time, or in memory.
Single == backend = "memory" \/ (~overlapped /\ ~late)

\* The types of the variables that the stream and its reader add.
StreamTypes ==
  /\ backend \in Backends
  /\ offset \in [Executions -> Nat]
  /\ stream \in Seq(Entry)
  /\ event \in Messages \cup {NoMessage}
  /\ waiter \in {"absent", "asking", "answered", "failed", "early", "timeout"}
  /\ reader \in [open : BOOLEAN, sent : Seq(Entry)]
  /\ adrift \subseteq PutCall /\ \A w \in adrift : w.at # "send" => w.by \in Executions
  /\ overlapped \in BOOLEAN /\ late \in BOOLEAN
  /\ spoiled \subseteq Messages

\* No call of an execution,
Still == UNCHANGED <<life, at, held, offset, received, stream>>

\* a write that is applied late,
Drifts ==
  /\ backend = "sql" /\ late' /\ UNCHANGED <<life, at, held, offset, received>>
  /\ \E w \in adrift : Land(w)

\* the end of an execution before a write,
Stops(e) ==
  /\ \E l \in {"failed", "crashed"} : life' = [life EXCEPT ![e] = l]
  /\ at[e] # "recv" => held' = held
  /\ \A f \in Executions : f # e => held'[f] = held[f]
  /\ UNCHANGED <<at, offset, received, stream>>

\* a message it is given,
Takes(e) ==
  /\ At(e, "recv") \/ At(e, "consume")
  /\ \E m \in Messages : Given(e, m) /\ held'[e].of = m
  /\ \A f \in Executions : f # e => held'[f] = held[f]
  /\ UNCHANGED <<life, offset, stream>>

\* a call that neither gives nor writes one,
Goes(e) ==
  /\ at[e] \notin {"length", "write"}
  /\ \E call \in {"recv", "consume", "end"} : at' = [at EXCEPT ![e] = call]
  /\ \A f \in Executions : f # e => held'[f] = held[f]
  /\ UNCHANGED <<life, offset, received, stream>>

Wrote(e) == [by |-> e, closed |-> FALSE, value |-> held[e].of]
Closing(e) == [by |-> e, closed |-> TRUE, value |-> NoMessage]

\* an entry it writes, and whether the call is answered,
Writes(e) ==
  /\ At(e, "write") /\ PutEntry(offset[e], Wrote(e))
  /\ \/ at' = [at EXCEPT ![e] = AfterWrite(e)] /\ life' = life
     \/ /\ backend = "sql" /\ at' = at
        /\ life' = life \/ life' = [life EXCEPT ![e] = "failed"]
  /\ UNCHANGED <<held, offset, received>>

\* and the entry that closes the stream.
Closes(e) ==
  /\ At(e, "close") \/ (At(e, "end") /\ backend = "memory")
  /\ PutEntry(offset[e], Closing(e))
  /\ life' = life \/ \E l \in {"done", "failed"} : life' = [life EXCEPT ![e] = l]
  /\ UNCHANGED <<at, held, offset, received>>

\* What the entries that an execution has come to are.
LEMMA WritingEntry ==
  ASSUME NEW e \in Executions
  PROVE  /\ at[e] = "write" /\ Put(Writing(e)) => PutEntry(offset[e], Wrote(e))
         /\ at[e] = "close" /\ Put(Writing(e)) => PutEntry(offset[e], Closing(e))
         /\ Put([Writing(e) EXCEPT !.at = "close"]) => PutEntry(offset[e], Closing(e))
<1>1. ASSUME at[e] = "write", Put(Writing(e)) PROVE PutEntry(offset[e], Wrote(e))
  <2>1. /\ Writing(e).at = "write" /\ Writing(e).offset = offset[e]
        /\ Writing(e).by = e /\ Writing(e).held = held[e]
    BY <1>1 DEF Writing
  <2>2. QED
    BY <1>1, <2>1 DEF Put, Wrote
<1>2. ASSUME at[e] = "close", Put(Writing(e)) PROVE PutEntry(offset[e], Closing(e))
  <2>1. Writing(e).at = "close" /\ Writing(e).offset = offset[e] /\ Writing(e).by = e
    BY <1>2 DEF Writing
  <2>2. QED
    BY <1>2, <2>1 DEF Put, Closing
<1>3. ASSUME Put([Writing(e) EXCEPT !.at = "close"]) PROVE PutEntry(offset[e], Closing(e))
  <2> DEFINE w == [Writing(e) EXCEPT !.at = "close"]
  <2>1. w.at = "close" /\ w.offset = offset[e] /\ w.by = e
    BY DEF Writing
  <2>2. Put(w)
    BY <1>3
  <2> HIDE DEF w
  <2>3. QED
    BY <2>1, <2>2 DEF Put, Closing
<1>4. QED
  BY <1>1, <1>2, <1>3

\* Every step is one of these.
LEMMA StreamCases ==
  ASSUME Typed, [Next]_vars
  PROVE  /\ backend' = backend
         /\ \/ Still \/ Drifts
            \/ \E e \in Executions :
                 Begin(e) \/ Stops(e) \/ Takes(e) \/ Goes(e) \/ ReadLength(e) \/ Writes(e) \/ Closes(e)
<1>1. CASE OtherStep
  BY <1>1, OtherTyped DEF tables, workerVars, Still
<1>2. ASSUME NEW s \in Senders, SenderStep(s) PROVE backend' = backend /\ Still
  BY <1>2, SenderPuts DEF Still
<1>3. ASSUME NEW e \in Executions, RecvStep(e)
      PROVE  backend' = backend /\ (Still \/ Stops(e) \/ Takes(e) \/ Goes(e))
  <2>1. held \in [Executions -> Mail \cup {NoMail}]
    BY DEF Typed, MailTypes
  <2>2. CASE Receive(e)
    <3>1. PICK i \in Unconsumed :
            /\ held' = [held EXCEPT ![e] = mail[i]] /\ mail[i].of \in Messages /\ At(e, "recv")
            /\ \/ Given(e, mail[i].of) /\ life' = life
               \/ life' = [life EXCEPT ![e] = "failed"] /\ UNCHANGED <<at, received>>
            /\ Aside
      BY <2>2, ReceiveFacts
    <3>2. held'[e].of = mail[i].of /\ \A f \in Executions : f # e => held'[f] = held[f]
      BY <2>1, <3>1
    <3>3. UNCHANGED <<backend, offset, stream>> /\ at[e] = "recv"
      BY <3>1 DEF Aside, At
    <3>4. QED
      BY <3>1, <3>2, <3>3 DEF Takes, Stops
  <2>3. CASE ListMessages(e)
    <3>1. PICK i \in Unconsumed :
            /\ held' = [held EXCEPT ![e] = mail[i]] /\ At(e, "recv")
            /\ at' = [at EXCEPT ![e] = "consume"] /\ UNCHANGED <<life, received>> /\ Aside
      BY <2>3, ListFacts
    <3>2. \A f \in Executions : f # e => held'[f] = held[f]
      BY <2>1, <3>1
    <3>3. QED
      BY <3>1, <3>2 DEF At, Goes, Aside
  <2>4. CASE Marks(e)
    <3>1. held[e].of \in Messages
      BY <2>4, OwnRows, RowFacts DEF Marks, At
    <3>2. QED
      BY <2>4, <3>1 DEF Marks, Takes, Aside
  <2>5. CASE Misses(e)
    BY <2>5 DEF Misses, Aside, At, Still, Goes, Stops
  <2>6. QED
    BY <1>3, <2>2, <2>3, <2>4, <2>5, RecvCases DEF RecvStep
<1>4. ASSUME NEW e \in Executions, RestStep(e)
      PROVE  \/ Still \/ Begin(e) \/ Stops(e) \/ Goes(e)
             \/ ReadLength(e) \/ Writes(e) \/ Closes(e)
  <2>1. UNCHANGED <<held, received>>
    BY <1>4, RestPuts
  <2>2. CASE TimeOut(e) \/ HandlerFails(e) \/ Crash(e)
    BY <2>2 DEF TimeOut, HandlerFails, Crash, ReceiveFails, Stops, tables
  <2>3. CASE WriteStream(e)
    <3>1. At(e, "write") /\ at[e] = "write" /\ Put(Writing(e))
      BY <2>3 DEF WriteStream, At
    <3>2. QED
      BY <2>3, <3>1, WritingEntry DEF WriteStream, Writes
  <2>4. CASE SetEvent(e)
    <3>1. at[e] = "event" /\ Put(Writing(e))
      BY <2>4 DEF SetEvent, At
    <3>2. stream' = stream
      BY <3>1, PutCases
    <3>3. QED
      BY <2>4, <3>1, <3>2 DEF SetEvent, Goes
  <2>5. CASE CloseStream(e)
    BY <2>5, WritingEntry DEF CloseStream, Closes
  <2>6. CASE PutFails(e)
    <3>1. /\ UNCHANGED <<at, held, offset, received>> /\ Running(e) /\ backend = "sql"
          /\ at[e] \in {"write", "event", "close"}
          /\ life' = life \/ life' = [life EXCEPT ![e] = "failed"]
          /\ Put(Writing(e)) \/ stream' = stream
      BY <2>6, LostFacts DEF PutFails
    <3>2. CASE stream' = stream
      BY <3>1, <3>2 DEF Still, Stops
    <3>3. CASE Put(Writing(e)) /\ at[e] = "event"
      BY <3>1, <3>2, <3>3, PutCases
    <3>4. CASE Put(Writing(e)) /\ at[e] = "write"
      BY <3>1, <3>4, WritingEntry DEF Writes, At
    <3>5. CASE Put(Writing(e)) /\ at[e] = "close"
      BY <3>1, <3>5, WritingEntry DEF Closes, At
    <3>6. QED
      BY <3>1, <3>2, <3>3, <3>4, <3>5
  <2>7. QED
    BY <1>4, <2>2, <2>3, <2>4, <2>5, <2>6 DEF RestStep
<1>5. ASSUME NEW e \in Executions, RestStep(e) PROVE backend' = backend
  BY <1>5, RestPuts
<1>6. ASSUME NEW w \in adrift, Land(w) PROVE backend' = backend /\ (Still \/ Drifts)
  <2>1. /\ backend = "sql" /\ UNCHANGED <<backend, life, at, held, offset, received>>
        /\ stream' = stream \/ late'
    BY <1>6, LandFacts DEF workerVars
  <2>2. QED
    BY <1>6, <2>1 DEF Still, Drifts
<1>7. QED
  BY <1>1, <1>2, <1>3, <1>4, <1>5, <1>6, StepCases

\* The entries it writes are entries.
LEMMA OwnEntries ==
  ASSUME Typed, NEW e \in Executions
  PROVE  /\ At(e, "write") => Wrote(e) \in Entry
         /\ Closing(e) \in Entry
<1>1. At(e, "write") => held[e].of \in Messages
  BY OwnRows, RowFacts DEF At
<1>2. QED
  BY <1>1 DEF Wrote, Closing, Entry

\* What a put does to the stream.
LEMMA EntryFacts ==
  ASSUME stream \in Seq(Entry), NEW o \in Nat, NEW entry \in Entry, PutEntry(o, entry)
  PROVE  stream' \in Seq(Entry)
<1>1. CASE backend = "memory" \/ o = Len(stream)
  <2>1. stream' = Append(stream, entry)
    BY <1>1 DEF PutEntry
  <2>2. QED
    BY <2>1, AppendProperties
<1>2. CASE ~(backend = "memory" \/ o = Len(stream))
  <2>1. stream' = [stream EXCEPT ![o + 1] = entry]
    BY <1>2 DEF PutEntry
  <2>2. stream \in [1..Len(stream) -> Entry]
    BY LenProperties
  <2>3. CASE o + 1 \in 1..Len(stream)
    <3>1. PICK place \in 1..Len(stream) : place = o + 1
      BY <2>3
    <3>2. [stream EXCEPT ![place] = entry] \in Seq(Entry)
      BY ExceptSeq
    <3>3. QED
      BY <2>1, <3>1, <3>2
  <2>4. CASE o + 1 \notin 1..Len(stream)
    <3>1. [stream EXCEPT ![o + 1] = entry] = stream
      BY <2>2, <2>4
    <3>2. QED
      BY <2>1, <3>1
  <2>5. QED
    BY <2>3, <2>4
<1>3. QED
  BY <1>1, <1>2

\* The entry that an execution has come to write is at the end of the stream already: its
\* answer was lost.
Own(e) == IF at[e] = "write" THEN Wrote(e) ELSE Closing(e)
Placed(e) ==
  backend = "sql" /\ Len(stream) = offset[e] + 1 /\ stream[offset[e] + 1] = Own(e)

\* The offset that is held is the length of the stream, until the entry is there.
OffsetNow ==
  backend = "sql" /\ ~overlapped /\ ~late =>
    \A e \in Executions :
      At(e, "write") \/ At(e, "close") => offset[e] = Len(stream) \/ Placed(e)

\* What is to be written is what was received last.
HeldLast ==
  \A e \in Executions : at[e] \in {"length", "write"} =>
    Len(received[e]) >= 1 /\ held[e].of = received[e][Len(received[e])]

\* The carrying entries of an execution.
WrittenIn(entries, e) == {i \in Carrying(entries) : entries[i].by = e}

\* How many an execution has yet to write of those it has received.
Due(e) == IF at[e] = "length" \/ (at[e] = "write" /\ ~Placed(e)) THEN 1 ELSE 0

\* It has written all the others, and after its end no more than it received.
Pace ==
  Single => \A e \in Executions :
    /\ Cardinality(Written(e)) <= Len(received[e])
    /\ life[e] \in {"unborn", "running"} => Cardinality(Written(e)) + Due(e) = Len(received[e])

StreamInv == StreamTypes /\ OffsetNow /\ HeldLast /\ Pace /\ StreamAgrees /\ ReaderPrefix

\* One at a time stays so only if it was.
LEMMA SingleWas ==
  ASSUME Typed, [Next]_vars, Single'
  PROVE  Single
BY LifeChange, StreamCases DEF Single

\* One at a time, an entry is put at the end, or is there already.
LEMMA PutIsLast ==
  ASSUME Typed, StreamTypes, OffsetNow, Single, NEW e \in Executions
  PROVE  /\ Writes(e) => stream' = IF Placed(e) THEN stream ELSE Append(stream, Wrote(e))
         /\ Closes(e) => stream' = IF Placed(e) THEN stream ELSE Append(stream, Closing(e))
<1>1. /\ backend = "memory" \/ backend = "sql"
      /\ offset[e] \in Nat /\ Len(stream) \in Nat /\ stream \in Seq(Entry)
  BY LenProperties DEF Typed, MailTypes, StreamTypes
<1>2. backend = "sql" /\ (At(e, "write") \/ At(e, "close")) =>
        offset[e] = Len(stream) \/ Placed(e)
  BY DEF OffsetNow, Single
<1>3. offset[e] = Len(stream) => ~Placed(e)
  BY <1>1 DEF Placed
<1>4. Placed(e) => backend = "sql" /\ offset[e] # Len(stream)
                   /\ offset[e] + 1 = Len(stream) /\ stream[offset[e] + 1] = Own(e)
  BY <1>1 DEF Placed
<1>5. Placed(e) => [stream EXCEPT ![offset[e] + 1] = Own(e)] = stream
  <2>1. stream \in [1..Len(stream) -> Entry]
    BY <1>1, LenProperties
  <2>2. QED
    BY <1>4, <2>1
<1>6. ASSUME Writes(e) PROVE stream' = IF Placed(e) THEN stream ELSE Append(stream, Wrote(e))
  <2>1. At(e, "write") /\ at[e] = "write" /\ PutEntry(offset[e], Wrote(e)) /\ Own(e) = Wrote(e)
    BY <1>6 DEF Writes, At, Own
  <2>2. CASE Placed(e)
    <3>1. stream' = [stream EXCEPT ![offset[e] + 1] = Wrote(e)]
      BY <1>4, <2>1, <2>2 DEF PutEntry
    <3>2. QED
      BY <1>5, <2>1, <2>2, <3>1
  <2>3. CASE ~Placed(e)
    BY <1>1, <1>2, <2>1, <2>3 DEF PutEntry
  <2>4. QED
    BY <2>2, <2>3
<1>7. ASSUME Closes(e)
      PROVE  stream' = IF Placed(e) THEN stream ELSE Append(stream, Closing(e))
  <2>1. PutEntry(offset[e], Closing(e))
    BY <1>7 DEF Closes
  <2>2. CASE backend = "memory"
    BY <2>1, <2>2 DEF PutEntry, Placed
  <2>3. CASE backend = "sql"
    <3>1. At(e, "close") /\ Own(e) = Closing(e)
      BY <1>7, <2>3 DEF Closes, At, Own
    <3>2. CASE Placed(e)
      <4>1. stream' = [stream EXCEPT ![offset[e] + 1] = Closing(e)]
        BY <1>4, <2>1, <3>2 DEF PutEntry
      <4>2. QED
        BY <1>5, <3>1, <3>2, <4>1
    <3>3. CASE ~Placed(e)
      BY <1>2, <2>1, <2>3, <3>1, <3>3 DEF PutEntry
    <3>4. QED
      BY <3>2, <3>3
  <2>4. QED
    BY <1>1, <2>2, <2>3
<1>8. QED
  BY <1>6, <1>7

\* An entry whose put is not answered is there afterwards.
LEMMA PlacedThen ==
  ASSUME Typed, StreamTypes, OffsetNow, Single, backend = "sql", backend' = backend,
         NEW e \in Executions, Writes(e) \/ Closes(e), at' = at, at[e] \in {"write", "close"}
  PROVE  Placed(e)'
<1>1. /\ offset[e] \in Nat /\ Len(stream) \in Nat /\ stream \in Seq(Entry)
      /\ UNCHANGED <<offset, held>>
  BY LenProperties DEF StreamTypes, Writes, Closes
<1>2. Own(e)' = Own(e) /\ (At(e, "write") \/ At(e, "close"))
  BY <1>1 DEF Own, Wrote, Closing, Writes, Closes, At
<1>3. stream' = IF Placed(e) THEN stream ELSE Append(stream, Own(e))
  <2>1. Writes(e) => Own(e) = Wrote(e)
    BY DEF Writes, At, Own
  <2>2. Closes(e) => Own(e) = Closing(e)
    BY DEF Closes, At, Own
  <2>3. QED
    BY <2>1, <2>2, PutIsLast
<1>4. Own(e) \in Entry
  BY <1>2, OwnEntries DEF Own, At
<1>5. CASE Placed(e)
  BY <1>1, <1>2, <1>3, <1>5 DEF Placed
<1>6. CASE ~Placed(e)
  <2>1. offset[e] = Len(stream)
    BY <1>2, <1>6 DEF OffsetNow, Single
  <2>2. PICK entry \in Entry : entry = Own(e)
    BY <1>4
  <2>3. stream' = Append(stream, entry)
    BY <1>3, <1>6, <2>2
  <2>4. Len(stream') = Len(stream) + 1 /\ stream'[Len(stream) + 1] = entry
    BY <1>1, <2>3, AppendProperties
  <2>5. QED
    BY <1>1, <1>2, <2>1, <2>2, <2>4 DEF Placed
<1>7. QED
  BY <1>5, <1>6

\* What a step does to where an execution is.
LEMMA CallFacts ==
  ASSUME Typed, NEW e \in Executions
  PROVE  /\ \A f \in Executions : f # e =>
              /\ Begin(e) \/ Stops(e) \/ Writes(e) \/ Closes(e) => life'[f] = life[f]
              /\ Takes(e) \/ Goes(e) \/ ReadLength(e) \/ Writes(e) => at'[f] = at[f]
         /\ Begin(e) => life[e] = "unborn" /\ life'[e] = "running" /\ at[e] = "recv"
         /\ Stops(e) => life'[e] \in {"failed", "crashed"}
         /\ Takes(e) => at[e] \in {"recv", "consume"} /\ at'[e] = "length"
         /\ Goes(e) => at[e] \notin {"length", "write"} /\ at'[e] \in {"recv", "consume", "end"}
         /\ ReadLength(e) => \/ at[e] = "length" /\ at'[e] = "write"
                             \/ at[e] = "end" /\ at'[e] = "close"
         /\ Writes(e) =>
              /\ Running(e) /\ at[e] = "write"
              /\ \/ at'[e] \in {"recv", "event"} /\ life' = life
                 \/ backend = "sql" /\ at' = at
         /\ Closes(e) => Running(e) /\ at[e] \in {"close", "end"} /\ at' = at
<1>1. /\ life \in [Executions -> Lives] /\ at \in [Executions -> Calls]
      /\ life[e] = "unborn" => at[e] = "recv"
  BY DEF Typed, MailTypes, Progress
<1>2. /\ \A f \in Executions : f # e /\ Begin(e) => life'[f] = life[f]
      /\ Begin(e) => life[e] = "unborn" /\ life'[e] = "running" /\ at[e] = "recv"
  BY <1>1 DEF Begin
<1>3. /\ \A f \in Executions : f # e /\ Stops(e) => life'[f] = life[f]
      /\ Stops(e) => life'[e] \in {"failed", "crashed"}
  BY <1>1 DEF Stops
<1>4. /\ \A f \in Executions : f # e /\ Takes(e) => at'[f] = at[f]
      /\ Takes(e) => at[e] \in {"recv", "consume"} /\ at'[e] = "length"
  BY <1>1 DEF Takes, Given, At
<1>5. /\ \A f \in Executions : f # e /\ Goes(e) => at'[f] = at[f]
      /\ Goes(e) => at[e] \notin {"length", "write"} /\ at'[e] \in {"recv", "consume", "end"}
  BY <1>1 DEF Goes
<1>6. /\ \A f \in Executions : f # e /\ ReadLength(e) => at'[f] = at[f]
      /\ ReadLength(e) => \/ at[e] = "length" /\ at'[e] = "write"
                          \/ at[e] = "end" /\ at'[e] = "close"
  BY <1>1 DEF ReadLength
<1>7. ASSUME Writes(e)
      PROVE  /\ \A f \in Executions : f # e => at'[f] = at[f] /\ life'[f] = life[f]
             /\ Running(e) /\ at[e] = "write"
             /\ \/ at'[e] \in {"recv", "event"} /\ life' = life
                \/ backend = "sql" /\ at' = at
  <2>1. AfterWrite(e) \in {"recv", "event"}
    BY DEF AfterWrite
  <2>2. QED
    BY <1>1, <1>7, <2>1 DEF Writes, At
<1>8. /\ \A f \in Executions : f # e /\ Closes(e) => life'[f] = life[f]
      /\ Closes(e) => Running(e) /\ at[e] \in {"close", "end"} /\ at' = at
  BY <1>1 DEF Closes, At
<1>9. QED
  BY <1>2, <1>3, <1>4, <1>5, <1>6, <1>7, <1>8

\* An entry stays where it is placed while its execution and the stream do.
LEMMA PlacedSame ==
  ASSUME NEW f \in Executions, backend' = backend, stream' = stream,
         offset'[f] = offset[f], held'[f] = held[f], at'[f] = at[f]
  PROVE  Placed(f)' = Placed(f)
BY DEF Placed, Own, Wrote, Closing

\* Nobody else writes in between.
LEMMA OffsetKept ==
  ASSUME Typed, StreamTypes, Lone, OffsetNow, [Next]_vars
  PROVE  OffsetNow'
<1>1. /\ backend' = backend /\ (~overlapped' => ~overlapped) /\ (~late' => ~late)
      /\ offset \in [Executions -> Nat]
  BY StreamCases, LifeChange DEF StreamTypes
<1>2. SUFFICES ASSUME backend = "sql", ~overlapped', ~late', NEW f \in Executions,
                      Running(f)', at'[f] = "write" \/ at'[f] = "close"
               PROVE  offset'[f] = Len(stream') \/ Placed(f)'
  BY <1>1 DEF OffsetNow, At
<1>3. /\ \A g \in Executions : Running(g) /\ Running(f) => g = f
      /\ Running(f) /\ (at[f] = "write" \/ at[f] = "close") =>
           offset[f] = Len(stream) \/ Placed(f)
      /\ Single
  BY <1>1, <1>2 DEF Lone, OffsetNow, At, Single
<1>4. ASSUME Running(f), stream' = stream, offset'[f] = offset[f], held'[f] = held[f],
             at'[f] = at[f]
      PROVE  offset'[f] = Len(stream') \/ Placed(f)'
  BY <1>1, <1>2, <1>3, <1>4, PlacedSame
<1>5. CASE Still
  BY <1>2, <1>4, <1>5 DEF Still, Running
<1>6. CASE Drifts
  BY <1>2, <1>6 DEF Drifts
<1>7. ASSUME NEW e \in Executions, Begin(e) \/ Stops(e)
      PROVE  offset'[f] = Len(stream') \/ Placed(f)'
  <2>1. UNCHANGED <<at, offset, stream>> /\ (f # e => held'[f] = held[f])
    BY <1>7 DEF Begin, Stops, tables
  <2>2. f # e
    BY <1>2, <1>7, <2>1, CallFacts DEF Running
  <2>3. Running(f)
    BY <1>2, <1>7, <2>2, CallFacts DEF Running
  <2>4. QED
    BY <1>4, <2>1, <2>2, <2>3
<1>8. ASSUME NEW e \in Executions, Takes(e) \/ Goes(e)
      PROVE  offset'[f] = Len(stream') \/ Placed(f)'
  <2>1. UNCHANGED <<life, offset, stream>>
    BY <1>8 DEF Takes, Goes
  <2>2. f # e /\ at'[f] = at[f]
    BY <1>2, <1>8, CallFacts
  <2>3. held'[f] = held[f] /\ Running(f)
    BY <1>2, <1>8, <2>1, <2>2 DEF Takes, Goes, Running
  <2>4. QED
    BY <1>4, <2>1, <2>2, <2>3
<1>9. ASSUME NEW e \in Executions, ReadLength(e)
      PROVE  offset'[f] = Len(stream') \/ Placed(f)'
  <2>1. offset' = [offset EXCEPT ![e] = Len(stream)] /\ UNCHANGED <<life, stream, held>>
    BY <1>9 DEF ReadLength, Length, tables
  <2>2. CASE f = e
    BY <1>1, <2>1, <2>2
  <2>3. CASE f # e
    <3>1. at'[f] = at[f] /\ offset'[f] = offset[f] /\ Running(f)
      BY <1>1, <1>2, <1>9, <2>1, <2>3, CallFacts DEF Running
    <3>2. QED
      BY <1>4, <2>1, <3>1
  <2>4. QED
    BY <2>2, <2>3
<1>10. ASSUME NEW e \in Executions, Writes(e) \/ Closes(e)
       PROVE  offset'[f] = Len(stream') \/ Placed(f)'
  <2>1. Running(e)
    BY <1>10, CallFacts
  <2>2. Running(f)
    BY <1>2, <1>10, <2>1, CallFacts DEF Running
  <2>3. f = e
    BY <1>3, <2>1, <2>2
  <2>4. at' = at /\ at[e] \in {"write", "close"}
    BY <1>2, <1>10, <2>3, CallFacts
  <2>5. QED
    BY <1>1, <1>2, <1>3, <1>10, <2>3, <2>4, PlacedThen
<1>11. QED
  BY <1>5, <1>6, <1>7, <1>8, <1>9, <1>10, StreamCases

\* What an execution takes is what it has received last, until it is written.
LEMMA HeldLastKept ==
  ASSUME Typed, HeldLast, [Next]_vars
  PROVE  HeldLast'
<1>1. received \in [Executions -> Seq(Messages)]
  BY DEF Typed, MailTypes
<1>2. SUFFICES ASSUME NEW f \in Executions, at'[f] \in {"length", "write"}
               PROVE  Len(received'[f]) >= 1 /\ held'[f].of = received'[f][Len(received'[f])]
  BY DEF HeldLast
<1>3. at[f] \in {"length", "write"} =>
        Len(received[f]) >= 1 /\ held[f].of = received[f][Len(received[f])]
  BY DEF HeldLast
<1>4. CASE Still \/ Drifts
  BY <1>2, <1>3, <1>4 DEF Still, Drifts
<1>5. ASSUME NEW e \in Executions, Begin(e) \/ Stops(e) \/ Closes(e)
      PROVE  Len(received'[f]) >= 1 /\ held'[f].of = received'[f][Len(received'[f])]
  <2>1. UNCHANGED <<at, received>> /\ (at[f] # "recv" => held'[f] = held[f])
    BY <1>5 DEF Begin, Stops, Closes
  <2>2. QED
    BY <1>2, <1>3, <2>1
<1>6. ASSUME NEW e \in Executions, Takes(e)
      PROVE  Len(received'[f]) >= 1 /\ held'[f].of = received'[f][Len(received'[f])]
  <2>1. PICK m \in Messages : Given(e, m) /\ held'[e].of = m
    BY <1>6 DEF Takes
  <2>2. /\ \A g \in Executions : g # e => received'[g] = received[g]
        /\ Len(received[e]) \in Nat /\ Len(received'[e]) = Len(received[e]) + 1
        /\ received'[e][Len(received[e]) + 1] = m
    BY <1>1, <2>1, GivenFacts
  <2>3. CASE f = e
    BY <2>1, <2>2, <2>3
  <2>4. CASE f # e
    <3>1. held'[f] = held[f] /\ at'[f] = at[f]
      BY <1>6, <2>4, CallFacts DEF Takes
    <3>2. QED
      BY <1>2, <1>3, <2>2, <2>4, <3>1
  <2>5. QED
    BY <2>3, <2>4
<1>7. ASSUME NEW e \in Executions, Goes(e)
      PROVE  Len(received'[f]) >= 1 /\ held'[f].of = received'[f][Len(received'[f])]
  <2>1. f # e /\ at'[f] = at[f]
    BY <1>2, <1>7, CallFacts
  <2>2. held'[f] = held[f] /\ received' = received
    BY <1>7, <2>1 DEF Goes
  <2>3. QED
    BY <1>2, <1>3, <2>1, <2>2
<1>8. ASSUME NEW e \in Executions, ReadLength(e) \/ Writes(e)
      PROVE  Len(received'[f]) >= 1 /\ held'[f].of = received'[f][Len(received'[f])]
  <2>1. UNCHANGED <<held, received>>
    BY <1>8 DEF ReadLength, Writes
  <2>2. at[f] \in {"length", "write"}
    BY <1>2, <1>8, CallFacts
  <2>3. QED
    BY <1>3, <2>1, <2>2
<1>9. QED
  BY <1>4, <1>5, <1>6, <1>7, <1>8, StreamCases

\* An entry at the end of a stream counts for its writer, and has the next rank there.
LEMMA WrittenGrow ==
  ASSUME NEW s \in Seq(Entry), NEW entry \in Entry, NEW e
  PROVE  /\ WrittenIn(s, e) \in SUBSET (1..Len(s)) /\ Len(s) \in Nat
         /\ WrittenIn(Append(s, entry), e) =
              IF entry.closed \/ entry.by # e THEN WrittenIn(s, e)
              ELSE WrittenIn(s, e) \cup {Len(s) + 1}
         /\ \A i \in 1..Len(s) : Append(s, entry)[i] = s[i]
         /\ Append(s, entry)[Len(s) + 1] = entry
<1> DEFINE t == Append(s, entry)
<1>1. /\ t \in Seq(Entry) /\ Len(t) = Len(s) + 1 /\ Len(s) \in Nat
      /\ \A i \in 1..Len(s) : t[i] = s[i]
      /\ t[Len(s) + 1] = entry
  BY AppendProperties, LenProperties
<1>2. /\ Carrying(t) = IF entry.closed THEN Carrying(s) ELSE Carrying(s) \cup {Len(s) + 1}
      /\ Carrying(s) \in SUBSET (1..Len(s))
  BY ValuesFacts, ValuesGrow
<1> HIDE DEF t
<1>3. WrittenIn(t, e) = IF entry.closed \/ entry.by # e THEN WrittenIn(s, e)
                        ELSE WrittenIn(s, e) \cup {Len(s) + 1}
  BY <1>1, <1>2 DEF WrittenIn
<1>4. QED
  BY <1>1, <1>2, <1>3 DEF t, WrittenIn

\* What a write of one at a time does to the entries of each execution.
LEMMA WrittenChange ==
  ASSUME Typed, StreamTypes, OffsetNow, Single, NEW e \in Executions, NEW f \in Executions
  PROVE  /\ Writes(e) \/ Closes(e) =>
              /\ \A i \in Written(f) : i \in Written(f)' /\ stream'[i] = stream[i]
                                       /\ Rank(Written(f)', i) = Rank(Written(f), i)
              /\ f # e \/ Closes(e) => Written(f)' = Written(f)
         /\ Writes(e) /\ Placed(e) => Written(f)' = Written(f)
         /\ Writes(e) /\ ~Placed(e) /\ f = e =>
              /\ Cardinality(Written(f)') = Cardinality(Written(f)) + 1
              /\ Written(f)' = Written(f) \cup {Len(stream) + 1}
              /\ Rank(Written(f)', Len(stream) + 1) = Cardinality(Written(f)) + 1
              /\ stream'[Len(stream) + 1] = Wrote(e)
<1>1. PICK s, t : s \in Seq(Entry) /\ s = stream /\ t = stream'
  BY DEF StreamTypes
<1>2. PICK P, Q : P = WrittenIn(s, f) /\ Q = WrittenIn(t, f)
  OBVIOUS
<1>3. Written(f) = P /\ Written(f)' = Q
  BY <1>1, <1>2 DEF Written, WrittenIn
<1>4. PICK size \in Nat : size = Len(s)
  BY <1>1, LenProperties
<1>5. ASSUME NEW entry \in Entry, t = Append(s, entry)
      PROVE  /\ P \in SUBSET (1..size)
             /\ Q = IF entry.closed \/ entry.by # f THEN P ELSE P \cup {size + 1}
             /\ \A i \in 1..size : t[i] = s[i]
             /\ t[size + 1] = entry
             /\ \A i \in P : Rank(Q, i) = Rank(P, i)
             /\ Q = P \cup {size + 1} =>
                  Cardinality(Q) = Cardinality(P) + 1 /\ Rank(Q, size + 1) = Cardinality(P) + 1
  <2>1. /\ P \in SUBSET (1..size)
        /\ Q = IF entry.closed \/ entry.by # f THEN P ELSE P \cup {size + 1}
        /\ \A i \in 1..size : t[i] = s[i]
        /\ t[size + 1] = entry
    BY <1>1, <1>2, <1>4, <1>5, WrittenGrow
  <2>2. PICK W \in SUBSET (1..size) : W = P
    BY <2>1
  <2>3. /\ \A i \in 1..size : Rank(W \cup {size + 1}, i) = Rank(W, i)
        /\ Cardinality(W \cup {size + 1}) = Cardinality(W) + 1
        /\ Rank(W \cup {size + 1}, size + 1) = Cardinality(W) + 1
    BY RankLast
  <2>4. \A i \in P : Rank(Q, i) = Rank(P, i)
    <3>1. CASE Q = P
      BY <3>1
    <3>2. CASE Q = W \cup {size + 1}
      BY <2>2, <2>3, <3>2
    <3>3. QED
      BY <2>1, <2>2, <3>1, <3>2
  <2>5. QED
    BY <2>1, <2>2, <2>3, <2>4
<1>6. /\ Wrote(e).by = e /\ Wrote(e).closed = FALSE
      /\ Closing(e).by = e /\ Closing(e).closed = TRUE
  BY DEF Wrote, Closing
<1>7. ASSUME Writes(e), ~Placed(e)
      PROVE  /\ \A i \in P : i \in Q /\ t[i] = s[i] /\ Rank(Q, i) = Rank(P, i)
             /\ f # e => Q = P
             /\ f = e => /\ Cardinality(Q) = Cardinality(P) + 1 /\ Q = P \cup {size + 1}
                         /\ Rank(Q, size + 1) = Cardinality(P) + 1
             /\ t[size + 1] = Wrote(e)
  <2>1. t = Append(s, Wrote(e)) /\ Wrote(e) \in Entry
    BY <1>1, <1>7, PutIsLast, OwnEntries DEF Writes
  <2>2. PICK entry \in Entry : entry = Wrote(e)
    BY <2>1
  <2>3. t = Append(s, entry) /\ entry.by = e /\ entry.closed = FALSE
    BY <1>6, <2>1, <2>2
  <2>4. QED
    BY <1>5, <2>2, <2>3
<1>8. ASSUME Closes(e), ~Placed(e)
      PROVE  /\ \A i \in P : i \in Q /\ t[i] = s[i] /\ Rank(Q, i) = Rank(P, i)
             /\ Q = P
  <2>1. t = Append(s, Closing(e)) /\ Closing(e) \in Entry
    BY <1>1, <1>8, PutIsLast, OwnEntries
  <2>2. PICK entry \in Entry : entry = Closing(e)
    BY <2>1
  <2>3. t = Append(s, entry) /\ entry.closed = TRUE
    BY <1>6, <2>1, <2>2
  <2>4. QED
    BY <1>5, <2>3
<1>9. ASSUME Writes(e) \/ Closes(e), Placed(e)
      PROVE  Q = P /\ t = s
  BY <1>1, <1>2, <1>9, PutIsLast
<1>10. QED
  BY <1>1, <1>3, <1>4, <1>7, <1>8, <1>9

\* What is received by a step.
LEMMA ReceivedChange ==
  ASSUME Typed, NEW e \in Executions
  PROVE  /\ Takes(e) =>
              /\ \A f \in Executions : f # e => received'[f] = received[f]
              /\ Len(received[e]) \in Nat /\ Len(received'[e]) = Len(received[e]) + 1
              /\ \A n \in 1..Len(received[e]) : received'[e][n] = received[e][n]
         /\ Begin(e) \/ Stops(e) \/ Goes(e) \/ ReadLength(e) \/ Writes(e) \/ Closes(e) =>
              received' = received
         /\ Begin(e) \/ Stops(e) \/ Takes(e) \/ Goes(e) \/ ReadLength(e) => stream' = stream
<1>1. received \in [Executions -> Seq(Messages)]
  BY DEF Typed, MailTypes
<1>2. ASSUME Takes(e)
      PROVE  /\ \A f \in Executions : f # e => received'[f] = received[f]
             /\ Len(received[e]) \in Nat /\ Len(received'[e]) = Len(received[e]) + 1
             /\ \A n \in 1..Len(received[e]) : received'[e][n] = received[e][n]
  <2>1. PICK m \in Messages : Given(e, m)
    BY <1>2 DEF Takes
  <2>2. QED
    BY <1>1, <2>1, GivenFacts
<1>3. Begin(e) \/ Stops(e) \/ Goes(e) \/ ReadLength(e) \/ Writes(e) \/ Closes(e) =>
        received' = received
  BY DEF Begin, Stops, Goes, ReadLength, Writes, Closes
<1>4. Begin(e) \/ Stops(e) \/ Takes(e) \/ Goes(e) \/ ReadLength(e) => stream' = stream
  BY DEF Begin, Stops, Takes, Goes, ReadLength, tables
<1>5. QED
  BY <1>2, <1>3, <1>4

\* The entries an execution has written are counted by numbers.
LEMMA WrittenType ==
  ASSUME stream \in Seq(Entry), NEW e
  PROVE  /\ Written(e) \in SUBSET (1..Len(stream)) /\ Len(stream) \in Nat
         /\ Cardinality(Written(e)) \in Nat
         /\ \A i \in Written(e) : Rank(Written(e), i) \in Nat /\ i \in Nat
<1>1. Written(e) \in SUBSET (1..Len(stream)) /\ Len(stream) \in Nat
  BY ValuesFacts DEF Written
<1>2. PICK size, P : size \in Nat /\ size = Len(stream) /\ P = Written(e)
  BY <1>1
<1>3. P \in SUBSET (1..size)
  BY <1>1, <1>2
<1>4. Cardinality(P) \in Nat /\ \A i \in Nat : Rank(P, i) \in Nat
  BY <1>2, <1>3, RankType
<1>5. \A i \in P : i \in Nat
  BY <1>2, <1>3
<1>6. QED
  BY <1>1, <1>2, <1>4, <1>5

\* An execution writes what it has received once, and in time.
LEMMA PaceKept ==
  ASSUME Typed, StreamTypes, Lone, OffsetNow, Pace, [Next]_vars
  PROVE  Pace'
<1>1. /\ received \in [Executions -> Seq(Messages)] /\ stream \in Seq(Entry)
      /\ offset \in [Executions -> Nat] /\ backend' = backend
  BY StreamCases DEF Typed, MailTypes, StreamTypes
<1>2. SUFFICES ASSUME Single', NEW f \in Executions
               PROVE  /\ Cardinality(Written(f)') <= Len(received'[f])
                      /\ life'[f] \in {"unborn", "running"} =>
                           Cardinality(Written(f)') + Due(f)' = Len(received'[f])
  BY DEF Pace
<1>3. Single /\ (late' => backend = "memory")
  BY <1>1, <1>2, SingleWas DEF Single
<1>4. /\ Cardinality(Written(f)) <= Len(received[f])
      /\ life[f] \in {"unborn", "running"} => Cardinality(Written(f)) + Due(f) = Len(received[f])
  BY <1>3 DEF Pace
<1>5. Cardinality(Written(f)) \in Nat /\ Len(received[f]) \in Nat
  BY <1>1, WrittenType, LenProperties
<1>6. stream' = stream => Written(f)' = Written(f)
  BY DEF Written
<1>7. ASSUME stream' = stream, offset'[f] = offset[f], held'[f] = held[f], at'[f] = at[f]
      PROVE  Due(f)' = Due(f)
  BY <1>1, <1>7, PlacedSame DEF Due
<1>8. CASE Still
  BY <1>4, <1>6, <1>7, <1>8 DEF Still
<1>9. CASE Drifts
  BY <1>3, <1>9 DEF Drifts
<1>10. ASSUME NEW e \in Executions, Begin(e) \/ Stops(e)
      PROVE  /\ Cardinality(Written(f)') <= Len(received'[f])
             /\ life'[f] \in {"unborn", "running"} =>
                  Cardinality(Written(f)') + Due(f)' = Len(received'[f])
  <2>1. received' = received /\ Written(f)' = Written(f)
    BY <1>6, <1>10, ReceivedChange
  <2>2. life'[f] \in {"unborn", "running"} =>
          Due(f)' = Due(f) /\ life[f] \in {"unborn", "running"}
    <3>1. UNCHANGED <<at, offset, stream>>
      BY <1>10 DEF Begin, Stops, tables
    <3>2. CASE Begin(e) \/ f # e
      <4>1. held'[f] = held[f]
        BY <1>10, <3>2 DEF Begin, Stops
      <4>2. QED
        BY <1>7, <1>10, <3>1, <3>2, <4>1, CallFacts
    <3>3. CASE Stops(e) /\ f = e
      BY <3>3, CallFacts
    <3>4. QED
      BY <1>10, <3>2, <3>3
  <2>3. QED
    BY <1>4, <2>1, <2>2
<1>11. ASSUME NEW e \in Executions, Takes(e)
      PROVE  /\ Cardinality(Written(f)') <= Len(received'[f])
             /\ life'[f] \in {"unborn", "running"} =>
                  Cardinality(Written(f)') + Due(f)' = Len(received'[f])
  <2>1. life' = life /\ Written(f)' = Written(f)
    BY <1>6, <1>11, ReceivedChange DEF Takes
  <2>2. CASE f = e
    <3>1. Due(f) = 0 /\ Due(f)' = 1
      BY <1>11, <2>2, CallFacts DEF Due
    <3>2. Len(received'[f]) = Len(received[f]) + 1
      BY <1>11, <2>2, ReceivedChange
    <3>3. QED
      BY <1>4, <1>5, <2>1, <3>1, <3>2
  <2>3. CASE f # e
    <3>1. at'[f] = at[f] /\ received'[f] = received[f]
      BY <1>11, <2>3, CallFacts, ReceivedChange
    <3>2. Due(f)' = Due(f)
      BY <1>7, <1>11, <2>3, <3>1 DEF Takes
    <3>3. QED
      BY <1>4, <2>1, <3>1, <3>2
  <2>4. QED
    BY <2>2, <2>3
<1>12. ASSUME NEW e \in Executions, Goes(e) \/ ReadLength(e)
       PROVE  /\ Cardinality(Written(f)') <= Len(received'[f])
              /\ life'[f] \in {"unborn", "running"} =>
                   Cardinality(Written(f)') + Due(f)' = Len(received'[f])
  <2>1. life' = life /\ received' = received /\ Written(f)' = Written(f)
    BY <1>6, <1>12, ReceivedChange DEF Goes, ReadLength
  <2>2. Due(f)' = Due(f)
    <3>1. CASE f # e
      <4>1. at'[f] = at[f] /\ stream' = stream /\ held'[f] = held[f]
        BY <1>12, <3>1, CallFacts DEF Goes, ReadLength, tables
      <4>2. offset'[f] = offset[f]
        BY <1>1, <1>12, <3>1 DEF Goes, ReadLength
      <4>3. QED
        BY <1>7, <4>1, <4>2
    <3>2. CASE Goes(e) /\ f = e
      BY <3>2, CallFacts DEF Due
    <3>3. CASE ReadLength(e) /\ f = e
      <4>1. offset'[f] = Len(stream') /\ Len(stream') \in Nat
        BY <1>1, <3>3, LenProperties DEF ReadLength, Length, tables
      <4>2. ~Placed(f)'
        BY <4>1 DEF Placed
      <4>3. QED
        BY <3>3, <4>2, CallFacts DEF Due
    <3>4. QED
      BY <1>12, <3>1, <3>2, <3>3
  <2>3. QED
    BY <1>4, <2>1, <2>2
<1>13. ASSUME NEW e \in Executions, Writes(e) \/ Closes(e), f # e
       PROVE  /\ Cardinality(Written(f)') <= Len(received'[f])
              /\ life'[f] \in {"unborn", "running"} =>
                   Cardinality(Written(f)') + Due(f)' = Len(received'[f])
  <2>1. received' = received /\ Written(f)' = Written(f) /\ life'[f] = life[f] /\ at'[f] = at[f]
    BY <1>3, <1>13, ReceivedChange, WrittenChange, CallFacts
  <2>2. CASE backend = "memory"
    <3>1. Due(f)' = Due(f)
      BY <1>1, <2>1, <2>2 DEF Due, Placed
    <3>2. QED
      BY <1>4, <2>1, <3>1
  <2>3. CASE backend # "memory"
    <3>1. Running(e) /\ ~Running(f)
      BY <1>3, <1>13, <2>3, CallFacts DEF Lone, Single
    <3>2. life[f] = "unborn" => Due(f) = 0 /\ Due(f)' = 0
      BY <2>1 DEF Typed, Progress, Due
    <3>3. QED
      BY <1>4, <2>1, <3>1, <3>2 DEF Running
  <2>4. QED
    BY <2>2, <2>3
<1>14. ASSUME Writes(f) \/ Closes(f)
       PROVE  /\ Cardinality(Written(f)') <= Len(received'[f])
              /\ Cardinality(Written(f)') + Due(f)' = Len(received'[f])
  <2>1. received' = received /\ Cardinality(Written(f)) + Due(f) = Len(received[f])
    BY <1>4, <1>14, ReceivedChange, CallFacts DEF Running
  <2>2. CASE Closes(f)
    <3>1. Due(f) = 0 /\ Due(f)' = 0 /\ Written(f)' = Written(f)
      BY <1>3, <2>2, CallFacts, WrittenChange DEF Due
    <3>2. QED
      BY <1>4, <2>1, <3>1
  <2>3. CASE Writes(f)
    <3>1. Due(f)' = 0
      <4>1. CASE at'[f] \in {"recv", "event"}
        BY <4>1 DEF Due
      <4>2. CASE backend = "sql" /\ at' = at
        <5>1. at[f] = "write"
          BY <2>3, CallFacts
        <5>2. Placed(f)'
          BY <1>1, <1>3, <2>3, <4>2, <5>1, PlacedThen
        <5>3. QED
          BY <4>2, <5>1, <5>2 DEF Due
      <4>3. QED
        BY <2>3, <4>1, <4>2, CallFacts
    <3>2. Cardinality(Written(f)') = Cardinality(Written(f)) + Due(f)
      <4>1. at[f] = "write"
        BY <2>3, CallFacts
      <4>2. CASE Placed(f)
        <5>1. Due(f) = 0 /\ Written(f)' = Written(f)
          BY <1>3, <2>3, <4>1, <4>2, WrittenChange DEF Due
        <5>2. QED
          BY <1>5, <5>1
      <4>3. CASE ~Placed(f)
        BY <1>3, <2>3, <4>1, <4>3, WrittenChange DEF Due
      <4>4. QED
        BY <4>2, <4>3
    <3>3. QED
      BY <1>5, <2>1, <3>1, <3>2
  <2>4. QED
    BY <1>14, <2>2, <2>3
<1>15. QED
  BY <1>8, <1>9, <1>10, <1>11, <1>12, <1>13, <1>14, StreamCases

\* The entries of an execution are what it received, in order.
LEMMA AgreesKept ==
  ASSUME Typed, StreamTypes, OffsetNow, HeldLast, Pace, StreamAgrees, [Next]_vars
  PROVE  StreamAgrees'
<1>1. received \in [Executions -> Seq(Messages)] /\ stream \in Seq(Entry)
  BY DEF Typed, MailTypes, StreamTypes
<1>2. SUFFICES ASSUME Single', NEW f \in Executions, NEW i \in Written(f)'
               PROVE  /\ Rank(Written(f)', i) <= Len(received'[f])
                      /\ stream'[i].value = received'[f][Rank(Written(f)', i)]
  BY DEF StreamAgrees, Single
<1>3. Single /\ (late' => backend = "memory")
  BY <1>2, SingleWas, StreamCases DEF Single
<1>4. \A j \in Written(f) : /\ Rank(Written(f), j) <= Len(received[f])
                            /\ stream[j].value = received[f][Rank(Written(f), j)]
  BY <1>3 DEF StreamAgrees, Single
<1>5. Len(received[f]) \in Nat /\ \A j \in Written(f) : Rank(Written(f), j) \in Nat /\ j \in Nat
  BY <1>1, WrittenType, LenProperties
<1>6. stream' = stream => Written(f)' = Written(f)
  BY DEF Written
<1>7. ASSUME stream' = stream, received'[f] = received[f]
      PROVE  /\ Rank(Written(f)', i) <= Len(received'[f])
             /\ stream'[i].value = received'[f][Rank(Written(f)', i)]
  BY <1>4, <1>6, <1>7
<1>8. ASSUME NEW e \in Executions, Begin(e) \/ Stops(e) \/ Goes(e) \/ ReadLength(e)
      PROVE  stream' = stream /\ received'[f] = received[f]
  BY <1>8, ReceivedChange
<1>9. ASSUME NEW e \in Executions, Takes(e)
      PROVE  /\ Rank(Written(f)', i) <= Len(received'[f])
             /\ stream'[i].value = received'[f][Rank(Written(f)', i)]
  <2>1. stream' = stream /\ Written(f)' = Written(f)
    BY <1>6, <1>9, ReceivedChange
  <2>2. CASE f = e
    <3>1. /\ Len(received'[f]) = Len(received[f]) + 1
          /\ \A n \in 1..Len(received[f]) : received'[f][n] = received[f][n]
      BY <1>9, <2>2, ReceivedChange
    <3>2. PICK n \in Nat : n = Rank(Written(f), i)
      BY <1>2, <1>5, <2>1
    <3>3. n <= Len(received[f]) /\ stream[i].value = received[f][n]
      BY <1>2, <1>4, <2>1, <3>2
    <3>4. n \in 1..Len(received[f])
      <4>1. PICK P \in SUBSET (1..Len(stream)) : P = Written(f)
        BY <1>1, WrittenType
      <4>2. Len(stream) \in Nat /\ i \in P
        BY <1>1, <1>2, <2>1, <4>1, LenProperties
      <4>3. Rank(P, i) = Rank(P, i - 1) + 1 /\ Rank(P, i - 1) \in Nat
        <5>1. i \in 1..Len(stream) /\ i - 1 \in Nat
          BY <4>1, <4>2
        <5>2. QED
          BY <4>2, <5>1, RankNext, RankType
      <4>4. QED
        BY <1>5, <3>2, <3>3, <4>1, <4>3
    <3>5. QED
      BY <1>5, <2>1, <3>1, <3>2, <3>3, <3>4
  <2>3. CASE f # e
    BY <1>7, <1>9, <2>1, <2>3, ReceivedChange
  <2>4. QED
    BY <2>2, <2>3
<1>10. ASSUME NEW e \in Executions, Writes(e) \/ Closes(e), i \in Written(f)
       PROVE  /\ Rank(Written(f)', i) <= Len(received'[f])
              /\ stream'[i].value = received'[f][Rank(Written(f)', i)]
  <2>1. stream'[i] = stream[i] /\ Rank(Written(f)', i) = Rank(Written(f), i)
    BY <1>3, <1>10, WrittenChange
  <2>2. received' = received
    BY <1>10, ReceivedChange
  <2>3. QED
    BY <1>4, <1>10, <2>1, <2>2
<1>11. ASSUME NEW e \in Executions, Writes(e) \/ Closes(e), i \notin Written(f)
       PROVE  /\ Rank(Written(f)', i) <= Len(received'[f])
              /\ stream'[i].value = received'[f][Rank(Written(f)', i)]
  <2>1. f = e /\ Writes(e) /\ ~Placed(e)
    BY <1>2, <1>3, <1>11, WrittenChange
  <2>2. /\ Written(f)' = Written(f) \cup {Len(stream) + 1}
        /\ Rank(Written(f)', Len(stream) + 1) = Cardinality(Written(f)) + 1
        /\ stream'[Len(stream) + 1] = Wrote(e)
    BY <1>3, <2>1, WrittenChange
  <2>3. i = Len(stream) + 1
    BY <1>2, <1>11, <2>2
  <2>4. /\ life[e] = "running" /\ at[e] = "write" /\ Due(e) = 1
    BY <2>1, CallFacts DEF Due, Running
  <2>5. Cardinality(Written(e)) + 1 = Len(received[e])
    BY <1>3, <2>4 DEF Pace
  <2>6. held[e].of = received[e][Len(received[e])] /\ received' = received
    BY <2>1, <2>4, ReceivedChange DEF HeldLast
  <2>7. Wrote(e).value = held[e].of
    BY DEF Wrote
  <2>8. QED
    BY <1>5, <2>1, <2>2, <2>3, <2>5, <2>6, <2>7
<1>12. CASE Still
  BY <1>7, <1>12 DEF Still
<1>13. CASE Drifts
  BY <1>3, <1>13 DEF Drifts
<1>14. QED
  BY <1>7, <1>8, <1>9, <1>10, <1>11, <1>12, <1>13, StreamCases

-----------------------------------------------------------------------------
(* The subscription.                                                        *)

\* The reader changes by its own polls.
LEMMA ReaderChange ==
  ASSUME Typed, [Next]_vars
  PROVE  reader' = reader \/ PollStream \/ PollStreamFails
<1>1. CASE OtherStep
  BY <1>1 DEF OtherStep, GetEvent, GetEventTimesOut, vars
<1>2. ASSUME NEW s \in Senders, SenderStep(s) PROVE reader' = reader
  BY <1>2, SenderPuts
<1>3. ASSUME NEW e \in Executions, RestStep(e) PROVE reader' = reader
  BY <1>3, RestPuts
<1>4. ASSUME NEW e \in Executions, RecvStep(e) PROVE reader' = reader
  BY <1>4, ReceiveFacts, ListFacts, RecvCases DEF RecvStep, Aside, Marks, Misses
<1>5. ASSUME NEW w \in adrift, Land(w) PROVE reader' = reader
  BY <1>5, LandFacts
<1>6. QED
  BY <1>1, <1>2, <1>3, <1>4, <1>5, StepCases

\* What a prefix is, element by element.
LEMMA PrefixFacts ==
  ASSUME NEW S, NEW s \in Seq(S), NEW t \in Seq(S)
  PROVE  IsPrefix(s, t) <=> Len(s) <= Len(t) /\ \A n \in 1..Len(s) : s[n] = t[n]
<1>1. Len(s) \in Nat /\ Len(t) \in Nat
  BY LenProperties
<1>2. SubSeq(s, 1, Len(s)) = s
  BY SubSeqFull
<1>3. ASSUME Len(s) <= Len(t)
      PROVE  /\ SubSeq(t, 1, Len(s)) \in Seq(S) /\ Len(SubSeq(t, 1, Len(s))) = Len(s)
             /\ \A n \in 1..Len(s) : SubSeq(t, 1, Len(s))[n] = t[n]
  <2>1. \A n \in 1..Len(s) : t[n] \in S
    BY <1>1, <1>3, ElementOfSeq
  <2>2. /\ SubSeq(t, 1, Len(s)) \in Seq(S)
        /\ Len(SubSeq(t, 1, Len(s))) = IF 1 <= Len(s) THEN Len(s) - 1 + 1 ELSE 0
        /\ \A n \in 1..(Len(s) - 1 + 1) : SubSeq(t, 1, Len(s))[n] = t[1 + n - 1]
    BY <1>1, <2>1, SubSeqProperties
  <2>3. QED
    BY <1>1, <2>2
<1>4. ASSUME Len(s) <= Len(t), \A n \in 1..Len(s) : s[n] = t[n]
      PROVE  s = SubSeq(t, 1, Len(s))
  BY <1>3, <1>4, SeqEqual
<1>5. QED
  BY <1>2, <1>3, <1>4 DEF IsPrefix

\* A poll brings what the stream has.
LEMMA PollFacts ==
  ASSUME reader \in [open : BOOLEAN, sent : Seq(Entry)], stream \in Seq(Entry), PollStream
  PROVE  /\ reader' \in [open : BOOLEAN, sent : Seq(Entry)] /\ stream' = stream
         /\ IsPrefix(reader.sent, Values(stream)) => reader'.sent = Values(stream)
<1>1. PICK sent \in Seq(Entry), V \in Seq(Entry) : sent = reader.sent /\ V = Values(stream)
  BY ValuesFacts
<1>2. reader' = [open |-> ~Closed, sent |-> sent \o SubSeq(V, Len(sent) + 1, Len(V))]
      /\ stream' = stream
  BY <1>1 DEF PollStream, Undelivered, tables
<1>3. Closed \in BOOLEAN
  BY DEF Closed
<1>4. Len(sent) \in Nat /\ Len(V) \in Nat
  BY LenProperties
<1> DEFINE rest == SubSeq(V, Len(sent) + 1, Len(V))
<1>5. \A n \in (Len(sent) + 1)..Len(V) : V[n] \in Entry
  BY <1>4, ElementOfSeq
<1>6. /\ rest \in Seq(Entry)
      /\ Len(rest) = IF Len(sent) + 1 <= Len(V) THEN Len(V) - (Len(sent) + 1) + 1 ELSE 0
      /\ \A n \in 1..(Len(V) - (Len(sent) + 1) + 1) : rest[n] = V[Len(sent) + 1 + n - 1]
  BY <1>4, <1>5, SubSeqProperties
<1> HIDE DEF rest
<1>7. /\ sent \o rest \in Seq(Entry) /\ Len(sent \o rest) = Len(sent) + Len(rest)
      /\ \A n \in 1..(Len(sent) + Len(rest)) :
           (sent \o rest)[n] = IF n <= Len(sent) THEN sent[n] ELSE rest[n - Len(sent)]
  BY <1>6, ConcatProperties
<1>8. ASSUME IsPrefix(sent, V) PROVE sent \o rest = V
  <2>1. Len(sent) <= Len(V) /\ \A n \in 1..Len(sent) : sent[n] = V[n]
    BY <1>8, PrefixFacts
  <2>2. Len(sent \o rest) = Len(V) /\ Len(rest) = Len(V) - Len(sent)
    BY <1>4, <1>6, <1>7, <2>1
  <2>3. ASSUME NEW n \in 1..Len(V) PROVE (sent \o rest)[n] = V[n]
    <3>1. (sent \o rest)[n] = IF n <= Len(sent) THEN sent[n] ELSE rest[n - Len(sent)]
      BY <1>4, <1>7, <2>2
    <3>2. CASE n <= Len(sent)
      BY <1>4, <2>1, <3>1, <3>2
    <3>3. CASE ~(n <= Len(sent))
      <4>1. PICK gap \in Nat : gap = Len(sent)
        BY <1>4
      <4>2. n - gap \in 1..(Len(V) - (gap + 1) + 1) /\ gap + 1 + (n - gap) - 1 = n
        BY <1>4, <3>3, <4>1
      <4>3. rest[n - gap] = V[gap + 1 + (n - gap) - 1]
        BY <1>6, <4>1, <4>2
      <4>4. QED
        BY <3>1, <3>3, <4>1, <4>2, <4>3
    <3>4. QED
      BY <3>2, <3>3
  <2>4. QED
    BY <1>7, <2>2, <2>3, SeqEqual
<1>9. reader'.sent = sent \o rest /\ reader' \in [open : BOOLEAN, sent : Seq(Entry)]
  BY <1>2, <1>3, <1>7 DEF rest
<1>10. QED
  BY <1>1, <1>2, <1>8, <1>9

\* The puts that may still be applied are those of senders and executions.
LEMMA AdriftTyped ==
  ASSUME Typed, StreamTypes, [Next]_vars
  PROVE  adrift' \subseteq PutCall /\ \A w \in adrift' : w.at # "send" => w.by \in Executions
<1>1. adrift \subseteq PutCall /\ \A w \in adrift : w.at # "send" => w.by \in Executions
  BY DEF StreamTypes
<1>2. ASSUME NEW s \in Senders, sender[s].stamp # None
      PROVE  Sending(s) \in PutCall /\ Sending(s).at = "send"
  <2>1. Sending(s).held \in Mail
    BY <1>2, OwnRows
  <2>2. QED
    BY <2>1 DEF Sending, PutCall, Puts
<1>3. ASSUME NEW e \in Executions, at[e] \in Puts
      PROVE  Writing(e) \in PutCall /\ Writing(e).by \in Executions
  <2>1. Writing(e).held \in Mail
    BY <1>3, OwnRows DEF Writing, Puts
  <2>2. offset[e] \in Nat
    BY DEF StreamTypes
  <2>3. QED
    BY <1>3, <2>1, <2>2 DEF Writing, PutCall
<1>4. CASE OtherStep
  BY <1>1, <1>4, OtherTyped
<1>5. ASSUME NEW s \in Senders, SenderStep(s)
      PROVE  adrift' = adrift \/ (sender[s].stamp # None /\ adrift' = adrift \cup {Sending(s)})
  BY <1>5, SenderPuts
<1>6. ASSUME NEW e \in Executions, RestStep(e)
      PROVE  adrift' = adrift \/ (at[e] \in Puts /\ adrift' = adrift \cup {Writing(e)})
  BY <1>6, RestPuts
<1>7. ASSUME NEW e \in Executions, RecvStep(e)
      PROVE  adrift' = adrift \/ (at[e] \in Puts /\ adrift' = adrift \cup {Writing(e)})
  BY <1>7, ReceiveFacts, ListFacts, RecvCases DEF RecvStep, Marks, Misses, At, Puts
<1>8. ASSUME NEW w \in adrift, Land(w) PROVE adrift' \subseteq adrift
  BY <1>8, LandFacts
<1>9. QED
  BY <1>1, <1>2, <1>3, <1>4, <1>5, <1>6, <1>7, <1>8, StepCases

\* Every step keeps the types of the stream and its reader.
LEMMA StreamTyped ==
  ASSUME Typed, StreamTypes, [Next]_vars
  PROVE  StreamTypes'
<1>1. /\ offset \in [Executions -> Nat] /\ stream \in Seq(Entry) /\ Len(stream) \in Nat
      /\ reader \in [open : BOOLEAN, sent : Seq(Entry)]
  BY LenProperties DEF StreamTypes
<1>2. backend' \in Backends
  BY StreamCases DEF StreamTypes
<1>3. offset' \in [Executions -> Nat] /\ stream' \in Seq(Entry)
  <2>1. CASE Still
    BY <1>1, <2>1 DEF Still
  <2>2. ASSUME NEW e \in Executions, Begin(e) \/ Stops(e) \/ Takes(e) \/ Goes(e)
        PROVE  UNCHANGED <<offset, stream>>
    BY <2>2 DEF Begin, Stops, Takes, Goes, tables
  <2>3. ASSUME NEW e \in Executions, ReadLength(e)
        PROVE  offset' \in [Executions -> Nat] /\ stream' = stream
    BY <1>1, <2>3 DEF ReadLength, Length, tables
  <2>4. ASSUME NEW e \in Executions, Writes(e) \/ Closes(e)
        PROVE  offset' = offset /\ stream' \in Seq(Entry)
    <3>1. PICK o \in Nat, entry \in Entry : PutEntry(o, entry)
      BY <1>1, <2>4, OwnEntries DEF Writes, Closes
    <3>2. stream' \in Seq(Entry)
      BY <1>1, <3>1, EntryFacts
    <3>3. QED
      BY <2>4, <3>2 DEF Writes, Closes
  <2>5. CASE Drifts
    <3>1. PICK w \in adrift : Land(w) /\ offset' = offset
      BY <2>5 DEF Drifts
    <3>2. CASE w.at \in {"write", "close"}
      <4>1. w.offset \in Nat /\ w.by \in Executions /\ w.held \in Mail \cup {NoMail}
        BY <3>1, <3>2 DEF StreamTypes, PutCall
      <4>2. w.held.of \in Messages \cup {NoMessage}
        BY <4>1, RowFacts DEF NoMail
      <4>3. [by |-> w.by, closed |-> w.at = "close",
             value |-> IF w.at = "close" THEN NoMessage ELSE w.held.of] \in Entry
        BY <4>1, <4>2 DEF Entry
      <4>4. PICK o \in Nat, entry \in Entry : PutEntry(o, entry)
        BY <3>1, <3>2, <4>1, <4>3 DEF Land, Put
      <4>5. QED
        BY <1>1, <3>1, <4>4, EntryFacts
    <3>3. CASE w.at \notin {"write", "close"}
      BY <1>1, <3>1, <3>3 DEF Land, Put
    <3>4. QED
      BY <3>2, <3>3
  <2>6. QED
    BY <1>1, <2>1, <2>2, <2>3, <2>4, <2>5, StreamCases
<1>4. event' \in Messages \cup {NoMessage}
  <2>1. event \in Messages \cup {NoMessage}
    BY DEF StreamTypes
  <2>2. CASE OtherStep
    BY <2>1, <2>2, OtherTyped DEF tables
  <2>3. ASSUME NEW s \in Senders, SenderStep(s) PROVE event' = event
    BY <2>3, SenderPuts
  <2>4. ASSUME NEW e \in Executions, RecvStep(e) PROVE event' = event
    BY <2>4, ReceiveFacts, ListFacts, RecvCases DEF RecvStep, Aside, Marks, Misses
  <2>5. ASSUME NEW e \in Executions, RestStep(e)
        PROVE  event' = event \/ event' \in Messages
    <3>1. at[e] = "event" => held[e].of \in Messages
      BY OwnRows, RowFacts
    <3>2. QED
      BY <2>5, <3>1, RestMoves
  <2>6. ASSUME NEW w \in adrift, Land(w) PROVE event' = event \/ event' \in Messages
    BY <2>6, LandFacts
  <2>7. QED
    BY <2>1, <2>2, <2>3, <2>4, <2>5, <2>6, StepCases
<1>5. waiter' \in {"absent", "asking", "answered", "failed", "early", "timeout"}
  BY WaiterChange DEF StreamTypes, GetEvent, GetEventTimesOut
<1>6. reader' \in [open : BOOLEAN, sent : Seq(Entry)]
  <2>1. PollStreamFails => reader' = [reader EXCEPT !.open = FALSE]
    BY DEF PollStreamFails
  <2>2. QED
    BY <1>1, <2>1, ReaderChange, PollFacts
<1>7. overlapped' \in BOOLEAN
  <2>1. \A e \in Executions : Begin(e) => overlapped' \in BOOLEAN
    BY DEF Begin, StreamTypes, Running
  <2>2. QED
    BY <2>1, LifeChange DEF StreamTypes
<1>8. late' \in BOOLEAN
  <2>1. CASE OtherStep
    BY <2>1, OtherTyped DEF histories, StreamTypes
  <2>2. ASSUME NEW s \in Senders, SenderStep(s) PROVE late' = late
    BY <2>2, SenderPuts
  <2>3. ASSUME NEW e \in Executions, RecvStep(e) PROVE late' = late
    BY <2>3, ReceiveFacts, ListFacts, RecvCases DEF RecvStep, Aside, Marks, Misses
  <2>4. ASSUME NEW e \in Executions, RestStep(e) PROVE late' = late
    BY <2>4, RestPuts
  <2>5. ASSUME NEW w \in adrift, Land(w) PROVE late' \in BOOLEAN
    BY <2>5 DEF Land, StreamTypes
  <2>6. QED
    BY <2>1, <2>2, <2>3, <2>4, <2>5, StepCases DEF StreamTypes
<1>9. spoiled' \subseteq Messages
  <2>1. \A k \in 1..Len(mail) : mail[k].of \in Messages
    BY ElementOfSeq, RowFacts DEF Typed, MailTypes
  <2>2. ASSUME NEW row PROVE Replaced(row) \subseteq Messages
    BY <2>1 DEF Replaced, Keyed
  <2>3. spoiled \subseteq Messages
    BY DEF StreamTypes
  <2>4. CASE OtherStep
    BY <2>3, <2>4, OtherTyped DEF histories
  <2>5. ASSUME NEW s \in Senders, SenderStep(s) PROVE spoiled' \subseteq Messages
    BY <2>2, <2>3, <2>5, SenderPuts
  <2>6. ASSUME NEW e \in Executions, RecvStep(e) PROVE spoiled' \subseteq Messages
    <3>1. CASE Receive(e)
      BY <2>3, <3>1, ReceiveFacts
    <3>2. CASE ListMessages(e)
      BY <2>3, <3>2, ListFacts
    <3>3. CASE Marks(e)
      BY <2>2, <2>3, <3>3 DEF Marks
    <3>4. CASE Misses(e)
      <4>1. held[e].of \in Messages
        BY <3>4, OwnRows, RowFacts DEF Misses, At
      <4>2. QED
        BY <2>2, <2>3, <3>4, <4>1 DEF Misses
    <3>5. QED
      BY <2>6, <3>1, <3>2, <3>3, <3>4, RecvCases DEF RecvStep
  <2>7. ASSUME NEW e \in Executions, RestStep(e) PROVE spoiled' = spoiled
    BY <2>7, RestPuts
  <2>8. ASSUME NEW w \in adrift, Land(w) PROVE spoiled' \subseteq Messages
    <3>1. w.at \in {"send", "consume"} => w.held.of \in Messages
      BY RowFacts DEF Typed, Adrift, Whole
    <3>2. Risked(w) \subseteq Messages
      BY <2>2, <3>1 DEF Risked
    <3>3. QED
      BY <2>3, <2>8, <3>2 DEF Land
  <2>9. QED
    BY <2>3, <2>4, <2>5, <2>6, <2>7, <2>8, StepCases
<1>10. QED
  BY <1>2, <1>3, <1>4, <1>5, <1>6, <1>7, <1>8, <1>9, AdriftTyped DEF StreamTypes

\* What was delivered stays a prefix of what the stream has.
LEMMA PrefixKept ==
  ASSUME Typed, StreamTypes, OffsetNow, ReaderPrefix, [Next]_vars
  PROVE  ReaderPrefix'
<1>1. /\ reader \in [open : BOOLEAN, sent : Seq(Entry)] /\ stream \in Seq(Entry)
      /\ reader.sent \in Seq(Entry)
  BY DEF StreamTypes
<1>2. SUFFICES ASSUME Single'
               PROVE  IsPrefix(reader'.sent, Values(stream'))
  BY DEF ReaderPrefix, Single
<1>3. Single /\ (late' => backend = "memory")
  BY <1>2, SingleWas, StreamCases DEF Single
<1>4. IsPrefix(reader.sent, Values(stream))
  BY <1>3 DEF ReaderPrefix, Single
<1>5. CASE PollStream
  <2>1. reader'.sent = Values(stream) /\ stream' = stream
    BY <1>1, <1>4, <1>5, PollFacts
  <2>2. Values(stream) \in Seq(Entry)
    BY <1>1, ValuesFacts
  <2>3. IsPrefix(Values(stream), Values(stream))
    BY <2>2, LenProperties, PrefixFacts
  <2>4. QED
    BY <2>1, <2>3
<1>6. CASE reader' = reader \/ PollStreamFails
  <2>1. reader'.sent = reader.sent
    BY <1>1, <1>6 DEF PollStreamFails
  <2>2. CASE stream' = stream
    BY <1>4, <2>1, <2>2
  <2>3. ASSUME NEW e \in Executions, Writes(e) \/ Closes(e)
        PROVE  IsPrefix(reader'.sent, Values(stream'))
    <3> SUFFICES ASSUME stream' # stream PROVE IsPrefix(reader'.sent, Values(stream'))
      BY <2>2
    <3>1. PICK entry \in Entry : stream' = Append(stream, entry)
      BY <1>3, <2>3, PutIsLast, OwnEntries DEF Writes
    <3>2. PICK s \in Seq(Entry), sent \in Seq(Entry) : s = stream /\ sent = reader.sent
      BY <1>1
    <3>3. PICK V \in Seq(Entry), W \in Seq(Entry) : V = Values(s) /\ W = Values(Append(s, entry))
      <4>1. Append(s, entry) \in Seq(Entry)
        BY AppendProperties
      <4>2. QED
        BY <4>1, ValuesFacts
    <3>4. Len(V) <= Len(W) /\ \A n \in 1..Len(V) : W[n] = V[n]
      BY <3>3, ValuesGrow
    <3>5. Len(sent) <= Len(V) /\ \A n \in 1..Len(sent) : sent[n] = V[n]
      BY <1>4, <3>2, <3>3, PrefixFacts
    <3>6. Len(sent) \in Nat /\ Len(V) \in Nat /\ Len(W) \in Nat
      BY LenProperties
    <3>7. Len(sent) <= Len(W) /\ \A n \in 1..Len(sent) : sent[n] = W[n]
      BY <3>4, <3>5, <3>6
    <3>8. IsPrefix(sent, W)
      BY <3>7, PrefixFacts
    <3>9. QED
      BY <2>1, <3>1, <3>2, <3>3, <3>8
  <2>4. CASE Drifts
    BY <1>3, <2>4 DEF Drifts
  <2>5. QED
    BY <2>2, <2>3, <2>4, StreamCases, ReceivedChange DEF Still
<1>7. QED
  BY <1>5, <1>6, ReaderChange

-----------------------------------------------------------------------------
(* The invariants of the stream hold of what the program reaches.           *)

\* Nothing was written at the beginning.
LEMMA InitStream == Init => StreamInv
<1> SUFFICES ASSUME Init PROVE StreamInv
  OBVIOUS
<1>1. StreamTypes
  <2>1. <<>> \in Seq(Entry)
    BY EmptySeq
  <2>2. reader \in [open : BOOLEAN, sent : Seq(Entry)]
    BY <2>1, CommunicationAssumption DEF Init
  <2>3. offset \in [Executions -> Nat]
    BY DEF Init
  <2>4. QED
    BY <2>1, <2>2, <2>3, CommunicationAssumption DEF Init, StreamTypes
<1>2. /\ \A e \in Executions : ~Running(e) /\ at[e] = "recv" /\ Len(received[e]) = 0
      /\ stream = <<>> /\ reader.sent = <<>>
  BY DEF Init, Running
<1>3. \A e \in Executions : Written(e) = {} /\ Due(e) = 0
  BY <1>2, EmptySeq DEF Written, Carrying, Due
<1>4. Pace
  <2>1. Cardinality({}) = 0
    BY FS_EmptySet, Zenon
  <2>2. \A e \in Executions : Cardinality(Written(e)) = 0
    BY <1>3, <2>1
  <2>3. QED
    BY <1>2, <1>3, <2>2 DEF Pace
<1>5. OffsetNow /\ HeldLast /\ StreamAgrees
  BY <1>2, <1>3 DEF OffsetNow, HeldLast, StreamAgrees, At
<1>6. ReaderPrefix
  <2>1. Values(stream) \in Seq(Entry) /\ <<>> \in Seq(Entry) /\ Len(<<>>) = 0
    BY <1>1, ValuesFacts, EmptySeq DEF StreamTypes
  <2>2. IsPrefix(<<>>, Values(stream))
    <3>1. PICK empty \in Seq(Entry), V \in Seq(Entry) : empty = <<>> /\ V = Values(stream)
      BY <2>1
    <3>2. Len(empty) = 0 /\ Len(V) \in Nat
      BY <2>1, <3>1, LenProperties
    <3>3. Len(empty) <= Len(V) /\ \A n \in 1..Len(empty) : empty[n] = V[n]
      BY <3>2
    <3>4. IsPrefix(empty, V)
      BY <3>3, PrefixFacts
    <3>5. QED
      BY <3>1, <3>4
  <2>3. QED
    BY <1>2, <2>2 DEF ReaderPrefix
<1>7. QED
  BY <1>1, <1>4, <1>5, <1>6 DEF StreamInv

\* Every step keeps all of them.
LEMMA StepStream == MailInv /\ StreamInv /\ [Next]_vars => StreamInv'
<1> SUFFICES ASSUME MailInv, StreamInv, [Next]_vars PROVE StreamInv'
  OBVIOUS
<1>1. /\ Typed /\ Lone
      /\ StreamTypes /\ OffsetNow /\ HeldLast /\ Pace /\ StreamAgrees /\ ReaderPrefix
  BY DEF MailInv, Unique, StreamInv
<1>2. StreamTypes' /\ OffsetNow' /\ HeldLast' /\ Pace'
  BY <1>1, StreamTyped, OffsetKept, HeldLastKept, PaceKept
<1>3. StreamAgrees' /\ ReaderPrefix'
  BY <1>1, AgreesKept, PrefixKept
<1>4. QED
  BY <1>2, <1>3 DEF StreamInv

\* So they hold at all times.
LEMMA StreamReached == Spec => [](MailInv /\ StreamInv)
<1>1. Init => MailInv /\ StreamInv
  BY InitMail, InitStream
<1>2. MailInv /\ StreamInv /\ [Next]_vars => (MailInv /\ StreamInv)'
  BY StepMail, StepStream
<1>3. QED
  BY <1>1, <1>2, PTL DEF Spec

\* Every variable keeps its type (send, recv, write_stream, set_event, context.rs).
THEOREM TypeCorrect == Spec => []TypeOK
<1>1. MailInv /\ StreamInv => TypeOK
  BY DEF MailInv, StreamInv, Typed, MailTypes, StreamTypes, TypeOK, Calls, Lives, Kinds, Puts
<1>2. QED
  BY <1>1, StreamReached, PTL

\* The stream has what each execution received, in that order, none left out and none
\* twice, although a put whose answer is lost is sent again: unless two executions write to a
\* SQL store at the same time, or a write is applied late (write_stream, context.rs; put and
\* insert_stream_entry, store.rs).
THEOREM StreamKept == Spec => []StreamAgrees
<1>1. MailInv /\ StreamInv => StreamAgrees
  BY DEF StreamInv
<1>2. QED
  BY <1>1, StreamReached, PTL

\* A subscription delivers every value once, in the order of the stream, however it and the
\* writers interleave: unless two executions write to a SQL store at the same time, or a
\* write is applied late (read_stream_async, context.rs).
THEOREM ReaderInOrder == Spec => []ReaderPrefix
<1>1. MailInv /\ StreamInv => ReaderPrefix
  BY DEF StreamInv
<1>2. QED
  BY <1>1, StreamReached, PTL
=============================================================================
