---------------------------- MODULE DeliveryQueue ----------------------------
(***************************************************************************)
(* One JetStream durable consumer and the processes that drain it with     *)
(* consumeJSONMessages (pkg/serverless/nats.go).  Every queue of the       *)
(* runtime has this shape: invocations and worker metrics (drained by the  *)
(* activator), dispatches (one durable per worker sidecar) and results     *)
(* (drained by the result-store replicas).                                 *)
(*                                                                         *)
(* The server side (storing, deduplicating, delivering, redelivering after *)
(* the ack wait, giving up after MaxDeliver, dropping what is older than   *)
(* MaxAge) is external and modelled from how the stream and the consumer   *)
(* are configured.  Time is left out: a message that waits for its retry   *)
(* delay is simply not fetched yet, and the duplicates window of an ID     *)
(* (24h by default) and the age limit of a message (72h) may run out at    *)
(* any moment.                                                             *)
(***************************************************************************)
EXTENDS Naturals

CONSTANTS Ids,         \* message IDs (WithMsgID) that may be published
          MaxCopies,   \* bound: messages the stream stores under one ID
          Malformed,   \* the messages whose payload json.Unmarshal refuses
          Consumers,   \* processes that share the durable consumer
          MaxDeliver,  \* normalised RetryPolicy.MaxDeliver
          NoMsg        \* the message of a process that works on none

\* The n-th message stored under an ID: the server takes a repeated ID for a
\* new message once the duplicates window of the last one has ended.
Messages == Ids \X (1..MaxCopies)

ASSUME QueueAssumption ==
  /\ MaxCopies \in Nat \ {0}
  /\ Malformed \subseteq Messages
  /\ MaxDeliver \in Nat \ {0}
  /\ NoMsg \notin Messages

VARIABLES stream,      \* messages the stream has stored
          lapsed,      \* duplicates windows of each ID that have ended
          status,      \* the durable consumer's view of each message
          delivered,   \* NumDelivered of each message
          cons,        \* each process: where it is, its message and delivery count
          deadLetters, \* dead-letter records stored for each message
          handled,     \* history: messages whose handler returned nil
          abandoned    \* history: messages whose last delivery ended in a crash

queueVars == <<stream, lapsed, status, delivered, cons, deadLetters, handled, abandoned>>

Statuses == {"absent", "available", "pending", "acked", "termed", "exhausted", "expired"}

Open == {"available", "pending"}
Steps == {"idle", "handler", "ack", "nak", "deadLetter", "term"}

Idle == [pc |-> "idle", msg |-> NoMsg, dc |-> 0]

\* Process c moves on to step s with the message it already works on.
GoTo(c, s) == cons' = [cons EXCEPT ![c].pc = s]

Init ==
  /\ stream = {}
  /\ lapsed = [id \in Ids |-> 0]
  /\ status = [m \in Messages |-> "absent"]
  /\ delivered = [m \in Messages |-> 0]
  /\ cons = [c \in Consumers |-> Idle]
  /\ deadLetters = [m \in Messages |-> 0]
  /\ handled = {}
  /\ abandoned = {}

-----------------------------------------------------------------------------
(* The server.                                                             *)

\* The message that a publication of id now stores, or repeats.
Copy(id) == <<id, lapsed[id] + 1>>

\* js.Publish(WithMsgID): within the duplicates window a repeated message ID is
\* dropped and the publisher still gets an acknowledgement.
PublishEffect(id) ==
  /\ stream' = stream \cup {Copy(id)}
  /\ status' = [status EXCEPT ![Copy(id)] = IF @ = "absent" THEN "available" ELSE @]
  /\ UNCHANGED lapsed

Publish(id) ==
  /\ Copy(id) \notin stream
  /\ PublishEffect(id)
  /\ UNCHANGED <<delivered, cons, deadLetters, handled, abandoned>>

\* The duplicates window of the last message stored under id ends.  MaxCopies
\* bounds how often: the window of the last copy is taken to last for ever.
WindowEnds(id) ==
  /\ Copy(id) \in stream
  /\ lapsed[id] + 1 < MaxCopies
  /\ lapsed' = [lapsed EXCEPT ![id] = @ + 1]
  /\ UNCHANGED <<stream, status, delivered, cons, deadLetters, handled, abandoned>>

\* The stream drops a message that has reached MaxAge.  One that expires while a
\* process works on it makes no difference before it is handed back, so only
\* messages that wait for their delivery are dropped here.
MessageExpires(m) ==
  /\ status[m] = "available"
  /\ status' = [status EXCEPT ![m] = "expired"]
  /\ UNCHANGED <<stream, lapsed, delivered, cons, deadLetters, handled, abandoned>>

\* MUTANT of AfterDelivery: one delivery too many.
AfterDeliveryOneMore(m) == IF delivered[m] <= MaxDeliver THEN "available" ELSE "exhausted"

\* What becomes of an open message whose delivery is over without an answer:
\* it can be delivered again unless MaxDeliver is reached; then the server
\* forgets it, whatever the process that holds it is doing.
AfterDelivery(m) == IF delivered[m] < MaxDeliver THEN "available" ELSE "exhausted"

AckWaitExpires(m) ==
  /\ status[m] = "pending"
  /\ status' = [status EXCEPT ![m] = AfterDelivery(m)]
  /\ UNCHANGED <<stream, lapsed, delivered, cons, deadLetters, handled, abandoned>>

-----------------------------------------------------------------------------
(* The consumer loop.                                                      *)

\* MUTANT of Fetch: only first deliveries are taken.
FetchOnce(c, m) ==
  /\ cons[c].pc = "idle"
  /\ status[m] = "available" /\ delivered[m] = 0
  /\ status' = [status EXCEPT ![m] = "pending"]
  /\ delivered' = [delivered EXCEPT ![m] = 1]
  /\ cons' = [cons EXCEPT ![c] =
                [pc  |-> IF m \in Malformed THEN "deadLetter" ELSE "handler", msg |-> m, dc |-> 1]]
  /\ UNCHANGED <<stream, lapsed, deadLetters, handled, abandoned>>

\* consumer.Fetch(1): the delivery carries NumDelivered, and a payload that
\* does not decode goes straight to the dead-letter path.
Fetch(c, m) ==
  /\ cons[c].pc = "idle"
  /\ status[m] = "available"
  /\ status' = [status EXCEPT ![m] = "pending"]
  /\ delivered' = [delivered EXCEPT ![m] = @ + 1]
  /\ cons' = [cons EXCEPT ![c] =
                [pc  |-> IF m \in Malformed THEN "deadLetter" ELSE "handler",
                 msg |-> m,
                 dc  |-> delivered[m] + 1]]
  /\ UNCHANGED <<stream, lapsed, deadLetters, handled, abandoned>>

HandlerOK(c) ==
  /\ cons[c].pc = "handler"
  /\ handled' = handled \cup {cons[c].msg}
  /\ GoTo(c, "ack")
  /\ UNCHANGED <<stream, lapsed, status, delivered, deadLetters, abandoned>>

\* MUTANT of terminalDelivery: off by one.
terminalDeliveryEarly(c) == cons[c].dc + 1 >= MaxDeliver

\* A fetched message always carries its metadata, so deliveryCount reads the count
\* and its fallback to 1 is never taken.
terminalDelivery(c) == cons[c].dc >= MaxDeliver

\* MUTANT of HandlerErr: the message is terminated before it is dead-lettered.
HandlerErrTermFirst(c) ==
  /\ cons[c].pc = "handler"
  /\ GoTo(c, IF terminalDelivery(c) THEN "term" ELSE "nak")
  /\ UNCHANGED <<stream, lapsed, status, delivered, deadLetters, handled, abandoned>>

HandlerErr(c) ==
  /\ cons[c].pc = "handler"
  /\ GoTo(c, IF terminalDelivery(c) THEN "deadLetter" ELSE "nak")
  /\ UNCHANGED <<stream, lapsed, status, delivered, deadLetters, handled, abandoned>>

\* Ack and Term settle the message while the consumer still has it open, also
\* when it was meanwhile redelivered; an answer that comes later is ignored.
Ack(c) ==
  /\ cons[c].pc = "ack"
  /\ status' = [status EXCEPT ![cons[c].msg] = IF @ \in Open THEN "acked" ELSE @]
  /\ cons' = [cons EXCEPT ![c] = Idle]
  /\ UNCHANGED <<stream, lapsed, delivered, deadLetters, handled, abandoned>>

\* MUTANT of NakWithDelay: the failed delivery is acknowledged.
NakAcks(c) ==
  /\ cons[c].pc = "nak"
  /\ status' = [status EXCEPT ![cons[c].msg] = IF @ \in Open THEN "acked" ELSE @]
  /\ cons' = [cons EXCEPT ![c] = Idle]
  /\ UNCHANGED <<stream, lapsed, delivered, deadLetters, handled, abandoned>>

\* NakWithDelay hands a pending message back, even one that another process
\* has been given since.
NakWithDelay(c) ==
  /\ cons[c].pc = "nak"
  /\ status' = [status EXCEPT ![cons[c].msg] =
                  IF @ = "pending" THEN AfterDelivery(cons[c].msg) ELSE @]
  /\ cons' = [cons EXCEPT ![c] = Idle]
  /\ UNCHANGED <<stream, lapsed, delivered, deadLetters, handled, abandoned>>

\* deadLetterAndTerm, first half.  The record's message ID is built from the
\* invocation ID and the stream sequence, so a second record is deduplicated;
\* for a payload that did not decode it holds the time instead.
publishDeadLetter(c) ==
  /\ cons[c].pc = "deadLetter"
  /\ deadLetters' = [deadLetters EXCEPT ![cons[c].msg] =
                       IF cons[c].msg \in Malformed \/ @ = 0 THEN @ + 1 ELSE @]
  /\ GoTo(c, "term")
  /\ UNCHANGED <<stream, lapsed, status, delivered, handled, abandoned>>

\* deadLetterAndTerm, second half.
Term(c) ==
  /\ cons[c].pc = "term"
  /\ status' = [status EXCEPT ![cons[c].msg] = IF @ \in Open THEN "termed" ELSE @]
  /\ cons' = [cons EXCEPT ![c] = Idle]
  /\ UNCHANGED <<stream, lapsed, delivered, deadLetters, handled, abandoned>>

\* Ack, NakWithDelay and Term publish without waiting for the server: the
\* call can succeed and the answer still get lost.
AnswerLost(c) ==
  /\ cons[c].pc \in {"ack", "nak", "term"}
  /\ cons' = [cons EXCEPT ![c] = Idle]
  /\ UNCHANGED <<stream, lapsed, status, delivered, deadLetters, handled, abandoned>>

\* The process dies, or consumeJSONMessages returns the error of the dead-letter
\* publication or of an answer and the process exits.  Kubernetes restarts it
\* with nothing in hand; until it fetches again it is as good as idle.
Crash(c) ==
  /\ cons[c].pc # "idle"
  /\ cons' = [cons EXCEPT ![c] = Idle]
  /\ abandoned' = IF cons[c].pc \in {"handler", "deadLetter"} /\ terminalDelivery(c)
                  THEN abandoned \cup {cons[c].msg}
                  ELSE abandoned
  /\ UNCHANGED <<stream, lapsed, status, delivered, deadLetters, handled>>

ConsumerStep(c) ==
  \/ HandlerOK(c) \/ HandlerErr(c) \/ Ack(c) \/ NakWithDelay(c)
  \/ publishDeadLetter(c) \/ Term(c) \/ AnswerLost(c) \/ Crash(c)

Next ==
  \/ \E id \in Ids : Publish(id) \/ WindowEnds(id)
  \/ \E m \in Messages : AckWaitExpires(m) \/ MessageExpires(m)
  \/ \E c \in Consumers, m \in Messages : Fetch(c, m)
  \/ \E c \in Consumers : ConsumerStep(c)

Spec == Init /\ [][Next]_queueVars

\* The loop runs on, the server's ack-wait timer fires, and a message that is
\* available again and again is fetched in the end (strong fairness), because
\* Kubernetes restarts a process that exits and no process is down for good.
\* Nothing is assumed of the two age limits.
Fairness ==
  /\ \A c \in Consumers :
       /\ WF_queueVars(HandlerOK(c) \/ HandlerErr(c))
       /\ WF_queueVars(Ack(c) \/ NakWithDelay(c) \/ Term(c) \/ AnswerLost(c))
       /\ WF_queueVars(publishDeadLetter(c))
  /\ \A m \in Messages :
       /\ WF_queueVars(AckWaitExpires(m))
       /\ SF_queueVars(\E c \in Consumers : Fetch(c, m))

FairSpec == Spec /\ Fairness

-----------------------------------------------------------------------------
(* Properties.                                                             *)

\* Type invariant of the queue and of the processes that drain it.
TypeOK ==
  /\ stream \subseteq Messages
  /\ lapsed \in [Ids -> 0..(MaxCopies - 1)]
  /\ status \in [Messages -> Statuses]
  /\ delivered \in [Messages -> 0..MaxDeliver]
  /\ cons \in [Consumers -> [pc : Steps, msg : Messages \cup {NoMsg}, dc : 0..MaxDeliver]]
  /\ deadLetters \in [Messages -> Nat]
  /\ handled \subseteq Messages
  /\ abandoned \subseteq Messages

\* Some process still runs the last delivery of m: its handler, or the
\* dead-letter publication that follows the handler's error.
OnLastDelivery(m) ==
  \E c \in Consumers :
     /\ cons[c].msg = m
     /\ cons[c].pc \in {"handler", "deadLetter"}
     /\ cons[c].dc = MaxDeliver

\* consumeJSONMessages never drops a message silently: an acknowledged message
\* was handled, a terminated one has a dead-letter record (which is written
\* before Term), and one whose deliveries ran out was handled, dead-lettered,
\* is still worked on, or had its last delivery cut off by a crash.  A message
\* that reached MaxAge is dropped by the stream itself and is not spoken of.
NoSilentDrop ==
  \A m \in Messages :
     /\ status[m] = "acked" => m \in handled
     /\ status[m] = "termed" => deadLetters[m] > 0
     /\ status[m] = "exhausted" =>
          m \in handled \cup abandoned \/ deadLetters[m] > 0 \/ OnLastDelivery(m)

\* A message that decodes and was moved to the dead-letter subject is never
\* delivered again, so an operator who replays it does not race a retry:
\* retry_exhausted is only recorded on the delivery terminalDelivery accepts.
DeadLetterIsFinal ==
  [][\A m \in Messages \ Malformed :
        deadLetters[m] > 0 => delivered'[m] = delivered[m]]_queueVars

\* Every stored message is settled in the end (acknowledged, terminated, out of
\* deliveries or too old), whatever handlers fail and processes crash meanwhile.
EveryMessageSettled ==
  \A m \in Messages :
     (m \in stream) ~> (status[m] \in {"acked", "termed", "exhausted", "expired"})

\* README.md: durable consumers preserve queued work across a restart of the
\* consumer process.  A message that is out of deliveries and that no process
\* works on was then either handled or dead-lettered.
QueuedWorkPreserved ==
  \A m \in Messages :
     status[m] = "exhausted" /\ (\A c \in Consumers : cons[c].msg # m)
       => m \in handled \/ deadLetters[m] > 0

\* README.md: all queue publishes use stable message IDs, so that repeating one
\* stores nothing new.  One message then has at most one dead-letter record.
OneDeadLetterRecord == \A m \in Messages : deadLetters[m] <= 1

\* The abstract queue this state stands for.
OpenMessages == {m \in Messages : status[m] \in Open}
DeadMessages == {m \in Messages : deadLetters[m] > 0}
ExpiredMessages == {m \in Messages : status[m] = "expired"}

Abstract == INSTANCE AtLeastOnce WITH
  MaxAttempts <- MaxDeliver,
  accepted    <- stream,
  open        <- OpenMessages,
  attempts    <- delivered,
  dead        <- DeadMessages,
  expired     <- ExpiredMessages

\* The consumer loop over JetStream implements the at-least-once queue with
\* bounded attempts: a message is closed only when handled, dead-lettered or
\* attempted MaxDeliver times, unless it grows too old, and buried only by its
\* last attempt.
ImplementsAtLeastOnce == Abstract!Spec
=============================================================================
