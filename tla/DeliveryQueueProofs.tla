------------------------- MODULE DeliveryQueueProofs -------------------------
(***************************************************************************)
(* Proofs about DeliveryQueue for any set of message IDs, any number of    *)
(* processes sharing the durable consumer, and any MaxDeliver: the type    *)
(* invariant, NoSilentDrop, DeadLetterIsFinal, and that the consumer loop  *)
(* implements AtLeastOnce.                                                 *)
(***************************************************************************)
EXTENDS DeliveryQueue, TLAPS

Working == {"handler", "ack", "nak", "deadLetter", "term"}

\* The messages of the stream and how the server counts their deliveries.
ServerInv ==
  \A m \in Messages :
     /\ status[m] = "absent" <=> m \notin stream
     /\ status[m] = "absent" => delivered[m] = 0
     /\ status[m] = "available" => delivered[m] < MaxDeliver
     /\ status[m] = "exhausted" => delivered[m] = MaxDeliver
     /\ status[m] = "acked" => m \in handled
     /\ status[m] = "termed" => deadLetters[m] > 0

\* What a process knows of the message it works on.
ProcessInv ==
  \A c \in Consumers :
     /\ cons[c].pc \in Working =>
          /\ cons[c].msg \in stream
          /\ cons[c].dc > 0
          /\ cons[c].dc <= delivered[cons[c].msg]
     /\ cons[c].pc = "handler" => cons[c].msg \notin Malformed
     /\ cons[c].pc = "ack" => cons[c].msg \in handled
     /\ cons[c].pc \in {"deadLetter", "term"} =>
          cons[c].msg \in Malformed \/ cons[c].dc = MaxDeliver
     /\ cons[c].pc = "term" => deadLetters[cons[c].msg] > 0

\* What the handler and the dead-letter subject record about a message.
RecordInv ==
  \A m \in Messages :
     /\ m \in handled => m \notin Malformed /\ delivered[m] > 0
     /\ deadLetters[m] > 0 => m \in Malformed \/ delivered[m] = MaxDeliver

\* The last delivery of a message leaves a trace.  Neither NoSilentDrop nor its
\* third part is inductive without it: the message runs out of deliveries when
\* the last one is handed out, long before the server gives it up.
LastDeliveryInv ==
  \A m \in Messages :
     delivered[m] = MaxDeliver =>
        m \in handled \cup abandoned \/ deadLetters[m] > 0 \/ OnLastDelivery(m)

QueueInv == TypeOK /\ ServerInv /\ ProcessInv /\ RecordInv /\ LastDeliveryInv

USE DEF Statuses, Open, Steps, Idle, Working

-----------------------------------------------------------------------------
(* The inductive invariant.                                                *)

\* A publication stores, or repeats, one of the messages of its ID.
LEMMA CopyIsMessage ==
  ASSUME TypeOK, NEW id \in Ids
  PROVE  Copy(id) \in Messages
<1>1. lapsed[id] + 1 \in 1..MaxCopies
  BY QueueAssumption DEF TypeOK
<1> QED
  BY <1>1 DEF Copy, Messages

LEMMA QueueInit == Init => QueueInv
  BY QueueAssumption DEF Init, QueueInv, TypeOK, ServerInv, ProcessInv, RecordInv,
     LastDeliveryInv, OnLastDelivery

LEMMA QueueStep == QueueInv /\ [Next]_queueVars => QueueInv'
<1> SUFFICES ASSUME QueueInv, [Next]_queueVars PROVE QueueInv'
  OBVIOUS
<1> USE QueueAssumption DEF QueueInv, TypeOK, ServerInv, ProcessInv, RecordInv,
     LastDeliveryInv, OnLastDelivery
<1>1. ASSUME NEW id \in Ids, Publish(id) PROVE QueueInv'
  <2>1. PICK m \in Messages : m = Copy(id)
    BY CopyIsMessage
  <2> QED
    BY <1>1, <2>1 DEF Publish, PublishEffect
<1>13. ASSUME NEW id \in Ids, WindowEnds(id) PROVE QueueInv'
  BY <1>13 DEF WindowEnds
<1>14. ASSUME NEW m \in Messages, MessageExpires(m) PROVE QueueInv'
  BY <1>14 DEF MessageExpires
<1>2. ASSUME NEW m \in Messages, AckWaitExpires(m) PROVE QueueInv'
  BY <1>2, SMTT(30) DEF AckWaitExpires, AfterDelivery
<1>3. ASSUME NEW c \in Consumers, NEW m \in Messages, Fetch(c, m) PROVE QueueInv'
  BY <1>3 DEF Fetch
<1>4. ASSUME NEW c \in Consumers, HandlerOK(c) PROVE QueueInv'
  BY <1>4 DEF HandlerOK, GoTo
<1>5. ASSUME NEW c \in Consumers, HandlerErr(c) PROVE QueueInv'
  BY <1>5 DEF HandlerErr, GoTo, terminalDelivery
<1>6. ASSUME NEW c \in Consumers, Ack(c) PROVE QueueInv'
  BY <1>6 DEF Ack
<1>7. ASSUME NEW c \in Consumers, NakWithDelay(c) PROVE QueueInv'
  <2> DEFINE n == cons[c].msg
  <2>1. n \in Messages /\ n \in stream
    BY <1>7 DEF NakWithDelay
  <2>2. CASE status[n] = "pending"
    <3>1. status' = [status EXCEPT ![n] = AfterDelivery(n)]
      BY <1>7, <2>1, <2>2 DEF NakWithDelay
    <3>2. /\ AfterDelivery(n) \in {"available", "exhausted"}
          /\ AfterDelivery(n) = "available" => delivered[n] < MaxDeliver
          /\ AfterDelivery(n) = "exhausted" => delivered[n] = MaxDeliver
      BY <2>1 DEF AfterDelivery
    <3> HIDE DEF n
    <3> QED
      BY <1>7, <2>1, <2>2, <3>1, <3>2 DEF NakWithDelay
  <2>3. CASE status[n] # "pending"
    BY <1>7, <2>1, <2>3 DEF NakWithDelay
  <2> QED
    BY <2>2, <2>3
<1>8. ASSUME NEW c \in Consumers, publishDeadLetter(c) PROVE QueueInv'
  BY <1>8 DEF publishDeadLetter, GoTo
<1>9. ASSUME NEW c \in Consumers, Term(c) PROVE QueueInv'
  BY <1>9 DEF Term
<1>10. ASSUME NEW c \in Consumers, AnswerLost(c) PROVE QueueInv'
  BY <1>10 DEF AnswerLost
<1>11. ASSUME NEW c \in Consumers, Crash(c) PROVE QueueInv'
  BY <1>11 DEF Crash, terminalDelivery
<1>12. CASE UNCHANGED queueVars
  BY <1>12 DEF queueVars
<1> QED
  BY <1>1, <1>2, <1>3, <1>4, <1>5, <1>6, <1>7, <1>8, <1>9, <1>10, <1>11, <1>12,
     <1>13, <1>14 DEF Next, ConsumerStep

\* The queue's state is always well typed: for every number of messages and
\* processes, and every MaxDeliver, counts stay within MaxDeliver and statuses
\* within the ones the server knows.
THEOREM TypeCorrect == Spec => []TypeOK
<1>1. QueueInv => TypeOK
  BY DEF QueueInv
<1> QED
  BY QueueInit, QueueStep, <1>1, PTL DEF Spec

-----------------------------------------------------------------------------
(* What the consumer loop guarantees.                                      *)

\* No message leaves the queue silently (consumeJSONMessages acknowledges only
\* after the handler returned nil, and terminates only after the dead-letter
\* record was stored).
THEOREM NoMessageDroppedSilently == Spec => []NoSilentDrop
<1>1. QueueInv => NoSilentDrop
  BY DEF QueueInv, ServerInv, LastDeliveryInv, NoSilentDrop
<1> QED
  BY QueueInit, QueueStep, <1>1, PTL DEF Spec

\* A dead-lettered message that decodes is never delivered again.
THEOREM DeadLetteredStaysDead == Spec => DeadLetterIsFinal
<1> DEFINE Final == \A m \in Messages \ Malformed :
                       deadLetters[m] > 0 => delivered'[m] = delivered[m]
<1>1. QueueInv /\ [Next]_queueVars => [Final]_queueVars
  <2> SUFFICES ASSUME QueueInv, Next PROVE Final
    OBVIOUS
  <2> USE DEF QueueInv, TypeOK, ServerInv, RecordInv
  <2>1. ASSUME NEW c \in Consumers, NEW m \in Messages, Fetch(c, m) PROVE Final
    BY <2>1, QueueAssumption DEF Fetch
  <2>2. ASSUME NEW m \in Messages, AckWaitExpires(m) \/ MessageExpires(m) PROVE Final
    BY <2>2 DEF AckWaitExpires, MessageExpires
  <2>4. ASSUME NEW id \in Ids, Publish(id) \/ WindowEnds(id) PROVE Final
    BY <2>4 DEF Publish, WindowEnds
  <2>3. ASSUME NEW c \in Consumers, ConsumerStep(c) PROVE Final
    BY <2>3 DEF ConsumerStep, HandlerOK, HandlerErr, Ack, NakWithDelay,
       publishDeadLetter, Term, AnswerLost, Crash
  <2> QED
    BY <2>1, <2>2, <2>3, <2>4 DEF Next
<1> QED
  BY QueueInit, QueueStep, <1>1, PTL DEF Spec, DeadLetterIsFinal

-----------------------------------------------------------------------------
(* The consumer loop implements the at-least-once queue.                   *)

LEMMA AbstractInit == Init => Abstract!Init
  BY DEF Init, Abstract!Init, OpenMessages, DeadMessages, ExpiredMessages

LEMMA AbstractStep ==
  QueueInv /\ [Next]_queueVars => [Abstract!Next]_(Abstract!vars)
<1> SUFFICES ASSUME QueueInv, [Next]_queueVars
             PROVE  Abstract!Next \/ UNCHANGED Abstract!vars
  OBVIOUS
<1> USE QueueAssumption DEF QueueInv, TypeOK, ServerInv, ProcessInv, RecordInv, Abstract!vars,
     OpenMessages, DeadMessages, ExpiredMessages
<1>1. ASSUME NEW id \in Ids, NEW m \in Messages, m = Copy(id), Publish(id)
      PROVE  Abstract!Accept(m)
  BY <1>1 DEF Publish, PublishEffect, Abstract!Accept
<1>14. ASSUME NEW id \in Ids, WindowEnds(id) PROVE UNCHANGED Abstract!vars
  BY <1>14 DEF WindowEnds
<1>15. ASSUME NEW m \in Messages, MessageExpires(m) PROVE Abstract!Expire(m)
  BY <1>15 DEF MessageExpires, Abstract!Expire
<1>2. ASSUME NEW m \in Messages, AckWaitExpires(m)
      PROVE  Abstract!Close(m) \/ UNCHANGED Abstract!vars
  <2>1. CASE delivered[m] < MaxDeliver
    BY <1>2, <2>1 DEF AckWaitExpires, AfterDelivery
  <2>2. CASE delivered[m] = MaxDeliver
    BY <1>2, <2>2 DEF AckWaitExpires, AfterDelivery, Abstract!Close
  <2> QED
    BY <2>1, <2>2
<1>3. ASSUME NEW c \in Consumers, NEW m \in Messages, Fetch(c, m)
      PROVE  Abstract!Attempt(m)
  <2>1. OpenMessages' = OpenMessages
    BY <1>3 DEF Fetch
  <2>2. delivered[m] < MaxDeliver /\ status[m] \in Open
    BY <1>3 DEF Fetch
  <2> QED
    BY <1>3, <2>1, <2>2 DEF Fetch, Abstract!Attempt
<1>4. ASSUME NEW c \in Consumers, HandlerOK(c)
      PROVE  Abstract!Complete(cons[c].msg)
  BY <1>4 DEF HandlerOK, GoTo, Abstract!Complete
<1>5. ASSUME NEW c \in Consumers, NEW m \in Messages, m = cons[c].msg,
             Ack(c) \/ NakWithDelay(c) \/ Term(c)
      PROVE  Abstract!Close(m) \/ UNCHANGED Abstract!vars
  BY <1>5 DEF Ack, NakWithDelay, Term, AfterDelivery, Abstract!Close
<1>6. ASSUME NEW c \in Consumers, NEW m \in Messages, m = cons[c].msg,
             publishDeadLetter(c)
      PROVE  Abstract!Bury(m)
  BY <1>6 DEF publishDeadLetter, GoTo, Abstract!Bury
<1>7. ASSUME NEW c \in Consumers,
             HandlerErr(c) \/ AnswerLost(c) \/ Crash(c)
      PROVE  UNCHANGED Abstract!vars
  BY <1>7 DEF HandlerErr, AnswerLost, Crash
<1>8. CASE UNCHANGED queueVars
  BY <1>8 DEF queueVars
<1>9. ASSUME NEW c \in Consumers,
             HandlerOK(c) \/ Ack(c) \/ NakWithDelay(c) \/ Term(c) \/ publishDeadLetter(c)
      PROVE  cons[c].msg \in Messages
  BY <1>9 DEF HandlerOK, Ack, NakWithDelay, Term, publishDeadLetter
<1>10. ASSUME NEW m \in Messages,
              \/ Abstract!Accept(m) \/ Abstract!Attempt(m) \/ Abstract!Complete(m)
              \/ Abstract!Bury(m) \/ Abstract!Close(m) \/ Abstract!Expire(m)
       PROVE  Abstract!Next
  BY <1>10 DEF Abstract!Next
<1>16. ASSUME NEW id \in Ids PROVE Copy(id) \in Messages
  BY CopyIsMessage
<1> HIDE QueueAssumption DEF QueueInv, TypeOK, ServerInv, ProcessInv, RecordInv, Abstract!vars,
     OpenMessages, DeadMessages, ExpiredMessages
<1> DEFINE Goal == Abstract!Next \/ UNCHANGED Abstract!vars
<1>11. ASSUME NEW c \in Consumers, ConsumerStep(c) PROVE Goal
  <2>1. CASE HandlerOK(c)
    BY <1>4, <1>9, <1>10, <2>1
  <2>2. CASE Ack(c) \/ NakWithDelay(c) \/ Term(c)
    <3>1. PICK m \in Messages : m = cons[c].msg
      BY <1>9, <2>2
    <3> QED
      BY <1>5, <1>10, <2>2, <3>1
  <2>3. CASE publishDeadLetter(c)
    <3>1. PICK m \in Messages : m = cons[c].msg
      BY <1>9, <2>3
    <3> QED
      BY <1>6, <1>10, <2>3, <3>1
  <2> QED
    BY <1>7, <1>11, <2>1, <2>2, <2>3 DEF ConsumerStep
<1>12. ASSUME NEW m \in Messages, AckWaitExpires(m) \/ MessageExpires(m) PROVE Goal
  BY <1>2, <1>10, <1>12, <1>15
<1>17. ASSUME NEW id \in Ids, Publish(id) \/ WindowEnds(id) PROVE Goal
  BY <1>1, <1>10, <1>14, <1>16, <1>17
<1>13. ASSUME NEW c \in Consumers, NEW m \in Messages, Fetch(c, m) PROVE Goal
  BY <1>3, <1>10, <1>13
<1> QED
  BY <1>8, <1>11, <1>12, <1>13, <1>17 DEF Next

\* The consumer loop of nats.go over JetStream, with crashes, late answers and
\* several processes on one durable, implements AtLeastOnce: the initial states
\* map to initial states and every step to a step or a stutter.
THEOREM QueueRefinesAtLeastOnce == Spec => ImplementsAtLeastOnce
  BY QueueInit, QueueStep, AbstractInit, AbstractStep, PTL
     DEF Spec, ImplementsAtLeastOnce, Abstract!Spec
=============================================================================
