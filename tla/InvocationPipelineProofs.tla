---------------------- MODULE InvocationPipelineProofs ----------------------
(***************************************************************************)
(* Proofs about InvocationPipeline for any set of invocations, workers and *)
(* result-store replicas, and any delivery limits: each of the three       *)
(* queues behaves as a DeliveryQueue, and end to end no invocation is      *)
(* lost, retries are bounded, a stored result only gives way to one        *)
(* published after its duplicates window, and callers are told afterwards. *)
(***************************************************************************)
EXTENDS InvocationPipeline, FiniteSetTheorems, TLAPS

\* What DeliveryQueueProofs shows of each queue.
IP == INSTANCE DeliveryQueueProofs WITH
  Ids <- Invocations, MaxCopies <- 1, Malformed <- {}, Consumers <- {Activator},
  MaxDeliver <- MaxDeliverI, NoMsg <- None,
  stream <- iStream, lapsed <- NeverLapses(Invocations), status <- iStatus, delivered <- iDelivered, cons <- iCons,
  deadLetters <- iDead, handled <- iHandled, abandoned <- iAbandoned

DP == INSTANCE DeliveryQueueProofs WITH
  Ids <- Dispatches, MaxCopies <- 1, Malformed <- {}, Consumers <- Workers,
  MaxDeliver <- MaxDeliverD, NoMsg <- None,
  stream <- dStream, lapsed <- NeverLapses(Dispatches), status <- dStatus, delivered <- dDelivered, cons <- dCons,
  deadLetters <- dDead, handled <- dHandled, abandoned <- dAbandoned

RP == INSTANCE DeliveryQueueProofs WITH
  Ids <- Invocations, MaxCopies <- MaxCopiesR, Malformed <- {}, Consumers <- ResultStores,
  MaxDeliver <- MaxDeliverR, NoMsg <- None,
  stream <- rStream, lapsed <- rLapsed, status <- rStatus, delivered <- rDelivered, cons <- rCons,
  deadLetters <- rDead, handled <- rHandled, abandoned <- rAbandoned

LEMMA QueueAssumptions == IP!QueueAssumption /\ DP!QueueAssumption /\ RP!QueueAssumption
  BY PipelineAssumption DEF IP!QueueAssumption, DP!QueueAssumption, RP!QueueAssumption,
     IP!Messages, IQ!Messages, DP!Messages, DQ!Messages, RP!Messages, RQ!Messages

-----------------------------------------------------------------------------
(* The inductive invariant.                                                *)

QueuesInv == IP!QueueInv /\ DP!QueueInv /\ RP!QueueInv

OwnTypeOK ==
  /\ live \subseteq Workers
  /\ hand \in [Handlers -> [step : {"start", "dispatch", "persist", "reply"},
                            worker : Workers \cup {None}, out : States \cup {None}]]
  /\ result \in [RQ!Messages -> Results \cup {None}]
  /\ waiter \in [Invocations -> {"none", "waiting", "answered"}]
  /\ reply \in [Invocations -> Results \cup {None}]
  /\ stored \in [Invocations -> Results \cup {None}]
  /\ executions \in [DQ!Messages -> Nat]

\* The stream stored a result of the invocation.
HasResult(i) == \E r \in rStream : r[1] = i

\* The locals of a handler: they are gone when it has returned or died.
HandInv ==
  \A p \in Handlers :
     /\ hand[p].step # "start" => InHandler(p)
     /\ hand[p].step = "dispatch" => p = Activator /\ hand[p].worker \in Workers
     /\ hand[p].step \in {"persist", "reply"} => hand[p].out \in States
     /\ hand[p].step = "reply" => HasResult(Current(p))

\* A dispatch is only worked on by the worker it names, which has not called
\* the framework for a delivery whose handler has just begun.
ExecutionInv ==
  /\ \A w \in Workers : dCons[w].pc # "idle" => dCons[w].msg[1][2] = w
  /\ \A w \in Workers : dCons[w].pc = "handler" /\ hand[w].step = "start"
       => executions[dCons[w].msg] < dDelivered[dCons[w].msg]
  /\ \A d \in DQ!Messages : executions[d] <= dDelivered[d]

\* What a handler leaves behind when it returns nil.
ChainInv ==
  /\ \A m \in iHandled : HasResult(m[1]) \/ \E d \in dStream : d[1][1] = m[1]
  /\ \A d \in dHandled : HasResult(d[1][1])
  /\ \A r \in rHandled : stored[r[1]] # None

\* The row holds a result the stream has stored, and a second message is only
\* stored for an invocation once the window of the one before it has ended.
ResultInv ==
  /\ \A r \in rStream : result[r] # None /\ r[2] <= rLapsed[r[1]] + 1
  /\ \A i \in Invocations : stored[i] # None => \E r \in rStream : r[1] = i /\ stored[i] = result[r]
  /\ \A i \in Invocations : reply[i] # None => HasResult(i)

\* The dispatches of an invocation.  While the activator works on it, one of its
\* deliveries has not been spent yet.
SentTo(i) == DispatchesOf(i) \cap dStream

FanOutInv ==
  \A i \in Invocations :
     /\ IsFiniteSet(SentTo(i))
     /\ Cardinality(SentTo(i)) <= iDelivered[InvocationOf(i)]
     /\ iCons[Activator].pc = "handler" /\ iCons[Activator].msg = InvocationOf(i)
          => Cardinality(SentTo(i)) < iDelivered[InvocationOf(i)]

PipelineInv ==
  QueuesInv /\ OwnTypeOK /\ HandInv /\ ExecutionInv /\ ChainInv /\ ResultInv /\ FanOutInv

-----------------------------------------------------------------------------
(* Each queue of the pipeline takes the steps of a DeliveryQueue only.     *)

\* The instances of DeliveryQueue and of its proofs are the same specification.
LEMMA SameQueues ==
  /\ (IQ!Init <=> IP!Init) /\ (IQ!Next <=> IP!Next) /\ IQ!queueVars = IP!queueVars
  /\ (DQ!Init <=> DP!Init) /\ (DQ!Next <=> DP!Next) /\ DQ!queueVars = DP!queueVars
  /\ (RQ!Init <=> RP!Init) /\ (RQ!Next <=> RP!Next) /\ RQ!queueVars = RP!queueVars
<1>1. (IQ!Init <=> IP!Init) /\ (IQ!Next <=> IP!Next) /\ IQ!queueVars = IP!queueVars
  BY DEF IQ!Init, IQ!Idle, IQ!Next, IQ!Messages, IQ!Copy, IQ!Publish, IQ!PublishEffect,
     IQ!WindowEnds, IQ!MessageExpires, IQ!AckWaitExpires,
     IQ!AfterDelivery, IQ!Fetch, IQ!ConsumerStep, IQ!HandlerOK, IQ!HandlerErr, IQ!GoTo,
     IQ!terminalDelivery, IQ!Ack, IQ!Open, IQ!NakWithDelay, IQ!publishDeadLetter, IQ!Term,
     IQ!AnswerLost, IQ!Crash, IQ!queueVars,
     IP!Init, IP!Idle, IP!Next, IP!Messages, IP!Copy, IP!Publish, IP!PublishEffect,
     IP!WindowEnds, IP!MessageExpires, IP!AckWaitExpires,
     IP!AfterDelivery, IP!Fetch, IP!ConsumerStep, IP!HandlerOK, IP!HandlerErr, IP!GoTo,
     IP!terminalDelivery, IP!Ack, IP!Open, IP!NakWithDelay, IP!publishDeadLetter, IP!Term,
     IP!AnswerLost, IP!Crash, IP!queueVars
<1>2. (DQ!Init <=> DP!Init) /\ (DQ!Next <=> DP!Next) /\ DQ!queueVars = DP!queueVars
  BY DEF DQ!Init, DQ!Idle, DQ!Next, DQ!Messages, DQ!Copy, DQ!Publish, DQ!PublishEffect,
     DQ!WindowEnds, DQ!MessageExpires, DQ!AckWaitExpires,
     DQ!AfterDelivery, DQ!Fetch, DQ!ConsumerStep, DQ!HandlerOK, DQ!HandlerErr, DQ!GoTo,
     DQ!terminalDelivery, DQ!Ack, DQ!Open, DQ!NakWithDelay, DQ!publishDeadLetter, DQ!Term,
     DQ!AnswerLost, DQ!Crash, DQ!queueVars,
     DP!Init, DP!Idle, DP!Next, DP!Messages, DP!Copy, DP!Publish, DP!PublishEffect,
     DP!WindowEnds, DP!MessageExpires, DP!AckWaitExpires,
     DP!AfterDelivery, DP!Fetch, DP!ConsumerStep, DP!HandlerOK, DP!HandlerErr, DP!GoTo,
     DP!terminalDelivery, DP!Ack, DP!Open, DP!NakWithDelay, DP!publishDeadLetter, DP!Term,
     DP!AnswerLost, DP!Crash, DP!queueVars
<1>3. (RQ!Init <=> RP!Init) /\ (RQ!Next <=> RP!Next) /\ RQ!queueVars = RP!queueVars
  BY DEF RQ!Init, RQ!Idle, RQ!Next, RQ!Messages, RQ!Copy, RQ!Publish, RQ!PublishEffect,
     RQ!WindowEnds, RQ!MessageExpires, RQ!AckWaitExpires,
     RQ!AfterDelivery, RQ!Fetch, RQ!ConsumerStep, RQ!HandlerOK, RQ!HandlerErr, RQ!GoTo,
     RQ!terminalDelivery, RQ!Ack, RQ!Open, RQ!NakWithDelay, RQ!publishDeadLetter, RQ!Term,
     RQ!AnswerLost, RQ!Crash, RQ!queueVars,
     RP!Init, RP!Idle, RP!Next, RP!Messages, RP!Copy, RP!Publish, RP!PublishEffect,
     RP!WindowEnds, RP!MessageExpires, RP!AckWaitExpires,
     RP!AfterDelivery, RP!Fetch, RP!ConsumerStep, RP!HandlerOK, RP!HandlerErr, RP!GoTo,
     RP!terminalDelivery, RP!Ack, RP!Open, RP!NakWithDelay, RP!publishDeadLetter, RP!Term,
     RP!AnswerLost, RP!Crash, RP!queueVars
<1> QED
  BY <1>1, <1>2, <1>3

USE DEF Handlers, Fresh, InHandler, Current, Forget, Enter

\* The parts of a message.
LEMMA MessageParts ==
  /\ \A i \in Invocations : InvocationOf(i) \in IQ!Messages
  /\ \A m \in IQ!Messages : m[1] \in Invocations /\ m = InvocationOf(m[1])
  /\ \A d \in DQ!Messages : d[1] \in Dispatches /\ d[1][1] \in Invocations /\ d[1][2] \in Workers
  /\ \A r \in RQ!Messages : r[1] \in Invocations /\ r[2] \in 1..MaxCopiesR /\ r = <<r[1], r[2]>>
  BY DEF IQ!Messages, DQ!Messages, RQ!Messages, InvocationOf, Dispatches

\* The facts about the queues that the handlers rely on.
LEMMA QueueFacts ==
  ASSUME QueuesInv
  PROVE  /\ iStream \subseteq IQ!Messages
         /\ iDelivered \in [IQ!Messages -> 0..MaxDeliverI]
         /\ iCons \in [{Activator} -> [pc : IQ!Steps, msg : IQ!Messages \cup {None}, dc : 0..MaxDeliverI]]
         /\ iHandled \subseteq IQ!Messages
         /\ iCons[Activator].pc # "idle" => iCons[Activator].msg \in iStream
         /\ dStream \subseteq DQ!Messages
         /\ dStatus \in [DQ!Messages -> DQ!Statuses]
         /\ dDelivered \in [DQ!Messages -> 0..MaxDeliverD]
         /\ dCons \in [Workers -> [pc : DQ!Steps, msg : DQ!Messages \cup {None}, dc : 0..MaxDeliverD]]
         /\ dHandled \subseteq DQ!Messages
         /\ \A w \in Workers : dCons[w].pc # "idle" => dCons[w].msg \in dStream
         /\ rStream \subseteq RQ!Messages
         /\ rLapsed \in [Invocations -> 0..(MaxCopiesR - 1)]
         /\ rStatus \in [RQ!Messages -> RQ!Statuses]
         /\ rCons \in [ResultStores -> [pc : RQ!Steps, msg : RQ!Messages \cup {None}, dc : 0..MaxDeliverR]]
         /\ rHandled \subseteq RQ!Messages
         /\ \A s \in ResultStores : rCons[s].pc # "idle" => rCons[s].msg \in rStream
<1>1. /\ iStream \subseteq IQ!Messages
      /\ iDelivered \in [IQ!Messages -> 0..MaxDeliverI]
      /\ iCons \in [{Activator} -> [pc : IQ!Steps, msg : IQ!Messages \cup {None}, dc : 0..MaxDeliverI]]
      /\ iHandled \subseteq IQ!Messages
      /\ iCons[Activator].pc # "idle" => iCons[Activator].msg \in iStream
  BY DEF QueuesInv, IP!QueueInv, IP!TypeOK, IP!ProcessInv, IP!Working, IP!Steps, IQ!Steps,
     IP!Statuses, IQ!Statuses, IP!Messages, IQ!Messages
<1>2. /\ dStream \subseteq DQ!Messages
      /\ dStatus \in [DQ!Messages -> DQ!Statuses]
      /\ dDelivered \in [DQ!Messages -> 0..MaxDeliverD]
      /\ dCons \in [Workers -> [pc : DQ!Steps, msg : DQ!Messages \cup {None}, dc : 0..MaxDeliverD]]
      /\ dHandled \subseteq DQ!Messages
      /\ \A w \in Workers : dCons[w].pc # "idle" => dCons[w].msg \in dStream
  BY DEF QueuesInv, DP!QueueInv, DP!TypeOK, DP!ProcessInv, DP!Working, DP!Steps, DQ!Steps,
     DP!Statuses, DQ!Statuses, DP!Messages, DQ!Messages
<1>3. /\ rStream \subseteq RQ!Messages
      /\ rLapsed \in [Invocations -> 0..(MaxCopiesR - 1)]
      /\ rStatus \in [RQ!Messages -> RQ!Statuses]
      /\ rCons \in [ResultStores -> [pc : RQ!Steps, msg : RQ!Messages \cup {None}, dc : 0..MaxDeliverR]]
      /\ rHandled \subseteq RQ!Messages
      /\ \A s \in ResultStores : rCons[s].pc # "idle" => rCons[s].msg \in rStream
  BY DEF QueuesInv, RP!QueueInv, RP!TypeOK, RP!ProcessInv, RP!Working, RP!Steps, RQ!Steps,
     RP!Statuses, RQ!Statuses, RP!Messages, RQ!Messages
<1> QED
  BY <1>1, <1>2, <1>3

\* The message under which a result of the invocation is stored next.
LEMMA ResultCopy ==
  ASSUME QueuesInv, NEW i \in Invocations
  PROVE  RQ!Copy(i) \in RQ!Messages /\ RQ!Copy(i)[1] = i /\ RQ!Copy(i)[2] = rLapsed[i] + 1
<1>1. rLapsed[i] + 1 \in 1..MaxCopiesR
  BY QueueFacts, PipelineAssumption
<1> QED
  BY <1>1 DEF RQ!Copy, RQ!Messages

\* The message a handler works on.
LEMMA CurrentIsKnown ==
  ASSUME PipelineInv, NEW p \in Handlers, InHandler(p)
  PROVE  Current(p) \in Invocations
<1>1. CASE p = Activator
  BY <1>1, QueueFacts, MessageParts DEF PipelineInv
<1>2. CASE p # Activator
  <2>1. p \in Workers /\ dCons[p].msg \in DQ!Messages
    BY <1>2, QueueFacts DEF PipelineInv
  <2> QED
    BY <1>2, <2>1, MessageParts
<1> QED
  BY <1>1, <1>2

\* Publishing a dispatch or a result is a step of its queue or, when the stream
\* holds the message already, none.
LEMMA PublishIsAStep ==
  ASSUME PipelineInv
  PROVE  /\ PublishDispatch => DQ!Next \/ UNCHANGED dVars
         /\ \A i \in Invocations :
              RQ!PublishEffect(i) /\ UNCHANGED <<rDelivered, rCons, rDead, rHandled, rAbandoned>>
                => RQ!Next \/ UNCHANGED rVars
<1>1. ASSUME PublishDispatch PROVE DQ!Next \/ UNCHANGED dVars
  <2> DEFINE d == <<Current(Activator), hand[Activator].worker>>
  <2>1. d \in Dispatches
    <3>1. InHandler(Activator) /\ hand[Activator].worker \in Workers
      BY <1>1 DEF PipelineInv, HandInv, PublishDispatch
    <3> QED
      BY <3>1, CurrentIsKnown DEF Dispatches
  <2>2. DQ!Copy(d) \in DQ!Messages
    BY <2>1 DEF DQ!Copy, DQ!Messages, NeverLapses
  <2>3. DQ!PublishEffect(d) /\ UNCHANGED <<dDelivered, dCons, dDead, dHandled, dAbandoned>>
    BY <1>1 DEF PublishDispatch
  <2> HIDE DEF d
  <2>4. CASE DQ!Copy(d) \in dStream
    <3>1. dStatus[DQ!Copy(d)] # "absent"
      BY <2>2, <2>4 DEF PipelineInv, QueuesInv, DP!QueueInv, DP!ServerInv, DP!Messages, DQ!Messages
    <3>2. dStream' = dStream /\ dStatus' = dStatus
      BY <2>2, <2>3, <2>4, <3>1, QueueFacts DEF PipelineInv, DQ!PublishEffect
    <3> QED
      BY <2>3, <3>2 DEF dVars
  <2>5. CASE DQ!Copy(d) \notin dStream
    BY <2>1, <2>3, <2>5 DEF DQ!Next, DQ!Publish
  <2> QED
    BY <2>4, <2>5
<1>2. ASSUME NEW i \in Invocations, RQ!PublishEffect(i),
             UNCHANGED <<rDelivered, rCons, rDead, rHandled, rAbandoned>>
      PROVE  RQ!Next \/ UNCHANGED rVars
  <2>1. RQ!Copy(i) \in RQ!Messages
    BY ResultCopy DEF PipelineInv
  <2>2. CASE RQ!Copy(i) \in rStream
    <3>1. rStatus[RQ!Copy(i)] # "absent"
      BY <2>1, <2>2 DEF PipelineInv, QueuesInv, RP!QueueInv, RP!ServerInv, RP!Messages, RQ!Messages
    <3>2. rStream' = rStream /\ rStatus' = rStatus /\ rLapsed' = rLapsed
      BY <1>2, <2>1, <2>2, <3>1, QueueFacts DEF PipelineInv, RQ!PublishEffect
    <3> QED
      BY <1>2, <3>2 DEF rVars
  <2>3. CASE RQ!Copy(i) \notin rStream
    BY <1>2, <2>3 DEF RQ!Next, RQ!Publish
  <2> QED
    BY <2>2, <2>3
<1> QED
  BY <1>1, <1>2

\* Every step of the pipeline is a step, or none, of each of its queues.
LEMMA QueueSteps ==
  ASSUME PipelineInv, Next
  PROVE  /\ IQ!Next \/ UNCHANGED iVars
         /\ DQ!Next \/ UNCHANGED dVars
         /\ RQ!Next \/ UNCHANGED rVars
<1> DEFINE Steps == /\ IQ!Next \/ UNCHANGED iVars
                    /\ DQ!Next \/ UNCHANGED dVars
                    /\ RQ!Next \/ UNCHANGED rVars
<1> USE DEF IQ!Next, IQ!ConsumerStep, DQ!Next, DQ!ConsumerStep, RQ!Next, RQ!ConsumerStep
<1>1. ASSUME NEW i \in Invocations,
             CreateServerlessInvocation(i) \/ InvokeServerlessSync(i) \/ SyncTimeout(i)
               \/ FetchInvocation(i) \/ ForgetResultId(i)
      PROVE  Steps
  BY <1>1, MessageParts DEF CreateServerlessInvocation, InvokeServerlessSync, SyncTimeout,
     FetchInvocation, ForgetResultId
<1>2. ASSUME NEW w \in Workers, CreateWorker(w) \/ DeleteWorker(w) \/ acquireWorker(w)
      PROVE  Steps
  BY <1>2 DEF CreateWorker, DeleteWorker, acquireWorker
<1>3. CASE noWorkerTemplate
  BY <1>3 DEF noWorkerTemplate
<1>4. CASE dispatchToWorker
  <2>1. DQ!Next \/ UNCHANGED dVars
    BY <1>4, PublishIsAStep DEF dispatchToWorker
  <2> QED
    BY <1>4, <2>1 DEF dispatchToWorker
<1>5. CASE dispatchUnconfirmed
  <2>1. DQ!Next \/ UNCHANGED dVars
    BY <1>5, PublishIsAStep DEF dispatchUnconfirmed
  <2> QED
    BY <1>5, <2>1 DEF dispatchUnconfirmed
<1>6. CASE ProcessInvocationErr
  BY <1>6 DEF ProcessInvocationErr
<1>7. ASSUME NEW d \in DQ!Messages, FetchDispatch(d) PROVE Steps
  BY <1>7, MessageParts DEF FetchDispatch
<1>8. ASSUME NEW w \in Workers, NEW out \in Outcomes, Invoke(w, out) PROVE Steps
  BY <1>8 DEF Invoke
<1>9. ASSUME NEW w \in Workers, HandleDispatchErr(w) \/ sidecarLoop(w) \/ CrashSidecar(w)
      PROVE  Steps
  BY <1>9 DEF HandleDispatchErr, sidecarLoop, CrashSidecar
<1>10. ASSUME NEW p \in Handlers, PersistResult(p) PROVE Steps
  <2>1. RQ!Next \/ UNCHANGED rVars
    BY <1>10, CurrentIsKnown, PublishIsAStep DEF PersistResult
  <2> QED
    BY <1>10, <2>1 DEF PersistResult
<1>11. ASSUME NEW p \in Handlers, ReplyDelivered(p) \/ ReplyUnheard(p) PROVE Steps
  BY <1>11 DEF ReplyDelivered, ReplyUnheard, HandlerReturnsNil
<1>12. ASSUME NEW s \in ResultStores, NEW r \in RQ!Messages, FetchResult(s, r) PROVE Steps
  BY <1>12 DEF FetchResult
<1>13. ASSUME NEW s \in ResultStores,
              HandleResult(s) \/ HandleResultErr(s) \/ resultStoreLoop(s) \/ CrashResultStore(s)
       PROVE  Steps
  BY <1>13 DEF HandleResult, HandleResultErr, resultStoreLoop, CrashResultStore
<1>14. CASE activatorLoop \/ CrashActivator
  BY <1>14 DEF activatorLoop, CrashActivator
<1>15. CASE Redeliver \/ Expire
  BY <1>15 DEF Redeliver, Expire
<1> QED
  BY <1>1, <1>2, <1>3, <1>4, <1>5, <1>6, <1>7, <1>8, <1>9, <1>10, <1>11, <1>12, <1>13, <1>14,
     <1>15 DEF Next

LEMMA QueuesStep ==
  ASSUME PipelineInv, [Next]_vars
  PROVE  QueuesInv'
<1>1. /\ IP!Next \/ UNCHANGED IP!queueVars
      /\ DP!Next \/ UNCHANGED DP!queueVars
      /\ RP!Next \/ UNCHANGED RP!queueVars
  <2>1. UNCHANGED iVars => UNCHANGED IP!queueVars
    BY DEF iVars, IP!queueVars
  <2>2. UNCHANGED dVars => UNCHANGED DP!queueVars
    BY DEF dVars, DP!queueVars
  <2>3. UNCHANGED rVars => UNCHANGED RP!queueVars
    BY DEF rVars, RP!queueVars
  <2>4. CASE Next
    BY <2>1, <2>2, <2>3, <2>4, QueueSteps, SameQueues
  <2>5. CASE UNCHANGED vars
    BY <2>1, <2>2, <2>3, <2>5 DEF vars
  <2> QED
    BY <2>4, <2>5
<1> QED
  BY <1>1, QueueAssumptions, IP!QueueStep, DP!QueueStep, RP!QueueStep DEF PipelineInv, QueuesInv

-----------------------------------------------------------------------------
(* The handlers.                                                           *)

USE DEF iVars, dVars, rVars, ownVars

\* What the handler of p leaves when it returns nil.
LEMMA ReturnsNil ==
  ASSUME PipelineInv, NEW p \in Handlers, InHandler(p), HandlerReturnsNil(p)
  PROVE  /\ ~InHandler(p)'
         /\ \A q \in Handlers : q # p => (InHandler(q)' <=> InHandler(q)) /\ Current(q)' = Current(q)
         /\ \/ iHandled' = iHandled
            \/ \E m \in IQ!Messages : m[1] = Current(p) /\ iHandled' = iHandled \cup {m}
         /\ \/ dHandled' = dHandled
            \/ \E d \in DQ!Messages : d[1][1] = Current(p) /\ dHandled' = dHandled \cup {d}
         /\ \A w \in Workers : dCons'[w].msg = dCons[w].msg
                               /\ (dCons'[w].pc = "idle" <=> dCons[w].pc = "idle")
         /\ UNCHANGED <<dStream, dDelivered>>
<1> USE PipelineAssumption, QueueFacts DEF PipelineInv
<1>1. CASE p = Activator
  <2>1. /\ iCons' = [iCons EXCEPT ![p].pc = "ack"]
        /\ iHandled' = iHandled \cup {iCons[p].msg}
        /\ UNCHANGED dVars
    BY <1>1 DEF HandlerReturnsNil, IQ!HandlerOK, IQ!GoTo
  <2> QED
    BY <1>1, <2>1
<1>2. CASE p # Activator
  <2>1. /\ dCons' = [dCons EXCEPT ![p].pc = "ack"]
        /\ dHandled' = dHandled \cup {dCons[p].msg}
        /\ UNCHANGED <<iVars, dStream, dDelivered>>
    BY <1>2 DEF HandlerReturnsNil, DQ!HandlerOK, DQ!GoTo
  <2>2. p \in Workers /\ dCons[p].pc = "handler" /\ dCons[p].msg \in DQ!Messages
    BY <1>2
  <2> QED
    BY <1>2, <2>1, <2>2
<1> QED
  BY <1>1, <1>2

\* The result a handler publishes and replies with.
LEMMA ResultIsTyped ==
  ASSUME PipelineInv, NEW p \in Handlers, hand[p].step \in {"persist", "reply"}
  PROVE  ResultOf(p) \in Results
<1>1. hand[p].out \in States /\ InHandler(p)
  BY DEF PipelineInv, HandInv
<1>2. p # Activator => executions[dCons[p].msg] \in Nat
  <2>1. p # Activator => dCons[p].msg \in DQ!Messages
    BY <1>1, QueueFacts DEF PipelineInv
  <2> QED
    BY <2>1 DEF PipelineInv, OwnTypeOK
<1> QED
  BY <1>1, <1>2 DEF ResultOf, Results

\* A handler that moves on to its reply keeps the type of its locals.
LEMMA ReplyStepIsTyped ==
  ASSUME OwnTypeOK, NEW p \in Handlers, hand' = [hand EXCEPT ![p].step = "reply"]
  PROVE  hand' \in [Handlers -> [step : {"start", "dispatch", "persist", "reply"},
                                 worker : Workers \cup {None}, out : States \cup {None}]]
<1> DEFINE Locals == [step : {"start", "dispatch", "persist", "reply"},
                      worker : Workers \cup {None}, out : States \cup {None}]
<1>1. hand \in [Handlers -> Locals]
  BY DEF OwnTypeOK
<1>2. [hand[p] EXCEPT !.step = "reply"] \in Locals
  BY <1>1
<1> QED
  BY <1>1, <1>2

LEMMA OwnTypeStep == ASSUME PipelineInv, Next PROVE OwnTypeOK'
<1> USE PipelineAssumption, QueueFacts DEF PipelineInv, OwnTypeOK
<1>1. ASSUME NEW i \in Invocations,
             CreateServerlessInvocation(i) \/ InvokeServerlessSync(i) \/ SyncTimeout(i)
               \/ FetchInvocation(i) \/ ForgetResultId(i)
      PROVE  OwnTypeOK'
  BY <1>1 DEF CreateServerlessInvocation, InvokeServerlessSync, SyncTimeout, FetchInvocation,
     ForgetResultId
<1>2. ASSUME NEW w \in Workers, CreateWorker(w) \/ DeleteWorker(w) PROVE OwnTypeOK'
  BY <1>2 DEF CreateWorker, DeleteWorker
<1>3. ASSUME NEW w \in Workers, acquireWorker(w) PROVE OwnTypeOK'
  BY <1>3 DEF acquireWorker
<1>13. CASE noWorkerTemplate
  BY <1>13 DEF noWorkerTemplate, States
<1>14. CASE dispatchToWorker \/ dispatchUnconfirmed \/ ProcessInvocationErr
  BY <1>14 DEF dispatchToWorker, dispatchUnconfirmed, ProcessInvocationErr
<1>4. ASSUME NEW d \in DQ!Messages, FetchDispatch(d) PROVE OwnTypeOK'
  BY <1>4 DEF FetchDispatch
<1>5. ASSUME NEW w \in Workers, NEW out \in Outcomes, Invoke(w, out) PROVE OwnTypeOK'
  <2>1. dCons[w].msg \in DQ!Messages /\ out \in States
    BY <1>5 DEF Invoke, States
  <2>2. executions' \in [DQ!Messages -> Nat]
    BY <1>5, <2>1 DEF Invoke
  <2> QED
    BY <1>5, <2>1, <2>2 DEF Invoke
<1>6. ASSUME NEW w \in Workers, HandleDispatchErr(w) \/ sidecarLoop(w) \/ CrashSidecar(w)
      PROVE  OwnTypeOK'
  BY <1>6 DEF HandleDispatchErr, sidecarLoop, CrashSidecar
<1>7. ASSUME NEW p \in Handlers, PersistResult(p) PROVE OwnTypeOK'
  <2>1. ResultOf(p) \in Results
    BY <1>7, ResultIsTyped DEF PersistResult, HandInv
  <2>2. RQ!Copy(Current(p)) \in RQ!Messages
    BY <1>7, CurrentIsKnown, ResultCopy DEF PersistResult
  <2>3. result' \in [RQ!Messages -> Results \cup {None}]
    BY <1>7, <2>1, <2>2 DEF PersistResult
  <2>4. /\ hand' = [hand EXCEPT ![p].step = "reply"]
        /\ UNCHANGED <<live, waiter, reply, stored, executions>>
    BY <1>7 DEF PersistResult
  <2>5. hand' \in [Handlers -> [step : {"start", "dispatch", "persist", "reply"},
                                worker : Workers \cup {None}, out : States \cup {None}]]
    BY <2>4, ReplyStepIsTyped, Zenon
  <2> QED
    BY <2>3, <2>4, <2>5
<1>8. ASSUME NEW p \in Handlers, ReplyDelivered(p) \/ ReplyUnheard(p) PROVE OwnTypeOK'
  <2>1. ResultOf(p) \in Results /\ Current(p) \in Invocations
    BY <1>8, CurrentIsKnown, ResultIsTyped DEF ReplyDelivered, ReplyUnheard, HandInv
  <2>2. CASE ReplyDelivered(p)
    BY <2>1, <2>2 DEF ReplyDelivered
  <2>3. CASE ReplyUnheard(p)
    BY <2>3 DEF ReplyUnheard
  <2> QED
    BY <1>8, <2>2, <2>3
<1>9. ASSUME NEW s \in ResultStores, NEW r \in RQ!Messages, FetchResult(s, r) PROVE OwnTypeOK'
  BY <1>9 DEF FetchResult
<1>10. ASSUME NEW s \in ResultStores, HandleResult(s) \/ HandleResultErr(s) PROVE OwnTypeOK'
  <2>1. rCons[s].msg \in RQ!Messages /\ rCons[s].msg[1] \in Invocations
    BY <1>10, MessageParts DEF HandleResult, HandleResultErr, RQ!HandlerOK, RQ!HandlerErr
  <2> QED
    BY <1>10, <2>1 DEF HandleResult, HandleResultErr, SaveInvocationResult
<1>11. ASSUME NEW s \in ResultStores, resultStoreLoop(s) \/ CrashResultStore(s) PROVE OwnTypeOK'
  BY <1>11 DEF resultStoreLoop, CrashResultStore
<1>12. CASE activatorLoop \/ CrashActivator \/ Redeliver \/ Expire
  BY <1>12 DEF activatorLoop, CrashActivator, Redeliver, Expire
<1> QED
  BY <1>1, <1>2, <1>3, <1>4, <1>5, <1>6, <1>7, <1>8, <1>9, <1>10, <1>11, <1>12, <1>13,
     <1>14 DEF Next

LEMMA HandStep == ASSUME PipelineInv, Next PROVE HandInv'
<1> USE PipelineAssumption, QueueFacts DEF PipelineInv, OwnTypeOK, HandInv, HasResult
<1>20. ASSUME NEW p \in Handlers, hand' = [hand EXCEPT ![p] = Fresh], rStream' = rStream,
              \A q \in Handlers : q # p => (InHandler(q)' <=> InHandler(q)) /\ Current(q)' = Current(q)
       PROVE  HandInv'
  <2>1. hand'[p].step = "start"
    BY <1>20
  <2>2. ASSUME NEW q \in Handlers, q # p
        PROVE  hand'[q] = hand[q] /\ (HasResult(Current(q)) => HasResult(Current(q))')
    BY <1>20, <2>2
  <2> HIDE DEF InHandler, Current, HasResult
  <2> QED
    BY <1>20, <2>1, <2>2
<1>1. ASSUME NEW i \in Invocations,
             CreateServerlessInvocation(i) \/ InvokeServerlessSync(i) \/ SyncTimeout(i)
               \/ ForgetResultId(i)
      PROVE  HandInv'
  BY <1>1 DEF CreateServerlessInvocation, InvokeServerlessSync, SyncTimeout, ForgetResultId,
     IQ!Publish, RQ!WindowEnds
<1>2. ASSUME NEW i \in Invocations, FetchInvocation(i) PROVE HandInv'
  BY <1>2 DEF FetchInvocation, IQ!Fetch
<1>3. ASSUME NEW w \in Workers, CreateWorker(w) PROVE HandInv'
  BY <1>3 DEF CreateWorker
<1>19. ASSUME NEW w \in Workers, acquireWorker(w) PROVE HandInv'
  BY <1>19 DEF acquireWorker
<1>4. ASSUME NEW w \in Workers, DeleteWorker(w) \/ CrashSidecar(w) PROVE HandInv'
  <2>1. /\ hand' = [hand EXCEPT ![w] = Fresh] /\ rStream' = rStream /\ UNCHANGED iCons
        /\ \A v \in Workers : v # w => dCons'[v] = dCons[v]
    BY <1>4 DEF DeleteWorker, CrashSidecar, DQ!Crash, DQ!Idle
  <2>2. \A q \in Handlers : q # w => (InHandler(q)' <=> InHandler(q)) /\ Current(q)' = Current(q)
    BY <2>1
  <2> QED
    BY <1>20, <2>1, <2>2
<1>5. CASE noWorkerTemplate
  BY <1>5 DEF noWorkerTemplate, States
<1>6. CASE dispatchToWorker
  BY <1>6 DEF dispatchToWorker, PublishDispatch, IQ!HandlerOK, IQ!GoTo
<1>7. CASE dispatchUnconfirmed
  BY <1>7 DEF dispatchUnconfirmed, PublishDispatch, IQ!HandlerErr, IQ!GoTo
<1>8. CASE ProcessInvocationErr
  BY <1>8 DEF ProcessInvocationErr, IQ!HandlerErr, IQ!GoTo
<1>9. ASSUME NEW d \in DQ!Messages, FetchDispatch(d) PROVE HandInv'
  BY <1>9, MessageParts, SMTT(30) DEF FetchDispatch, DQ!Fetch
<1>10. ASSUME NEW w \in Workers, NEW out \in Outcomes, Invoke(w, out) PROVE HandInv'
  BY <1>10 DEF Invoke, States
<1>11. ASSUME NEW w \in Workers, HandleDispatchErr(w) PROVE HandInv'
  <2>1. /\ hand' = [hand EXCEPT ![w] = Fresh] /\ rStream' = rStream /\ UNCHANGED iCons
        /\ \A v \in Workers : v # w => dCons'[v] = dCons[v]
    <3>1. PICK t : dCons' = [dCons EXCEPT ![w].pc = t]
      BY <1>11 DEF HandleDispatchErr, DQ!HandlerErr, DQ!GoTo
    <3> QED
      BY <1>11, <3>1 DEF HandleDispatchErr
  <2>2. \A q \in Handlers : q # w => (InHandler(q)' <=> InHandler(q)) /\ Current(q)' = Current(q)
    BY <2>1
  <2> QED
    BY <1>20, <2>1, <2>2
<1>12. ASSUME NEW w \in Workers, sidecarLoop(w) PROVE HandInv'
  <2>1. /\ hand' = hand /\ rStream' = rStream /\ UNCHANGED iCons /\ dCons[w].pc # "handler"
        /\ dCons' = [dCons EXCEPT ![w] = DQ!Idle] \/ dCons' = [dCons EXCEPT ![w].pc = "term"]
    BY <1>12 DEF sidecarLoop, DQ!Ack, DQ!NakWithDelay, DQ!AnswerLost, DQ!publishDeadLetter,
       DQ!Term, DQ!GoTo
  <2>2. hand[w].step = "start"
    BY <2>1
  <2>3. \A v \in Workers : v # w => dCons'[v] = dCons[v]
    BY <2>1
  <2>4. ASSUME NEW q \in Handlers, q # w
        PROVE  (InHandler(q)' <=> InHandler(q)) /\ Current(q)' = Current(q)
    BY <2>1, <2>3, <2>4
  <2> HIDE DEF InHandler, Current
  <2> QED
    BY <2>1, <2>2, <2>4
<1>13. ASSUME NEW p \in Handlers, PersistResult(p) PROVE HandInv'
  <2>1. /\ RQ!Copy(Current(p))[1] = Current(p)
        /\ rStream' = rStream \cup {RQ!Copy(Current(p))}
    BY <1>13, CurrentIsKnown, ResultCopy DEF PersistResult, RQ!PublishEffect
  <2>2. /\ HasResult(Current(p))'
        /\ \A q \in Handlers : HasResult(Current(q)) => HasResult(Current(q))'
    BY <1>13, <2>1 DEF PersistResult
  <2>3. /\ hand' = [hand EXCEPT ![p].step = "reply"]
        /\ InHandler(p) /\ hand[p].step = "persist"
        /\ \A q \in Handlers : (InHandler(q)' <=> InHandler(q))
    BY <1>13 DEF PersistResult
  <2>4. /\ hand'[p].step = "reply" /\ hand'[p].out = hand[p].out
        /\ \A q \in Handlers : q # p => hand'[q] = hand[q]
    BY <2>3
  <2> HIDE DEF InHandler, Current, HasResult
  <2> QED
    BY <2>2, <2>3, <2>4
<1>14. ASSUME NEW p \in Handlers, ReplyDelivered(p) \/ ReplyUnheard(p) PROVE HandInv'
  <2>1. /\ hand' = [hand EXCEPT ![p] = Fresh] /\ rStream' = rStream
        /\ InHandler(p) /\ HandlerReturnsNil(p)
    BY <1>14 DEF ReplyDelivered, ReplyUnheard
  <2>2. \A q \in Handlers : q # p => (InHandler(q)' <=> InHandler(q)) /\ Current(q)' = Current(q)
    BY <2>1, ReturnsNil
  <2> QED
    BY <1>20, <2>1, <2>2
<1>15. ASSUME NEW s \in ResultStores,
              \/ \E r \in RQ!Messages : FetchResult(s, r)
              \/ HandleResult(s) \/ HandleResultErr(s) \/ resultStoreLoop(s) \/ CrashResultStore(s)
       PROVE  HandInv'
  BY <1>15, ZenonT(60) DEF FetchResult, HandleResult, HandleResultErr, resultStoreLoop, CrashResultStore,
     RQ!Fetch, RQ!HandlerOK, RQ!HandlerErr, RQ!Ack, RQ!NakWithDelay, RQ!AnswerLost,
     RQ!publishDeadLetter, RQ!Term, RQ!Crash
<1>16. CASE activatorLoop
  BY <1>16 DEF activatorLoop, IQ!Ack, IQ!NakWithDelay, IQ!AnswerLost, IQ!publishDeadLetter,
     IQ!Term, IQ!Idle, IQ!GoTo
<1>17. CASE CrashActivator
  BY <1>17 DEF CrashActivator, IQ!Crash, IQ!Idle
<1>18. CASE Redeliver \/ Expire
  BY <1>18 DEF Redeliver, IQ!AckWaitExpires, DQ!AckWaitExpires, RQ!AckWaitExpires,
     Expire, IQ!MessageExpires, DQ!MessageExpires, RQ!MessageExpires
<1> QED
  BY <1>1, <1>2, <1>3, <1>4, <1>5, <1>6, <1>7, <1>8, <1>9, <1>10, <1>11, <1>12, <1>13, <1>14,
     <1>15, <1>16, <1>17, <1>18, <1>19 DEF Next

LEMMA ExecutionStep == ASSUME PipelineInv, Next PROVE ExecutionInv'
<1> USE PipelineAssumption, QueueFacts DEF PipelineInv, OwnTypeOK, ExecutionInv
<1> DEFINE Kept == /\ UNCHANGED <<dCons, dDelivered, executions>>
                   /\ \A w \in Workers : hand'[w] = hand[w]
<1>1. Kept => ExecutionInv'
  OBVIOUS
<1>2. ASSUME NEW i \in Invocations,
             CreateServerlessInvocation(i) \/ InvokeServerlessSync(i) \/ SyncTimeout(i)
               \/ FetchInvocation(i) \/ ForgetResultId(i)
      PROVE  Kept
  BY <1>2 DEF CreateServerlessInvocation, InvokeServerlessSync, SyncTimeout, FetchInvocation,
     ForgetResultId
<1>3. ASSUME NEW w \in Workers, CreateWorker(w) \/ acquireWorker(w) PROVE Kept
  BY <1>3 DEF CreateWorker, acquireWorker
<1>4. CASE noWorkerTemplate \/ dispatchToWorker \/ dispatchUnconfirmed \/ ProcessInvocationErr
           \/ activatorLoop \/ CrashActivator
  BY <1>4 DEF noWorkerTemplate, dispatchToWorker, dispatchUnconfirmed, ProcessInvocationErr,
     PublishDispatch, activatorLoop, CrashActivator
<1>5. ASSUME NEW s \in ResultStores,
             \/ \E r \in RQ!Messages : FetchResult(s, r)
             \/ HandleResult(s) \/ HandleResultErr(s) \/ resultStoreLoop(s) \/ CrashResultStore(s)
      PROVE  Kept
  BY <1>5 DEF FetchResult, HandleResult, HandleResultErr, resultStoreLoop, CrashResultStore
<1>6. CASE Redeliver \/ Expire
  BY <1>6 DEF Redeliver, DQ!AckWaitExpires, Expire, DQ!MessageExpires
<1>7. ASSUME NEW w \in Workers, DeleteWorker(w) \/ CrashSidecar(w) PROVE ExecutionInv'
  <2>1. /\ dCons'[w].pc = "idle"
        /\ \A v \in Workers : v # w => dCons'[v] = dCons[v] /\ hand'[v] = hand[v]
        /\ UNCHANGED <<dDelivered, executions>>
    BY <1>7 DEF DeleteWorker, CrashSidecar, DQ!Crash, DQ!Idle
  <2> QED
    BY <2>1
<1>8. ASSUME NEW d \in DQ!Messages, FetchDispatch(d) PROVE ExecutionInv'
  <2>1. PICK w \in Workers : w = d[1][2]
    BY MessageParts
  <2>3. /\ dCons' = [dCons EXCEPT ![w] = [pc |-> "handler", msg |-> d, dc |-> dDelivered[d] + 1]]
        /\ dDelivered' = [dDelivered EXCEPT ![d] = @ + 1]
        /\ UNCHANGED <<hand, executions>>
    BY <1>8, <2>1 DEF FetchDispatch, DQ!Fetch
  <2>4. ASSUME NEW v \in Workers PROVE dCons'[v].pc # "idle" => dCons'[v].msg[1][2] = v
    BY <2>1, <2>3
  <2>5. \A e \in DQ!Messages : dDelivered'[e] >= dDelivered[e] /\ dDelivered'[d] > executions[d]
    BY <2>3
  <2>6. ASSUME NEW v \in Workers, dCons'[v].pc = "handler", hand'[v].step = "start"
        PROVE  executions'[dCons'[v].msg] < dDelivered'[dCons'[v].msg]
    <3>1. CASE v = w
      BY <2>3, <2>5, <3>1
    <3>2. CASE v # w
      <4>1. dCons[v].msg \in DQ!Messages /\ dCons'[v] = dCons[v]
        BY <2>3, <2>6, <3>2
      <4> QED
        BY <2>3, <2>5, <2>6, <4>1
    <3> QED
      BY <3>1, <3>2
  <2>7. \A e \in DQ!Messages : executions'[e] <= dDelivered'[e]
    BY <2>3, <2>5
  <2> QED
    BY <2>4, <2>6, <2>7
<1>9. ASSUME NEW w \in Workers, NEW out \in Outcomes, Invoke(w, out) PROVE ExecutionInv'
  BY <1>9 DEF Invoke
<1>10. ASSUME NEW w \in Workers, HandleDispatchErr(w) PROVE ExecutionInv'
  BY <1>10 DEF HandleDispatchErr, DQ!HandlerErr, DQ!GoTo
<1>11. ASSUME NEW w \in Workers, sidecarLoop(w) PROVE ExecutionInv'
  <2>1. /\ dCons' = [dCons EXCEPT ![w] = DQ!Idle] \/ dCons' = [dCons EXCEPT ![w].pc = "term"]
        /\ UNCHANGED <<dDelivered, hand, executions>>
        /\ dCons[w].pc # "idle"
    BY <1>11 DEF sidecarLoop, DQ!Ack, DQ!NakWithDelay, DQ!AnswerLost, DQ!publishDeadLetter,
       DQ!Term, DQ!GoTo
  <2>2. /\ dCons'[w].pc # "handler"
        /\ dCons'[w].pc # "idle" => dCons'[w].msg = dCons[w].msg
        /\ \A v \in Workers : v # w => dCons'[v] = dCons[v]
    BY <2>1 DEF DQ!Idle
  <2> QED
    BY <2>1, <2>2
<1>12. ASSUME NEW p \in Handlers, PersistResult(p) PROVE ExecutionInv'
  BY <1>12 DEF PersistResult
<1>13. ASSUME NEW p \in Handlers, ReplyDelivered(p) \/ ReplyUnheard(p) PROVE ExecutionInv'
  <2>1. /\ \A w \in Workers : dCons'[w].msg = dCons[w].msg
                              /\ (dCons'[w].pc = "idle" <=> dCons[w].pc = "idle")
        /\ \A w \in Workers : w # p =>
             (dCons'[w].pc = "handler" <=> dCons[w].pc = "handler") /\ hand'[w] = hand[w]
        /\ p \in Workers => dCons'[p].pc # "handler"
        /\ UNCHANGED <<dDelivered, executions>>
    BY <1>13, ReturnsNil DEF ReplyDelivered, ReplyUnheard
  <2> QED
    BY <2>1
<1> QED
  BY <1>1, <1>2, <1>3, <1>4, <1>5, <1>6, <1>7, <1>8, <1>9, <1>10, <1>11, <1>12, <1>13 DEF Next

LEMMA ChainStep == ASSUME PipelineInv, Next PROVE ChainInv'
<1> USE PipelineAssumption, QueueFacts DEF PipelineInv, OwnTypeOK, ChainInv, HasResult
<1> DEFINE Kept == /\ iHandled' = iHandled /\ dHandled' = dHandled /\ rHandled' = rHandled
                   /\ dStream \subseteq dStream' /\ rStream \subseteq rStream'
                   /\ stored' = stored
<1>1. Kept => ChainInv'
  OBVIOUS
<1>2. ASSUME NEW i \in Invocations,
             CreateServerlessInvocation(i) \/ InvokeServerlessSync(i) \/ SyncTimeout(i)
               \/ FetchInvocation(i) \/ ForgetResultId(i)
      PROVE  Kept
  BY <1>2 DEF CreateServerlessInvocation, InvokeServerlessSync, SyncTimeout, FetchInvocation,
     ForgetResultId, IQ!Publish, IQ!Fetch, RQ!WindowEnds
<1>12. ASSUME NEW d \in DQ!Messages, FetchDispatch(d) PROVE Kept
  BY <1>12 DEF FetchDispatch, DQ!Fetch
<1>3. ASSUME NEW w \in Workers, CreateWorker(w) \/ DeleteWorker(w) \/ acquireWorker(w) PROVE Kept
  BY <1>3 DEF CreateWorker, DeleteWorker, acquireWorker, DQ!Crash
<1>4. CASE noWorkerTemplate \/ dispatchUnconfirmed \/ ProcessInvocationErr
           \/ activatorLoop \/ CrashActivator
  BY <1>4 DEF noWorkerTemplate, dispatchUnconfirmed, ProcessInvocationErr, PublishDispatch,
     DQ!PublishEffect, activatorLoop, CrashActivator, IQ!HandlerErr, IQ!Ack, IQ!NakWithDelay,
     IQ!AnswerLost, IQ!publishDeadLetter, IQ!Term, IQ!Crash
<1>5. ASSUME NEW w \in Workers,
             \/ \E out \in Outcomes : Invoke(w, out)
             \/ HandleDispatchErr(w) \/ sidecarLoop(w) \/ CrashSidecar(w)
      PROVE  Kept
  BY <1>5 DEF Invoke, HandleDispatchErr, sidecarLoop, CrashSidecar, DQ!HandlerErr,
     DQ!Ack, DQ!NakWithDelay, DQ!AnswerLost, DQ!publishDeadLetter, DQ!Term, DQ!Crash
<1>6. ASSUME NEW p \in Handlers, PersistResult(p) PROVE Kept
  BY <1>6 DEF PersistResult, RQ!PublishEffect
<1>7. ASSUME NEW s \in ResultStores,
             \/ \E r \in RQ!Messages : FetchResult(s, r)
             \/ resultStoreLoop(s) \/ CrashResultStore(s)
      PROVE  Kept
  BY <1>7 DEF FetchResult, resultStoreLoop, CrashResultStore, RQ!Fetch, RQ!Ack,
     RQ!NakWithDelay, RQ!AnswerLost, RQ!publishDeadLetter, RQ!Term, RQ!Crash
<1>8. CASE Redeliver \/ Expire
  BY <1>8 DEF Redeliver, IQ!AckWaitExpires, DQ!AckWaitExpires, RQ!AckWaitExpires,
     Expire, IQ!MessageExpires, DQ!MessageExpires, RQ!MessageExpires
<1>9. CASE dispatchToWorker
  <2> DEFINE d == DQ!Copy(<<Current(Activator), hand[Activator].worker>>)
  <2>1. /\ dStream' = dStream \cup {d}
        /\ iHandled' = iHandled \cup {iCons[Activator].msg}
        /\ UNCHANGED <<dHandled, rHandled, rStream, stored>>
    BY <1>9 DEF dispatchToWorker, PublishDispatch, DQ!PublishEffect, IQ!HandlerOK
  <2>2. d[1][1] = iCons[Activator].msg[1]
    BY DEF DQ!Copy
  <2> HIDE DEF d
  <2> QED
    BY <2>1, <2>2
<1>10. ASSUME NEW p \in Handlers, ReplyDelivered(p) \/ ReplyUnheard(p) PROVE ChainInv'
  <2>1. HasResult(Current(p))
    BY <1>10 DEF ReplyDelivered, ReplyUnheard, HandInv
  <2>2. /\ \/ iHandled' = iHandled
           \/ \E m \in IQ!Messages : m[1] = Current(p) /\ iHandled' = iHandled \cup {m}
        /\ \/ dHandled' = dHandled
           \/ \E d \in DQ!Messages : d[1][1] = Current(p) /\ dHandled' = dHandled \cup {d}
        /\ UNCHANGED <<dStream, rStream, rHandled, stored>>
    BY <1>10, ReturnsNil DEF ReplyDelivered, ReplyUnheard
  <2> HIDE DEF Current
  <2> QED
    BY <2>1, <2>2
<1>11. ASSUME NEW s \in ResultStores, HandleResult(s) \/ HandleResultErr(s) PROVE ChainInv'
  <2>1. PICK r \in RQ!Messages : r = rCons[s].msg /\ result[r] # None
    BY <1>11 DEF HandleResult, HandleResultErr, RQ!HandlerOK, RQ!HandlerErr, ResultInv
  <2>2. PICK i \in Invocations : i = r[1]
    BY MessageParts
  <2>3. /\ \/ rHandled' = rHandled \cup {r} /\ stored' = [stored EXCEPT ![i] = result[r]]
           \/ rHandled' = rHandled /\ stored' = [stored EXCEPT ![i] = result[r]]
           \/ rHandled' = rHandled /\ stored' = stored
        /\ UNCHANGED <<iHandled, dHandled, dStream, rStream>>
    BY <1>11, <2>1, <2>2 DEF HandleResult, HandleResultErr, SaveInvocationResult, RQ!HandlerOK,
       RQ!HandlerErr
  <2>4. \A j \in Invocations : stored[j] # None => stored'[j] # None
    BY <2>1, <2>3
  <2>5. \A q \in rHandled' : q \in rHandled \/ (q = r /\ stored'[i] # None)
    BY <2>1, <2>3
  <2> QED
    BY <2>2, <2>3, <2>4, <2>5, MessageParts
<1> QED
  BY <1>1, <1>2, <1>3, <1>4, <1>5, <1>6, <1>7, <1>8, <1>9, <1>10, <1>11, <1>12 DEF Next

\* A row that changes is overwritten by a message stored after a window ended.
Superseded(i) == rLapsed[i] > 0 /\ \E r \in ResultsOf(i) : r[2] > 1 /\ r \in rStream
RowsStable == \A i \in Invocations : stored[i] # None /\ stored'[i] # stored[i] => Superseded(i)

LEMMA ResultStep ==
  ASSUME PipelineInv, Next
  PROVE  ResultInv' /\ RowsStable
<1> USE PipelineAssumption, QueueFacts DEF PipelineInv, OwnTypeOK, ResultInv, RowsStable, HasResult
<1> DEFINE Kept == UNCHANGED <<rStream, rLapsed, result, stored, reply>>
<1>1. Kept => ResultInv' /\ RowsStable
  OBVIOUS
<1>2. ASSUME NEW i \in Invocations,
             CreateServerlessInvocation(i) \/ InvokeServerlessSync(i) \/ SyncTimeout(i)
               \/ FetchInvocation(i)
      PROVE  Kept
  BY <1>2 DEF CreateServerlessInvocation, InvokeServerlessSync, SyncTimeout, FetchInvocation
<1>10. ASSUME NEW i \in Invocations, ForgetResultId(i) PROVE ResultInv' /\ RowsStable
  <2>1. /\ rLapsed' = [rLapsed EXCEPT ![i] = @ + 1]
        /\ UNCHANGED <<rStream, result, stored, reply>>
    BY <1>10 DEF ForgetResultId, RQ!WindowEnds
  <2>2. \A j \in Invocations : rLapsed[j] \in Nat /\ rLapsed'[j] >= rLapsed[j]
    BY <2>1
  <2>3. \A r \in rStream : r[1] \in Invocations /\ r[2] \in Nat
    BY MessageParts
  <2> QED
    BY <2>1, <2>2, <2>3
<1>3. ASSUME NEW w \in Workers,
             \/ CreateWorker(w) \/ DeleteWorker(w) \/ acquireWorker(w)
             \/ \E out \in Outcomes : Invoke(w, out)
             \/ HandleDispatchErr(w) \/ sidecarLoop(w) \/ CrashSidecar(w)
      PROVE  Kept
  BY <1>3 DEF CreateWorker, DeleteWorker, acquireWorker, Invoke, HandleDispatchErr,
     sidecarLoop, CrashSidecar
<1>11. ASSUME NEW d \in DQ!Messages, FetchDispatch(d) PROVE Kept
  BY <1>11 DEF FetchDispatch
<1>4. CASE noWorkerTemplate \/ dispatchToWorker \/ dispatchUnconfirmed \/ ProcessInvocationErr
           \/ activatorLoop \/ CrashActivator
  <2>1. Kept
    BY <1>4 DEF noWorkerTemplate, dispatchToWorker, dispatchUnconfirmed, ProcessInvocationErr,
       activatorLoop, CrashActivator
  <2> QED
    BY <1>1, <2>1
<1>5. ASSUME NEW s \in ResultStores,
             \/ \E r \in RQ!Messages : FetchResult(s, r)
             \/ resultStoreLoop(s) \/ CrashResultStore(s)
      PROVE  Kept
  BY <1>5 DEF FetchResult, resultStoreLoop, CrashResultStore, RQ!Fetch, RQ!Ack,
     RQ!NakWithDelay, RQ!AnswerLost, RQ!publishDeadLetter, RQ!Term, RQ!Crash
<1>6. CASE Redeliver \/ Expire
  <2>1. Kept
    BY <1>6 DEF Redeliver, RQ!AckWaitExpires, Expire, RQ!MessageExpires
  <2> QED
    BY <1>1, <2>1
<1>7. ASSUME NEW p \in Handlers, PersistResult(p) PROVE ResultInv' /\ RowsStable
  <2>1. PICK i \in Invocations : i = Current(p)
    BY <1>7, CurrentIsKnown DEF PersistResult
  <2>2. PICK c \in RQ!Messages : c = RQ!Copy(i) /\ c[1] = i /\ c[2] = rLapsed[i] + 1
    BY ResultCopy
  <2>3. ResultOf(p) # None
    BY <1>7, ResultIsTyped DEF PersistResult, HandInv
  <2>4. /\ rStream' = rStream \cup {c}
        /\ result' = [result EXCEPT ![c] = IF c \in rStream THEN @ ELSE ResultOf(p)]
        /\ UNCHANGED <<rLapsed, stored, reply>>
    BY <1>7, <2>1, <2>2 DEF PersistResult, RQ!PublishEffect
  <2>5. /\ result'[c] # None
        /\ \A r \in rStream : result'[r] = result[r]
    BY <2>3, <2>4
  <2>6. \A r \in rStream' : result'[r] # None /\ r[2] <= rLapsed'[r[1]] + 1
    BY <2>2, <2>4, <2>5
  <2> QED
    BY <2>4, <2>5, <2>6
<1>8. ASSUME NEW p \in Handlers, ReplyDelivered(p) \/ ReplyUnheard(p) PROVE ResultInv' /\ RowsStable
  <2>1. PICK i \in Invocations : i = Current(p) /\ HasResult(i)
    BY <1>8, CurrentIsKnown DEF ReplyDelivered, ReplyUnheard, HandInv
  <2>2. /\ \A j \in Invocations : j # i => reply'[j] = reply[j]
        /\ UNCHANGED <<rStream, rLapsed, result, stored>>
    BY <1>8, <2>1 DEF ReplyDelivered, ReplyUnheard
  <2> QED
    BY <2>1, <2>2
<1>9. ASSUME NEW s \in ResultStores, HandleResult(s) \/ HandleResultErr(s)
      PROVE  ResultInv' /\ RowsStable
  <2>1. PICK r \in RQ!Messages : r = rCons[s].msg /\ r \in rStream
    BY <1>9 DEF HandleResult, HandleResultErr, RQ!HandlerOK, RQ!HandlerErr
  <2>2. PICK i \in Invocations : i = r[1]
    BY MessageParts
  <2>3. /\ stored' \in {stored, [stored EXCEPT ![i] = result[r]]}
        /\ UNCHANGED <<rStream, rLapsed, result, reply>>
    BY <1>9, <2>1, <2>2 DEF HandleResult, HandleResultErr, SaveInvocationResult, RQ!HandlerOK,
       RQ!HandlerErr
  <2>4. /\ \A j \in Invocations : j # i => stored'[j] = stored[j]
        /\ stored'[i] \in {stored[i], result[r]}
    BY <2>3
  <2>5. ResultInv'
    BY <2>1, <2>2, <2>3, <2>4
  <2>6. ASSUME stored[i] # None, stored'[i] # stored[i] PROVE Superseded(i)
    <3>1. PICK q \in rStream : q[1] = i /\ stored[i] = result[q]
      BY <2>6
    <3>2. /\ q \in RQ!Messages /\ q = <<i, q[2]>> /\ q[2] \in 1..MaxCopiesR
          /\ r = <<i, r[2]>> /\ r[2] \in 1..MaxCopiesR
      BY <2>2, <3>1, MessageParts
    <3>3. q[2] # r[2]
      <4>1. result[q] # result[r]
        BY <2>4, <2>6, <3>1
      <4>2. q[2] = r[2] => q = r
        BY <3>2, Zenon
      <4> QED
        BY <4>1, <4>2
    <3>4. PICK m \in {q, r} : m[2] > 1
      BY <3>2, <3>3
    <3>5. m \in ResultsOf(i) /\ m \in rStream /\ m[2] \in Nat /\ m[2] <= rLapsed[i] + 1
      BY <2>1, <2>2, <3>1, <3>2, <3>4 DEF ResultsOf
    <3>6. rLapsed[i] > 0
      BY <3>4, <3>5
    <3> QED
      BY <3>4, <3>5, <3>6 DEF Superseded
  <2> QED
    BY <2>4, <2>5, <2>6
<1> QED
  BY <1>1, <1>2, <1>3, <1>4, <1>5, <1>6, <1>7, <1>8, <1>9, <1>10, <1>11 DEF Next

\* Publishing stores at most one more dispatch.
LEMMA OneMoreDispatch ==
  ASSUME PipelineInv, PublishDispatch
  PROVE  \A i \in Invocations :
           /\ IsFiniteSet(SentTo(i)')
           /\ Cardinality(SentTo(i)') <= Cardinality(SentTo(i)) + 1
           /\ iCons[Activator].msg # InvocationOf(i) => SentTo(i)' = SentTo(i)
<1> DEFINE d == DQ!Copy(<<Current(Activator), hand[Activator].worker>>)
<1> SUFFICES ASSUME NEW i \in Invocations
             PROVE  /\ IsFiniteSet(SentTo(i)')
                    /\ Cardinality(SentTo(i)') <= Cardinality(SentTo(i)) + 1
                    /\ iCons[Activator].msg # InvocationOf(i) => SentTo(i)' = SentTo(i)
  OBVIOUS
<1>1. dStream' = dStream \cup {d} /\ d[1][1] = Current(Activator)
  BY DEF PublishDispatch, DQ!PublishEffect, DQ!Copy
<1>2. iCons[Activator].msg = InvocationOf(Current(Activator))
  <2>1. iCons[Activator].msg \in IQ!Messages
    BY QueueFacts DEF PublishDispatch, PipelineInv, HandInv
  <2> QED
    BY <2>1, MessageParts
<1> HIDE DEF d
<1>3. IsFiniteSet(SentTo(i)) /\ Cardinality(SentTo(i)) \in Nat
  BY FS_CardinalityType DEF PipelineInv, FanOutInv
<1>4. SentTo(i)' \in {SentTo(i), SentTo(i) \cup {d}}
  BY <1>1 DEF SentTo, DispatchesOf
<1>5. ASSUME NEW S, NEW e, IsFiniteSet(S)
      PROVE  IsFiniteSet(S \cup {e}) /\ Cardinality(S \cup {e}) <= Cardinality(S) + 1
  BY <1>5, FS_AddElement, FS_CardinalityType
<1>6. /\ IsFiniteSet(SentTo(i) \cup {d})
      /\ Cardinality(SentTo(i) \cup {d}) <= Cardinality(SentTo(i)) + 1
  BY <1>3, <1>5
<1>7. Current(Activator) # i => SentTo(i)' = SentTo(i)
  BY <1>1 DEF SentTo, DispatchesOf
<1>8. iCons[Activator].msg # InvocationOf(i) => Current(Activator) # i
  BY <1>2
<1>9. CASE SentTo(i)' = SentTo(i)
  BY <1>3, <1>9
<1>10. CASE SentTo(i)' = SentTo(i) \cup {d}
  BY <1>6, <1>7, <1>8, <1>10
<1> QED
  BY <1>4, <1>9, <1>10

LEMMA FanOutStep == ASSUME PipelineInv, Next PROVE FanOutInv'
<1> USE PipelineAssumption, QueueFacts DEF PipelineInv
<1> DEFINE InHand(i) == iCons[Activator].pc = "handler" /\ iCons[Activator].msg = InvocationOf(i)
           Kept == /\ UNCHANGED <<dStream, iDelivered>>
                   /\ \A i \in Invocations : InHand(i)' => InHand(i)
<1>1. ASSUME Kept PROVE FanOutInv'
  BY <1>1, MessageParts DEF FanOutInv, SentTo
<1>2. ASSUME NEW i \in Invocations,
             CreateServerlessInvocation(i) \/ InvokeServerlessSync(i) \/ SyncTimeout(i)
               \/ ForgetResultId(i)
      PROVE  Kept
  BY <1>2 DEF CreateServerlessInvocation, InvokeServerlessSync, SyncTimeout, ForgetResultId,
     IQ!Publish
<1>12. ASSUME NEW d \in DQ!Messages, FetchDispatch(d) PROVE Kept
  BY <1>12 DEF FetchDispatch, DQ!Fetch
<1>3. ASSUME NEW i \in Invocations, FetchInvocation(i) PROVE FanOutInv'
  <2>1. \A j \in Invocations : Cardinality(SentTo(j)) \in Nat
    BY FS_CardinalityType DEF FanOutInv
  <2>2. /\ iDelivered' = [iDelivered EXCEPT ![InvocationOf(i)] = @ + 1]
        /\ dStream' = dStream
        /\ iCons'[Activator].msg = InvocationOf(i)
    BY <1>3 DEF FetchInvocation, IQ!Fetch
  <2>3. \A j \in Invocations : SentTo(j)' = SentTo(j)
    BY <2>2 DEF SentTo
  <2>4. \A j \in Invocations : InvocationOf(j) \in IQ!Messages /\ (InvocationOf(j) = InvocationOf(i) => j = i)
    BY MessageParts DEF InvocationOf
  <2>5. /\ iDelivered'[InvocationOf(i)] = iDelivered[InvocationOf(i)] + 1
        /\ \A j \in Invocations : iDelivered[InvocationOf(j)] \in Nat
        /\ \A j \in Invocations : j # i => iDelivered'[InvocationOf(j)] = iDelivered[InvocationOf(j)]
    BY <2>2, <2>4
  <2>6. \A j \in Invocations : iCons'[Activator].msg = InvocationOf(j) => j = i
    BY <2>2, <2>4
  <2> QED
    BY <2>1, <2>3, <2>5, <2>6 DEF FanOutInv
<1>4. ASSUME NEW w \in Workers,
             \/ CreateWorker(w) \/ DeleteWorker(w) \/ acquireWorker(w)
             \/ \E out \in Outcomes : Invoke(w, out)
             \/ HandleDispatchErr(w) \/ sidecarLoop(w) \/ CrashSidecar(w)
      PROVE  Kept
  BY <1>4 DEF CreateWorker, DeleteWorker, acquireWorker, Invoke, HandleDispatchErr,
     sidecarLoop, CrashSidecar, DQ!HandlerErr, DQ!Ack, DQ!NakWithDelay, DQ!AnswerLost,
     DQ!publishDeadLetter, DQ!Term, DQ!Crash
<1>5. CASE noWorkerTemplate
  BY <1>1, <1>5 DEF noWorkerTemplate
<1>6. CASE ProcessInvocationErr \/ activatorLoop \/ CrashActivator
  <2>1. UNCHANGED <<dStream, iDelivered>> /\ iCons'[Activator].pc # "handler"
    BY <1>6 DEF ProcessInvocationErr, activatorLoop, CrashActivator, IQ!HandlerErr, IQ!GoTo,
       IQ!Ack, IQ!NakWithDelay, IQ!AnswerLost, IQ!publishDeadLetter, IQ!Term, IQ!Crash, IQ!Idle
  <2> QED
    BY <1>1, <2>1
<1>7. CASE dispatchToWorker \/ dispatchUnconfirmed
  <2>1. PublishDispatch /\ iCons[Activator].pc = "handler"
    BY <1>7 DEF dispatchToWorker, dispatchUnconfirmed, IQ!HandlerOK, IQ!HandlerErr
  <2>2. iDelivered' = iDelivered /\ iCons'[Activator].pc # "handler"
    BY <1>7 DEF dispatchToWorker, dispatchUnconfirmed, IQ!HandlerOK, IQ!HandlerErr, IQ!GoTo
  <2>3. \A i \in Invocations : /\ Cardinality(SentTo(i)) \in Nat /\ Cardinality(SentTo(i)') \in Nat
                                /\ iDelivered[InvocationOf(i)] \in Nat
    BY <2>1, OneMoreDispatch, FS_CardinalityType, MessageParts DEF FanOutInv
  <2> QED
    BY <2>1, <2>2, <2>3, OneMoreDispatch DEF FanOutInv
<1>8. ASSUME NEW p \in Handlers, PersistResult(p) PROVE Kept
  BY <1>8 DEF PersistResult
<1>9. ASSUME NEW p \in Handlers, ReplyDelivered(p) \/ ReplyUnheard(p) PROVE Kept
  BY <1>9 DEF ReplyDelivered, ReplyUnheard, HandlerReturnsNil, IQ!HandlerOK, DQ!HandlerOK, IQ!GoTo
<1>10. ASSUME NEW s \in ResultStores,
              \/ \E r \in RQ!Messages : FetchResult(s, r)
              \/ HandleResult(s) \/ HandleResultErr(s) \/ resultStoreLoop(s) \/ CrashResultStore(s)
       PROVE  Kept
  BY <1>10 DEF FetchResult, HandleResult, HandleResultErr, resultStoreLoop, CrashResultStore
<1>11. CASE Redeliver \/ Expire
  <2>1. Kept
    BY <1>11 DEF Redeliver, IQ!AckWaitExpires, DQ!AckWaitExpires, Expire, IQ!MessageExpires,
       DQ!MessageExpires
  <2> QED
    BY <1>1, <2>1
<1> QED
  BY <1>1, <1>2, <1>3, <1>4, <1>5, <1>6, <1>7, <1>8, <1>9, <1>10, <1>11, <1>12 DEF Next

-----------------------------------------------------------------------------
(* The invariant holds in every state.                                     *)

LEMMA PipelineInit == Init => PipelineInv
<1> SUFFICES ASSUME Init PROVE PipelineInv
  OBVIOUS
<1>1. QueuesInv
  BY QueueAssumptions, SameQueues, IP!QueueInit, DP!QueueInit, RP!QueueInit DEF Init, QueuesInv
<1>2. OwnTypeOK /\ HandInv
  BY DEF Init, OwnTypeOK, HandInv
<1>3. ExecutionInv
  BY <1>1, QueueFacts DEF Init, ExecutionInv, DQ!Init, DQ!Idle
<1>4. ChainInv /\ ResultInv
  BY DEF Init, ChainInv, ResultInv, IQ!Init, DQ!Init, RQ!Init
<1>5. FanOutInv
  <2>1. \A i \in Invocations : SentTo(i) = {}
    BY DEF Init, DQ!Init, SentTo
  <2>2. /\ iCons[Activator].pc = "idle"
        /\ \A i \in Invocations : iDelivered[InvocationOf(i)] = 0
    BY MessageParts DEF Init, IQ!Init, IQ!Idle
  <2> QED
    BY <2>1, <2>2, FS_EmptySet DEF FanOutInv
<1> QED
  BY <1>1, <1>2, <1>3, <1>4, <1>5 DEF PipelineInv

LEMMA PipelineStep == PipelineInv /\ [Next]_vars => PipelineInv'
<1> SUFFICES ASSUME PipelineInv, [Next]_vars PROVE PipelineInv'
  OBVIOUS
<1>1. QueuesInv'
  BY QueuesStep
<1>2. CASE Next
  <2>1. OwnTypeOK' /\ HandInv' /\ ExecutionInv'
    BY <1>2, OwnTypeStep, HandStep, ExecutionStep
  <2>2. ChainInv' /\ ResultInv' /\ FanOutInv'
    BY <1>2, ChainStep, ResultStep, FanOutStep
  <2> QED
    BY <1>1, <2>1, <2>2 DEF PipelineInv
<1>3. CASE UNCHANGED vars
  BY <1>1, <1>3 DEF vars, PipelineInv, OwnTypeOK, HandInv, ExecutionInv, ChainInv, ResultInv,
     HasResult, FanOutInv, SentTo
<1> QED
  BY <1>2, <1>3

LEMMA PipelineInvariant == Spec => []PipelineInv
  BY PipelineInit, PipelineStep, PTL DEF Spec

-----------------------------------------------------------------------------
(* What the pipeline guarantees.                                           *)

\* The pipeline is well typed: no dispatch is executed more often than
\* MaxDeliver allows (framework.Invoke is called once per delivery).
THEOREM TypeCorrect == Spec => []TypeOK
<1>1. PipelineInv => TypeOK
  <2> SUFFICES ASSUME PipelineInv PROVE TypeOK
    OBVIOUS
  <2>1. IQ!TypeOK
    BY DEF PipelineInv, QueuesInv, IP!QueueInv, IP!TypeOK, IQ!TypeOK, IP!Statuses, IQ!Statuses,
       IP!Steps, IQ!Steps, IP!Messages, IQ!Messages
  <2>2. DQ!TypeOK
    BY DEF PipelineInv, QueuesInv, DP!QueueInv, DP!TypeOK, DQ!TypeOK, DP!Statuses, DQ!Statuses,
       DP!Steps, DQ!Steps, DP!Messages, DQ!Messages
  <2>3. RQ!TypeOK
    BY DEF PipelineInv, QueuesInv, RP!QueueInv, RP!TypeOK, RQ!TypeOK, RP!Statuses, RQ!Statuses,
       RP!Steps, RQ!Steps, RP!Messages, RQ!Messages
  <2>4. executions \in [DQ!Messages -> 0..MaxDeliverD]
    BY QueueFacts, PipelineAssumption DEF PipelineInv, OwnTypeOK, ExecutionInv
  <2> QED
    BY <2>1, <2>2, <2>3, <2>4 DEF PipelineInv, OwnTypeOK, TypeOK
<1> QED
  BY PipelineInvariant, <1>1, PTL

\* The activator, the sidecars and the result stores use each queue as
\* consumeJSONMessages does: what is proved of DeliveryQueue holds of all three.
THEOREM QueuesAreDeliveryQueues == Spec => IQ!Spec /\ DQ!Spec /\ RQ!Spec
<1>1. PipelineInv /\ [Next]_vars =>
        /\ [IQ!Next]_(IQ!queueVars) /\ [DQ!Next]_(DQ!queueVars) /\ [RQ!Next]_(RQ!queueVars)
  <2> SUFFICES ASSUME PipelineInv, [Next]_vars
               PROVE  /\ IQ!Next \/ UNCHANGED iVars
                      /\ DQ!Next \/ UNCHANGED dVars
                      /\ RQ!Next \/ UNCHANGED rVars
    BY DEF IQ!queueVars, DQ!queueVars, RQ!queueVars
  <2> QED
    BY QueueSteps DEF vars
<1>2. Init => IQ!Init /\ DQ!Init /\ RQ!Init
  BY DEF Init
<1> QED
  BY PipelineInvariant, <1>1, <1>2, PTL DEF Spec, IQ!Spec, DQ!Spec, RQ!Spec

\* No accepted invocation vanishes between the API and ScyllaDB, however often
\* messages are redelivered, answers get lost and processes die, unless a process
\* dies on a last delivery or a message grows older than MaxAge.
THEOREM InvocationsAreNotLost == Spec => []NoInvocationLost
<1>1. ASSUME PipelineInv, NEW i \in Invocations, Accepted(i)
      PROVE  InFlight(i) \/ DeadLettered(i) \/ CutOff(i) \/ stored[i] # None
  <2> DEFINE m == InvocationOf(i)
             Known == InFlight(i) \/ DeadLettered(i) \/ CutOff(i)
  <2>1. m \in IQ!Messages /\ m \in iStream /\ m[1] = i
    BY <1>1, MessageParts DEF Accepted, InvocationOf
  <2>2. Known \/ m \in iHandled
    <3>1. \/ iStatus[m] \in IQ!Open \/ iStatus[m] = "expired" \/ m \in iHandled \cup iAbandoned
          \/ iDead[m] > 0 \/ IP!OnLastDelivery(m)
      BY <1>1, <2>1 DEF PipelineInv, QueuesInv, IP!QueueInv, IP!TypeOK, IP!ServerInv,
         IP!LastDeliveryInv, IP!Statuses, IQ!Open, IP!Messages, IQ!Messages
    <3> QED
      BY <3>1 DEF InFlight, DeadLettered, CutOff, IP!OnLastDelivery, IQ!OnLastDelivery
  <2>3. ASSUME NEW d \in dStream, d[1][1] = i PROVE Known \/ HasResult(i)
    <3>1. d \in DispatchesOf(i)
      BY <1>1, <2>3, QueueFacts DEF PipelineInv, DispatchesOf
    <3>2. \/ dStatus[d] \in DQ!Open \/ dStatus[d] = "expired" \/ d \in dHandled \cup dAbandoned
          \/ dDead[d] > 0 \/ DP!OnLastDelivery(d)
      BY <1>1, <2>3, <3>1 DEF PipelineInv, QueuesInv, DP!QueueInv, DP!TypeOK, DP!ServerInv,
         DP!LastDeliveryInv, DP!Statuses, DQ!Open, DP!Messages, DQ!Messages, DispatchesOf
    <3>3. d \in dHandled => HasResult(i)
      BY <1>1, <2>3 DEF PipelineInv, ChainInv
    <3> QED
      BY <3>1, <3>2, <3>3 DEF InFlight, DeadLettered, CutOff, DP!OnLastDelivery, DQ!OnLastDelivery
  <2>4. ASSUME NEW r \in rStream, r[1] = i PROVE Known \/ stored[i] # None
    <3>1. r \in ResultsOf(i)
      BY <1>1, <2>4, QueueFacts DEF PipelineInv, ResultsOf
    <3>2. \/ rStatus[r] \in RQ!Open \/ rStatus[r] = "expired" \/ r \in rHandled \cup rAbandoned
          \/ rDead[r] > 0 \/ RP!OnLastDelivery(r)
      BY <1>1, <2>4, <3>1 DEF PipelineInv, QueuesInv, RP!QueueInv, RP!TypeOK, RP!ServerInv,
         RP!LastDeliveryInv, RP!Statuses, RQ!Open, RP!Messages, RQ!Messages, ResultsOf
    <3>3. r \in rHandled => stored[i] # None
      BY <1>1, <2>4 DEF PipelineInv, ChainInv
    <3> QED
      BY <3>1, <3>2, <3>3 DEF InFlight, DeadLettered, CutOff, RP!OnLastDelivery, RQ!OnLastDelivery
  <2>5. m \in iHandled => HasResult(i) \/ \E d \in dStream : d[1][1] = i
    BY <1>1, <2>1 DEF PipelineInv, ChainInv
  <2> HIDE DEF Known, m
  <2>6. HasResult(i) => Known \/ stored[i] # None
    BY <2>4 DEF HasResult
  <2>7. Known \/ stored[i] # None
    BY <2>2, <2>3, <2>5, <2>6
  <2> QED
    BY <2>7 DEF Known
<1>2. PipelineInv => NoInvocationLost
  BY <1>1 DEF NoInvocationLost
<1> QED
  BY PipelineInvariant, <1>2, PTL

\* A result that was read from ScyllaDB is replaced only by another message of the
\* result stream, and the stream stores a second message for an invocation only
\* after the duplicates window of the first has ended: within the window the row
\* is stable whatever is redelivered, run again or written by another replica.
THEOREM StoredResultsAreStable == Spec => StoredResultStable
<1>1. PipelineInv /\ [Next]_vars => [RowsStable]_vars
  BY ResultStep
<1>2. PipelineInv /\ [Next]_vars =>
        [\A i \in Invocations :
           stored[i] # None /\ stored'[i] # stored[i] =>
             rLapsed[i] > 0 /\ \E r \in ResultsOf(i) : r[2] > 1 /\ r \in rStream]_vars
  BY <1>1 DEF RowsStable, Superseded
<1> QED
  BY PipelineInvariant, <1>2, PTL DEF Spec, StoredResultStable

\* An invocation is dispatched at most as often as it was delivered, to one worker
\* or to several, and each dispatch runs at most once per delivery.
THEOREM RetriesAreBounded == Spec => []RetriesBounded
<1>1. PipelineInv => RetriesBounded
  BY DEF PipelineInv, FanOutInv, SentTo, ExecutionInv, DispatchesOf, RetriesBounded
<1> QED
  BY PipelineInvariant, <1>1, PTL

\* A synchronous caller is answered only once the durable result exists.
THEOREM RepliesFollowPersistence == Spec => []RepliedAfterPersist
<1>1. ASSUME PipelineInv PROVE RepliedAfterPersist
  <2>1. rStream \subseteq RQ!Messages
    BY <1>1, QueueFacts DEF PipelineInv
  <2> QED
    BY <1>1, <2>1 DEF PipelineInv, ResultInv, HasResult, ResultsOf, RepliedAfterPersist
<1> QED
  BY PipelineInvariant, <1>1, PTL
=============================================================================
