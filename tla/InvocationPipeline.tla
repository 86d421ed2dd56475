------------------------- MODULE InvocationPipeline -------------------------
(***************************************************************************)
(* One serverless invocation from the API to ScyllaDB, over three durable  *)
(* queues, each an instance of DeliveryQueue:                              *)
(*                                                                         *)
(*   API --IQ--> activator --DQ--> worker sidecar --RQ--> result store     *)
(*                    \______________________________/|                    *)
(*                      (failure results)             sync reply           *)
(*                                                                         *)
(* The activator runs ProcessInvocation (pkg/activator/service.go), a      *)
(* sidecar HandleDispatch (pkg/workersidecar/service.go), a result-store   *)
(* replica HandleResult (pkg/resultconsumer/service.go).  Which worker     *)
(* acquireWorker yields, and when workers come and go, is left open here.  *)
(***************************************************************************)
EXTENDS Naturals, FiniteSets

CONSTANTS Invocations,   \* invocation IDs (the message IDs of the API)
          Workers,       \* names a serverless GPUUnit may have
          SyncRequests,  \* the invocations a caller may wait for
          Activator,     \* the activator process (one replica)
          ResultStores,  \* the result-store replicas
          MaxDeliverI,   \* MaxDeliver of the invocation consumer
          MaxDeliverD,   \* MaxDeliver of the dispatch consumers
          MaxDeliverR,   \* MaxDeliver of the result consumer
          MaxCopiesR,    \* bound: results stored for one invocation
          MayExpire,     \* whether the model runs long enough to reach MaxAge
          Outcomes,      \* states framework.Invoke may end in, as the sidecar sees it
          None           \* no message, no worker, no result

Dispatches == Invocations \X Workers
Handlers == Workers \cup {Activator}

VARIABLES
  iStream, iStatus, iDelivered, iCons, iDead, iHandled, iAbandoned,
  dStream, dStatus, dDelivered, dCons, dDead, dHandled, dAbandoned,
  rStream, rLapsed, rStatus, rDelivered, rCons, rDead, rHandled, rAbandoned,
  live,        \* workers whose GPUUnit exists
  hand,        \* how far the handler of the activator or a sidecar got
  result,      \* payload of each result message in the stream
  waiter,      \* the synchronous caller of each invocation
  reply,       \* what that caller was given
  stored,      \* the invocation's row in ScyllaDB
  executions   \* calls of framework.Invoke for each dispatch message

iVars == <<iStream, iStatus, iDelivered, iCons, iDead, iHandled, iAbandoned>>
dVars == <<dStream, dStatus, dDelivered, dCons, dDead, dHandled, dAbandoned>>
rVars == <<rStream, rLapsed, rStatus, rDelivered, rCons, rDead, rHandled, rAbandoned>>
ownVars == <<live, hand, result, waiter, reply, stored, executions>>
vars == <<iVars, dVars, rVars, ownVars>>

\* Invocation and dispatch IDs are taken to be repeated within their duplicates
\* window only: a client that uses an ID again after a day makes a new invocation,
\* and a dispatch repeated after a day is run once more, as on another worker.
NeverLapses(ids) == [id \in ids |-> 0]

IQ == INSTANCE DeliveryQueue WITH
  Ids <- Invocations, MaxCopies <- 1, Malformed <- {}, Consumers <- {Activator},
  MaxDeliver <- MaxDeliverI, NoMsg <- None,
  stream <- iStream, lapsed <- NeverLapses(Invocations), status <- iStatus, delivered <- iDelivered, cons <- iCons,
  deadLetters <- iDead, handled <- iHandled, abandoned <- iAbandoned

DQ == INSTANCE DeliveryQueue WITH
  Ids <- Dispatches, MaxCopies <- 1, Malformed <- {}, Consumers <- Workers,
  MaxDeliver <- MaxDeliverD, NoMsg <- None,
  stream <- dStream, lapsed <- NeverLapses(Dispatches), status <- dStatus, delivered <- dDelivered, cons <- dCons,
  deadLetters <- dDead, handled <- dHandled, abandoned <- dAbandoned

RQ == INSTANCE DeliveryQueue WITH
  Ids <- Invocations, MaxCopies <- MaxCopiesR, Malformed <- {}, Consumers <- ResultStores,
  MaxDeliver <- MaxDeliverR, NoMsg <- None,
  stream <- rStream, lapsed <- rLapsed, status <- rStatus, delivered <- rDelivered, cons <- rCons,
  deadLetters <- rDead, handled <- rHandled, abandoned <- rAbandoned

InvocationOf(i) == <<i, 1>>
DispatchesOf(i) == {d \in DQ!Messages : d[1][1] = i}
ResultsOf(i) == {r \in RQ!Messages : r[1] = i}

States == Outcomes \cup {"failed"}

\* A result names the handler and, by its times, the execution it comes from.
Results == [state : States, by : Handlers, run : Nat]

ASSUME PipelineAssumption ==
  /\ MaxDeliverI \in Nat \ {0} /\ MaxDeliverD \in Nat \ {0} /\ MaxDeliverR \in Nat \ {0}
  /\ SyncRequests \subseteq Invocations /\ MayExpire \in BOOLEAN
  /\ MaxCopiesR \in Nat \ {0}
  /\ Activator \notin Workers
  /\ None \notin IQ!Messages \cup DQ!Messages \cup RQ!Messages \cup Workers \cup Results
  /\ Outcomes \subseteq {"succeeded", "failed", "expired"}

\* A handler that has done nothing yet.
Fresh == [step |-> "start", worker |-> None, out |-> None]

\* Handler p returns (or its process dies): nothing of its locals survives.
Forget(p) == hand' = [hand EXCEPT ![p] = Fresh]

Init ==
  /\ IQ!Init /\ DQ!Init /\ RQ!Init
  /\ live = {}
  /\ hand = [p \in Handlers |-> Fresh]
  /\ result = [r \in RQ!Messages |-> None]
  /\ waiter = [i \in Invocations |-> "none"]
  /\ reply = [i \in Invocations |-> None]
  /\ stored = [i \in Invocations |-> None]
  /\ executions = [d \in DQ!Messages |-> 0]

-----------------------------------------------------------------------------
(* The API and the cluster.                                                *)

CreateServerlessInvocation(i) ==
  /\ IQ!Publish(i)
  /\ UNCHANGED <<dVars, rVars, ownVars>>

\* RequestSyncInvocation subscribes to its inbox before it publishes.
InvokeServerlessSync(i) ==
  /\ i \in SyncRequests
  /\ IQ!Publish(i)
  /\ waiter' = [waiter EXCEPT ![i] = "waiting"]
  /\ UNCHANGED <<dVars, rVars, live, hand, result, reply, stored, executions>>

\* The caller's context ends before a reply came.
SyncTimeout(i) ==
  /\ waiter[i] = "waiting"
  /\ waiter' = [waiter EXCEPT ![i] = "none"]
  /\ UNCHANGED <<iVars, dVars, rVars, live, hand, result, reply, stored, executions>>

CreateWorker(w) ==
  /\ w \notin live
  /\ live' = live \cup {w}
  /\ UNCHANGED <<iVars, dVars, rVars, hand, result, waiter, reply, stored, executions>>

\* DeleteGPUUnit, by a client or by the idle timeout: the Pod goes away with
\* whatever its sidecar was doing; the worker's durable consumer stays.
DeleteWorker(w) ==
  /\ w \in live
  /\ live' = live \ {w}
  /\ Forget(w)
  /\ DQ!Crash(w) \/ (dCons[w].pc = "idle" /\ UNCHANGED dVars)
  /\ UNCHANGED <<iVars, rVars, result, waiter, reply, stored, executions>>

-----------------------------------------------------------------------------
(* ProcessInvocation.                                                      *)

FetchInvocation(i) ==
  /\ IQ!Fetch(Activator, InvocationOf(i))
  /\ UNCHANGED <<dVars, rVars, ownVars>>

InHandler(p) == IF p = Activator THEN iCons[p].pc = "handler" ELSE dCons[p].pc = "handler"

\* The invocation handler p works on.
Current(p) == IF p = Activator THEN iCons[p].msg[1] ELSE dCons[p].msg[1][1]

Enter(p, h) ==
  /\ InHandler(p)
  /\ hand[p].step = "start"
  /\ hand' = [hand EXCEPT ![p] = h]

\* acquireWorker yields a worker that was ready when it looked.
acquireWorker(w) ==
  /\ w \in live
  /\ Enter(Activator, [Fresh EXCEPT !.step = "dispatch", !.worker = w])
  /\ UNCHANGED <<iVars, dVars, rVars, live, result, waiter, reply, stored, executions>>

\* No unit carries the request ID: errNoServerlessWorkerTemplate is the one
\* error that is not retried but answered with a failed result.
noWorkerTemplate ==
  /\ live = {}
  /\ Enter(Activator, [Fresh EXCEPT !.step = "persist", !.out = "failed"])
  /\ UNCHANGED <<iVars, dVars, rVars, live, result, waiter, reply, stored, executions>>

\* MUTANT of PublishDispatch: nothing is published when the worker is gone.
PublishDispatchIfLive ==
  LET w == hand[Activator].worker
      d == <<Current(Activator), w>>
  IN  /\ hand[Activator].step = "dispatch"
      /\ IF w \in live THEN DQ!PublishEffect(d) ELSE UNCHANGED <<dStream, dStatus>>
      /\ UNCHANGED <<dDelivered, dCons, dDead, dHandled, dAbandoned>>

\* PublishWorkerDispatch, message ID "dispatch-<invocation>-<worker>".
PublishDispatch ==
  LET d == <<Current(Activator), hand[Activator].worker>>
  IN  /\ hand[Activator].step = "dispatch"
      /\ DQ!PublishEffect(d)
      /\ UNCHANGED <<dDelivered, dCons, dDead, dHandled, dAbandoned>>

dispatchToWorker ==
  /\ PublishDispatch
  /\ IQ!HandlerOK(Activator)
  /\ Forget(Activator)
  /\ UNCHANGED <<rVars, live, result, waiter, reply, stored, executions>>

\* The stream stored the dispatch but its acknowledgement did not arrive: the
\* handler returns an error although the dispatch is on its way.
dispatchUnconfirmed ==
  /\ PublishDispatch
  /\ IQ!HandlerErr(Activator)
  /\ Forget(Activator)
  /\ UNCHANGED <<rVars, live, result, waiter, reply, stored, executions>>

\* A retryable error of acquireWorker (API failure, worker not ready in time,
\* backpressure), or a publication that failed.
ProcessInvocationErr ==
  /\ IQ!HandlerErr(Activator)
  /\ Forget(Activator)
  /\ UNCHANGED <<dVars, rVars, live, result, waiter, reply, stored, executions>>

-----------------------------------------------------------------------------
(* HandleDispatch.                                                         *)

\* MUTANT of FetchDispatch: a dispatch that was seen before is skipped.
FetchDispatchOnce(d) ==
  /\ d[1][2] \in live
  /\ dDelivered[d] = 0
  /\ DQ!Fetch(d[1][2], d)
  /\ UNCHANGED <<iVars, rVars, ownVars>>

\* The durable consumer of a worker carries its dispatches only.
FetchDispatch(d) ==
  /\ d[1][2] \in live
  /\ DQ!Fetch(d[1][2], d)
  /\ UNCHANGED <<iVars, rVars, ownVars>>

\* MUTANT of Invoke: the sidecar calls the framework again on its own.
InvokeAgain(w, out) ==
  /\ InHandler(w)
  /\ hand[w].step \in {"start", "persist"}
  /\ hand' = [hand EXCEPT ![w] = [Fresh EXCEPT !.step = "persist", !.out = out]]
  /\ executions' = [executions EXCEPT ![dCons[w].msg] = @ + 1]
  /\ UNCHANGED <<iVars, dVars, rVars, live, result, waiter, reply, stored>>

\* framework.Invoke: a redelivered dispatch is executed again.
Invoke(w, out) ==
  /\ Enter(w, [Fresh EXCEPT !.step = "persist", !.out = out])
  /\ executions' = [executions EXCEPT ![dCons[w].msg] = @ + 1]
  /\ UNCHANGED <<iVars, dVars, rVars, live, result, waiter, reply, stored>>

\* A failed PublishInvocationResult, before or after the result was stored.
HandleDispatchErr(w) ==
  /\ hand[w].step # "start"
  /\ DQ!HandlerErr(w)
  /\ Forget(w)
  /\ UNCHANGED <<iVars, rVars, live, result, waiter, reply, stored, executions>>

-----------------------------------------------------------------------------
(* PublishInvocationResult, by the activator or by a sidecar.              *)

ResultOf(p) ==
  [state |-> hand[p].out, by |-> p,
   run |-> IF p = Activator THEN 0 ELSE executions[dCons[p].msg]]

\* MUTANT of PersistResult: the message ID names the delivery, so the stream does
\* not recognise the result of a second run and stores both.
PersistResultPerDelivery(p) ==
  LET r == <<Current(p), IF p = Activator THEN iCons[p].dc ELSE dCons[p].dc>>
  IN  /\ InHandler(p) /\ hand[p].step = "persist"
      /\ rStream' = rStream \cup {r}
      /\ rStatus' = [rStatus EXCEPT ![r] = IF @ = "absent" THEN "available" ELSE @]
      /\ UNCHANGED <<rLapsed, rDelivered, rCons, rDead, rHandled, rAbandoned>>
      /\ result' = [result EXCEPT ![r] = IF r \in rStream THEN @ ELSE ResultOf(p)]
      /\ hand' = [hand EXCEPT ![p].step = "reply"]
      /\ UNCHANGED <<iVars, dVars, live, waiter, reply, stored, executions>>

\* js.Publish with message ID "result-<invocation>": only the first result of
\* an invocation is kept, until its duplicates window ends.
PersistResult(p) ==
  LET i == Current(p)
  IN  /\ InHandler(p) /\ hand[p].step = "persist"
      /\ RQ!PublishEffect(i)
      /\ UNCHANGED <<rDelivered, rCons, rDead, rHandled, rAbandoned>>
      /\ result' = [result EXCEPT ![RQ!Copy(i)] =
                      IF RQ!Copy(i) \in rStream THEN @ ELSE ResultOf(p)]
      /\ hand' = [hand EXCEPT ![p].step = "reply"]
      /\ UNCHANGED <<iVars, dVars, live, waiter, reply, stored, executions>>

HandlerReturnsNil(p) ==
  IF p = Activator THEN IQ!HandlerOK(p) /\ UNCHANGED dVars
                   ELSE DQ!HandlerOK(p) /\ UNCHANGED iVars

\* MUTANT of ReplyDelivered: the caller is answered before the result is stored.
ReplyDeliveredFirst(p) ==
  LET i == Current(p)
  IN  /\ InHandler(p) /\ hand[p].step = "persist"
      /\ waiter[i] = "waiting"
      /\ waiter' = [waiter EXCEPT ![i] = "answered"]
      /\ reply' = [reply EXCEPT ![i] = ResultOf(p)]
      /\ UNCHANGED <<iVars, dVars, rVars, live, hand, result, stored, executions>>

\* nc.Publish to the caller's inbox; the caller takes the first message there.
ReplyDelivered(p) ==
  LET i == Current(p)
  IN  /\ InHandler(p) /\ hand[p].step = "reply"
      /\ waiter[i] = "waiting"
      /\ waiter' = [waiter EXCEPT ![i] = "answered"]
      /\ reply' = [reply EXCEPT ![i] = ResultOf(p)]
      /\ HandlerReturnsNil(p)
      /\ Forget(p)
      /\ UNCHANGED <<rVars, live, result, stored, executions>>

\* No inbox, nobody listening any more, or the message is lost: core NATS
\* delivers at most once.
ReplyUnheard(p) ==
  /\ InHandler(p) /\ hand[p].step = "reply"
  /\ HandlerReturnsNil(p)
  /\ Forget(p)
  /\ UNCHANGED <<rVars, live, result, waiter, reply, stored, executions>>

-----------------------------------------------------------------------------
(* HandleResult.                                                           *)

FetchResult(s, r) ==
  /\ RQ!Fetch(s, r)
  /\ UNCHANGED <<iVars, dVars, ownVars>>

\* SaveInvocationResult is an upsert of the row of the invocation.
SaveInvocationResult(s) ==
  /\ rCons[s].pc = "handler"
  /\ stored' = [stored EXCEPT ![rCons[s].msg[1]] = result[rCons[s].msg]]

HandleResult(s) ==
  /\ SaveInvocationResult(s)
  /\ RQ!HandlerOK(s)
  /\ UNCHANGED <<iVars, dVars, live, hand, result, waiter, reply, executions>>

\* The write fails, or it is applied and only its answer is lost.
HandleResultErr(s) ==
  /\ SaveInvocationResult(s) \/ UNCHANGED stored
  /\ RQ!HandlerErr(s)
  /\ UNCHANGED <<iVars, dVars, live, hand, result, waiter, reply, executions>>

-----------------------------------------------------------------------------
(* The rest of the three consumer loops.                                   *)

activatorLoop ==
  /\ \/ IQ!Ack(Activator) \/ IQ!NakWithDelay(Activator) \/ IQ!AnswerLost(Activator)
     \/ IQ!publishDeadLetter(Activator) \/ IQ!Term(Activator)
  /\ UNCHANGED <<dVars, rVars, ownVars>>

sidecarLoop(w) ==
  /\ w \in live
  /\ \/ DQ!Ack(w) \/ DQ!NakWithDelay(w) \/ DQ!AnswerLost(w)
     \/ DQ!publishDeadLetter(w) \/ DQ!Term(w)
  /\ UNCHANGED <<iVars, rVars, ownVars>>

resultStoreLoop(s) ==
  /\ \/ RQ!Ack(s) \/ RQ!NakWithDelay(s) \/ RQ!AnswerLost(s)
     \/ RQ!publishDeadLetter(s) \/ RQ!Term(s)
  /\ UNCHANGED <<iVars, dVars, ownVars>>

CrashActivator ==
  /\ IQ!Crash(Activator)
  /\ Forget(Activator)
  /\ UNCHANGED <<dVars, rVars, live, result, waiter, reply, stored, executions>>

CrashSidecar(w) ==
  /\ w \in live
  /\ DQ!Crash(w)
  /\ Forget(w)
  /\ UNCHANGED <<iVars, rVars, live, result, waiter, reply, stored, executions>>

CrashResultStore(s) ==
  /\ RQ!Crash(s)
  /\ UNCHANGED <<iVars, dVars, ownVars>>

Redeliver ==
  \/ \E m \in IQ!Messages : IQ!AckWaitExpires(m) /\ UNCHANGED <<dVars, rVars, ownVars>>
  \/ \E d \in DQ!Messages : DQ!AckWaitExpires(d) /\ UNCHANGED <<iVars, rVars, ownVars>>
  \/ \E r \in RQ!Messages : RQ!AckWaitExpires(r) /\ UNCHANGED <<iVars, dVars, ownVars>>

\* The stream drops a message that has reached MaxAge.
Expire ==
  /\ MayExpire
  /\ \/ \E m \in IQ!Messages : IQ!MessageExpires(m) /\ UNCHANGED <<dVars, rVars, ownVars>>
     \/ \E d \in DQ!Messages : DQ!MessageExpires(d) /\ UNCHANGED <<iVars, rVars, ownVars>>
     \/ \E r \in RQ!Messages : RQ!MessageExpires(r) /\ UNCHANGED <<iVars, dVars, ownVars>>

\* A result published for the invocation from now on is stored as a new message.
ForgetResultId(i) ==
  /\ RQ!WindowEnds(i)
  /\ UNCHANGED <<iVars, dVars, ownVars>>

Next ==
  \/ \E i \in Invocations :
       CreateServerlessInvocation(i) \/ InvokeServerlessSync(i) \/ SyncTimeout(i)
         \/ FetchInvocation(i) \/ ForgetResultId(i)
  \/ \E w \in Workers : CreateWorker(w) \/ DeleteWorker(w) \/ acquireWorker(w)
  \/ noWorkerTemplate \/ dispatchToWorker \/ dispatchUnconfirmed \/ ProcessInvocationErr
  \/ \E d \in DQ!Messages : FetchDispatch(d)
  \/ \E w \in Workers, out \in Outcomes : Invoke(w, out)
  \/ \E w \in Workers : HandleDispatchErr(w) \/ sidecarLoop(w) \/ CrashSidecar(w)
  \/ \E p \in Handlers : PersistResult(p) \/ ReplyDelivered(p) \/ ReplyUnheard(p)
  \/ \E s \in ResultStores, r \in RQ!Messages : FetchResult(s, r)
  \/ \E s \in ResultStores :
       HandleResult(s) \/ HandleResultErr(s) \/ resultStoreLoop(s) \/ CrashResultStore(s)
  \/ activatorLoop \/ CrashActivator \/ Redeliver \/ Expire

Spec == Init /\ [][Next]_vars

\* The handlers' own steps.
activatorHandler ==
  \/ \E w \in Workers : acquireWorker(w)
  \/ noWorkerTemplate \/ dispatchToWorker \/ dispatchUnconfirmed \/ ProcessInvocationErr
  \/ PersistResult(Activator) \/ ReplyDelivered(Activator) \/ ReplyUnheard(Activator)

sidecarHandler(w) ==
  \/ \E out \in Outcomes : Invoke(w, out)
  \/ HandleDispatchErr(w)
  \/ PersistResult(w) \/ ReplyDelivered(w) \/ ReplyUnheard(w)

\* As in DeliveryQueue: handlers return (every call they make has a timeout),
\* loops go on, ack waits expire, and a message that is available again and
\* again is fetched in the end.  Nothing is assumed of clients, of the result of
\* an operation, of workers, or of the age limits.
Fairness ==
  /\ WF_vars(activatorHandler) /\ WF_vars(activatorLoop)
  /\ \A w \in Workers : WF_vars(sidecarHandler(w)) /\ WF_vars(sidecarLoop(w))
  /\ \A s \in ResultStores :
       WF_vars(HandleResult(s) \/ HandleResultErr(s)) /\ WF_vars(resultStoreLoop(s))
  /\ \A i \in Invocations : SF_vars(FetchInvocation(i))
  /\ \A d \in DQ!Messages : SF_vars(FetchDispatch(d))
  /\ \A r \in RQ!Messages : SF_vars(\E s \in ResultStores : FetchResult(s, r))
  /\ WF_vars(Redeliver)

FairSpec == Spec /\ Fairness

-----------------------------------------------------------------------------
(* Properties.                                                             *)

\* Type invariant of the composition.
TypeOK ==
  /\ IQ!TypeOK /\ DQ!TypeOK /\ RQ!TypeOK
  /\ live \subseteq Workers
  /\ hand \in [Handlers -> [step : {"start", "dispatch", "persist", "reply"},
                            worker : Workers \cup {None}, out : States \cup {None}]]
  /\ result \in [RQ!Messages -> Results \cup {None}]
  /\ waiter \in [Invocations -> {"none", "waiting", "answered"}]
  /\ reply \in [Invocations -> Results \cup {None}]
  /\ stored \in [Invocations -> Results \cup {None}]
  /\ executions \in [DQ!Messages -> 0..MaxDeliverD]

Accepted(i) == InvocationOf(i) \in iStream

\* Some queue still has work to do for the invocation.
InFlight(i) ==
  \/ iStatus[InvocationOf(i)] \in IQ!Open \/ IQ!OnLastDelivery(InvocationOf(i))
  \/ \E d \in DispatchesOf(i) : dStatus[d] \in DQ!Open \/ DQ!OnLastDelivery(d)
  \/ \E r \in ResultsOf(i) : rStatus[r] \in RQ!Open \/ RQ!OnLastDelivery(r)

\* An operator finds the invocation on the dead-letter subject.
DeadLettered(i) ==
  \/ iDead[InvocationOf(i)] > 0
  \/ \E d \in DispatchesOf(i) : dDead[d] > 0
  \/ \E r \in ResultsOf(i) : rDead[r] > 0

\* Nothing but the history tells what became of the invocation: a process died
\* on a last delivery, or the stream dropped a message of the invocation.
CutOff(i) ==
  \/ InvocationOf(i) \in iAbandoned \/ iStatus[InvocationOf(i)] = "expired"
  \/ \E d \in DispatchesOf(i) : d \in dAbandoned \/ dStatus[d] = "expired"
  \/ \E r \in ResultsOf(i) : r \in rAbandoned \/ rStatus[r] = "expired"

\* End to end, no accepted invocation vanishes: until its result is stored,
\* some queue still holds it or it was dead-lettered, unless a process died on
\* a last delivery or the stream's MaxAge dropped one of its messages.  Each
\* handler publishes before its message is acknowledged.
NoInvocationLost ==
  \A i \in Invocations :
     Accepted(i) => InFlight(i) \/ DeadLettered(i) \/ CutOff(i) \/ stored[i] # None

\* A result a client has read from ScyllaDB is only replaced when a second one
\* was published after the duplicates window of the first had ended: until then
\* the stream keeps the first, however often the invocation runs, on whichever
\* worker and with whatever outcome, and in whatever order redelivered results
\* are written by the replicas.
StoredResultStable ==
  [][\A i \in Invocations :
        stored[i] # None /\ stored'[i] # stored[i] =>
           rLapsed[i] > 0 /\ \E r \in ResultsOf(i) : r[2] > 1 /\ r \in rStream]_vars

\* The same without the condition: a client never sees a result change.
ResultNeverReplaced ==
  [][\A i \in Invocations : stored[i] # None => stored'[i] = stored[i]]_vars

\* Retries are bounded end to end: an invocation is dispatched at most as often
\* as it was delivered, to one worker or to several, and each dispatch runs at
\* most once per delivery, also when acknowledgements are lost and processes
\* restart.
RetriesBounded ==
  \A i \in Invocations :
     /\ Cardinality(DispatchesOf(i) \cap dStream) <= iDelivered[InvocationOf(i)]
     /\ \A d \in DispatchesOf(i) : executions[d] <= dDelivered[d]

\* A synchronous caller is only told of an outcome some handler reached, and
\* only once a durable result exists (js.Publish comes before nc.Publish).
RepliedAfterPersist ==
  \A i \in Invocations :
     reply[i] # None => \E r \in ResultsOf(i) : r \in rStream /\ result[r] # None

\* nats.go: PublishInvocationResult "persists one invocation result and also
\* replies directly to a sync waiter": caller and store see the same result.
ReplyIsPersistedResult ==
  \A i \in Invocations : reply[i] # None => \E r \in ResultsOf(i) : reply[i] = result[r]

\* An invocation ends where a client or an operator can see it: its result is
\* stored, or it was dead-lettered.
EndsVisibly(i) == Accepted(i) ~> (stored[i] # None \/ DeadLettered(i))

\* Once the workers stay up, every accepted invocation ends with a stored result
\* or a dead letter, as long as no process dies on a last delivery and nothing
\* grows older than MaxAge; crashes on earlier deliveries are survived.
EveryInvocationEnds ==
  <>[](live = Workers) /\ [](\A i \in Invocations : ~CutOff(i)) =>
     \A i \in Invocations : EndsVisibly(i)

\* The same without conditions: no invocation disappears without a trace.
NoTracelessEnd == \A i \in Invocations : EndsVisibly(i)
=============================================================================
