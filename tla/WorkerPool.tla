------------------------------ MODULE WorkerPool ------------------------------
(***************************************************************************)
(* The activator's worker pool for one serverless request ID               *)
(* (pkg/activator): the invocation goroutine that finds or creates a       *)
(* worker (acquireWorker), the lifecycle goroutine that prewarms and       *)
(* removes workers, the metrics goroutine, and the in-memory registry and  *)
(* metric table they share.  Workers are GPUUnits; their controller, their *)
(* sidecars and users act at any time.                                     *)
(*                                                                         *)
(* Units are numbered in the order of their names, which decides what Pick *)
(* and firstPendingWorker choose.  Time is a counter; 0 is Go's zero time. *)
(***************************************************************************)
EXTENDS Naturals, FiniteSets, FiniteSetsExt

CONSTANTS
  Invocations,
  Names,           \* unit names that carry the request ID, as numbers
  Managed,         \* those with the activator's "-worker-" stem
  WorkerName,      \* generatedWorkerName of each invocation
  WarmName,        \* generatedWorkerName of a prewarm source
  MinAvailable,    \* serverless.minAvailableCount
  IdleTimeout,     \* serverless.idleTimeoutSeconds
  MaxPending,      \* maxPendingWorkersPerRequestID
  MaxDeliver,      \* invocationMaxDeliver
  MaxTime,         \* bound of the clock
  MaxMetrics,      \* bound of the undelivered metrics
  LifecycleLoop,   \* lifecycleInterval > 0
  MaxDisturbed     \* how often a unit fails, becomes unready or is deleted by a user

ASSUME PoolAssumption ==
  /\ "other" \notin Invocations
  /\ Names \subseteq Nat \ {0} /\ IsFiniteSet(Names)
  /\ Managed \subseteq Names
  /\ WorkerName \in [Invocations -> Managed]
  /\ WarmName \in Managed
  /\ MinAvailable \in Nat /\ MaxPending \in Nat \ {0}
  /\ MaxDeliver \in Nat \ {0}
  /\ IdleTimeout \in Nat \ {0}
  /\ MaxTime \in Nat \ {0} /\ MaxMetrics \in Nat
  /\ LifecycleLoop \in BOOLEAN /\ MaxDisturbed \in Nat

VARIABLES
  unit,        \* phase of each GPUUnit in the API server; "absent": none
  creator,     \* the invocation whose operation created it, or "other"
  registry,    \* WorkerRegistry.entries
  table,       \* LifecycleManager.workers
  act,         \* the invocation goroutine
  life,        \* the lifecycle goroutine
  todo,        \* invocations whose message is not settled
  dispatched,  \* dispatches in the workers' streams
  busy,        \* the invocations a worker executes
  metrics,     \* published metrics that the activator has not acknowledged
  clock,
  up,          \* workers whose sidecar consumes dispatches
  born,        \* when the unit was created
  removed,     \* units the lifecycle goroutine deleted and nobody recreated
  gone,        \* those of them deleted before the current handler's list
  disturbed,   \* how often a unit was disturbed
  delivered    \* how often the queue delivered each invocation

apiVars == <<unit, creator, born>>
history == <<removed, gone, disturbed, delivered>>
sidecarVars == <<up, busy, metrics>>
vars == <<unit, creator, registry, table, act, life, todo, dispatched, busy,
          metrics, clock, up, born, removed, gone, disturbed, delivered>>

NoWorker == 0
ActIdle == [pc |-> "idle"]
LifeIdle == [pc |-> "idle"]
Unknown == [seen |-> 0, activity |-> 0, inflight |-> 0]

Live(snap) == {n \in Names : snap[n] # "absent"}
ReadyIn(snap) == {n \in Names : snap[n] = "ready"}
Pending(snap) == Live(snap) \ ReadyIn(snap)

Init ==
  /\ unit \in {u \in [Names -> {"absent", "new", "failed"}] :
                 \A n \in Names : u[n] = "absent" <=> n \in Managed}
  /\ creator = [n \in Names |-> "other"]
  /\ registry = {}
  /\ table = [n \in Names |-> Unknown]
  /\ act = ActIdle
  /\ life = LifeIdle
  /\ todo = Invocations
  /\ dispatched = {}
  /\ busy = [n \in Names |-> {}]
  /\ metrics = {}
  /\ clock = 1
  /\ up = {}
  /\ born = [n \in Names |-> 1]
  /\ removed = {} /\ gone = {}
  /\ disturbed = 0
  /\ delivered = [i \in Invocations |-> 0]

-----------------------------------------------------------------------------
(***************************************************************************)
(* WorkerRegistry.  Sync keeps exactly the ready units it is given: what   *)
(* another goroutine registered from a newer list is dropped.              *)
(***************************************************************************)
\* MUTANT of Sync: units that are no longer ready stay registered.
SyncAdds(snap) == registry' = registry \cup ReadyIn(snap)

Sync(snap) == registry' = ReadyIn(snap)

Pick == Min(registry)

firstPendingWorker(snap) == Min(Pending(snap))
pendingManagedWorkers(snap) == Cardinality(Pending(snap) \cap Managed)

-----------------------------------------------------------------------------
(***************************************************************************)
(* acquireWorker, in the invocation goroutine.                             *)
(***************************************************************************)
ProcessInvocation(i) ==
  /\ act.pc = "idle"
  /\ i \in todo
  /\ act' = [pc |-> "list", inv |-> i]
  /\ delivered' = [delivered EXCEPT ![i] = @ + 1]
  /\ UNCHANGED <<apiVars, registry, table, life, todo, dispatched, sidecarVars, clock,
                 removed, gone, disturbed>>

listServerlessUnits ==
  /\ act.pc = "list"
  /\ act' = [pc |-> "sync", inv |-> act.inv, snap |-> unit]
  /\ gone' = removed
  /\ UNCHANGED <<apiVars, registry, table, life, todo, dispatched, sidecarVars, clock,
                 removed, disturbed, delivered>>

syncListed ==
  /\ act.pc = "sync"
  /\ Sync(act.snap)
  /\ act' = [act EXCEPT !.pc = "pick"]
  /\ UNCHANGED <<apiVars, table, life, todo, dispatched, sidecarVars, clock, history>>

\* Go to a step that concerns one worker, or return an error.
With(pc, n) == [pc |-> pc, inv |-> act.inv, snap |-> act.snap, worker |-> n]
Err(cause) == [pc |-> "failed", inv |-> act.inv, cause |-> cause]

pickRegistered ==
  /\ act.pc = "pick"
  /\ registry # {}
  /\ act' = With("dispatch", Pick)
  /\ UNCHANGED <<apiVars, registry, table, life, todo, dispatched, sidecarVars, clock, history>>

\* errNoServerlessWorkerTemplate: a failed result is published instead.
noWorkerTemplate ==
  /\ act.pc = "pick"
  /\ registry = {} /\ Live(act.snap) = {}
  /\ todo' = todo \ {act.inv}
  /\ act' = ActIdle
  /\ UNCHANGED <<apiVars, registry, table, life, dispatched, sidecarVars, clock, history>>

awaitPending ==
  /\ act.pc = "pick"
  /\ registry = {} /\ Live(act.snap) # {}
  /\ act' = IF Pending(act.snap) # {}
            THEN With("waitPending", firstPendingWorker(act.snap))
            ELSE With("create", NoWorker)
  /\ UNCHANGED <<apiVars, registry, table, life, todo, dispatched, sidecarVars, clock, history>>

\* One round of the poll: a unit that cannot be read is not ready.
waitForWorkerReady ==
  /\ act.pc \in {"waitPending", "waitCreated"}
  /\ unit[act.worker] = "ready"
  /\ act' = With("register", act.worker)
  /\ UNCHANGED <<apiVars, registry, table, life, todo, dispatched, sidecarVars, clock, history>>

\* The registry is left with the worker that was read as ready alone, whatever
\* became of it and of the others since.
registerReady ==
  /\ act.pc = "register"
  /\ registry' = {act.worker}
  /\ act' = With("dispatch", act.worker)
  /\ UNCHANGED <<apiVars, table, life, todo, dispatched, sidecarVars, clock, history>>

\* MUTANT of readyWaitExpires: the first wait that expires fails the handler.
readyWaitGivesUp ==
  /\ act.pc \in {"waitPending", "waitCreated"}
  /\ act' = Err("wait")
  /\ UNCHANGED <<apiVars, registry, table, life, todo, dispatched, sidecarVars, clock, history>>

\* MUTANT of readyWaitExpires: the wait ends only when the unit has failed.
readyWaitUntilFailed ==
  /\ act.pc \in {"waitPending", "waitCreated"}
  /\ unit[act.worker] = "failed"
  /\ act' = IF act.pc = "waitPending" THEN With("create", NoWorker) ELSE Err("wait")
  /\ UNCHANGED <<apiVars, registry, table, life, todo, dispatched, sidecarVars, clock, history>>

\* After the first wait a worker is created; after the second the handler fails.
readyWaitExpires ==
  /\ act.pc \in {"waitPending", "waitCreated"}
  /\ act' = IF act.pc = "waitPending" THEN With("create", NoWorker) ELSE Err("wait")
  /\ UNCHANGED <<apiVars, registry, table, life, todo, dispatched, sidecarVars, clock, history>>

\* MUTANT of underPendingLimit: the limit itself is still accepted.
underPendingLimitOrAt(snap) == pendingManagedWorkers(snap) <= MaxPending

underPendingLimit(snap) == pendingManagedWorkers(snap) < MaxPending

backpressure ==
  /\ act.pc = "create"
  /\ ~underPendingLimit(act.snap)
  /\ act' = Err("pending")
  /\ UNCHANGED <<apiVars, registry, table, life, todo, dispatched, sidecarVars, clock, history>>

\* CreateGPUUnit: a name in use is a conflict, unless the same operation made it.
CreateUnit(n, source) ==
  /\ unit[n] = "absent"
  /\ unit' = [unit EXCEPT ![n] = "new"]
  /\ creator' = [creator EXCEPT ![n] = source]
  /\ born' = [born EXCEPT ![n] = clock]
  /\ removed' = removed \ {n}
  /\ gone' = gone \ {n}
  /\ UNCHANGED <<disturbed, delivered>>

createWorker ==
  /\ act.pc = "create"
  /\ underPendingLimit(act.snap)
  /\ LET n == WorkerName[act.inv] IN
     \/ /\ CreateUnit(n, act.inv)
        /\ act' = With("waitCreated", n)
     \/ /\ unit[n] # "absent" /\ creator[n] = act.inv
        /\ act' = With("waitCreated", n)
        /\ UNCHANGED <<apiVars, history>>
     \/ /\ unit[n] # "absent" /\ creator[n] # act.inv
        /\ act' = Err("conflict")
        /\ UNCHANGED <<apiVars, history>>
  /\ UNCHANGED <<registry, table, life, todo, dispatched, sidecarVars, clock>>

dispatchToWorker ==
  /\ act.pc = "dispatch"
  /\ dispatched' = dispatched \cup {<<act.inv, act.worker>>}
  /\ todo' = todo \ {act.inv}
  /\ act' = ActIdle
  /\ UNCHANGED <<apiVars, registry, table, life, sidecarVars, clock, history>>

\* Any call to the API server or to the queue may fail.  A create always does
\* when the template mounts storages: the clone copies the mounts, and the
\* storages are taken.
acquireFails ==
  /\ \/ act.pc \in {"list", "create"}
     \/ act.pc = "pick" /\ registry = {} /\ Live(act.snap) = {}
  /\ act' = Err("call")
  /\ UNCHANGED <<apiVars, registry, table, life, todo, dispatched, sidecarVars, clock, history>>

\* The stream may have stored the dispatch all the same.
dispatchFails ==
  /\ act.pc = "dispatch"
  /\ dispatched' \in {dispatched, dispatched \cup {<<act.inv, act.worker>>}}
  /\ act' = Err("call")
  /\ UNCHANGED <<apiVars, registry, table, life, todo, sidecarVars, clock, history>>

\* MUTANT of finishErr: the number of deliveries is not looked at.
finishErrRetries ==
  /\ act.pc = "failed"
  /\ act' = ActIdle
  /\ UNCHANGED <<apiVars, registry, table, life, todo, dispatched, sidecarVars, clock, history>>

\* The queue's side of a handler that returned an error (DeliveryQueue has its
\* steps): the message is delivered again, or dead-lettered after the last time.
finishErr ==
  /\ act.pc = "failed"
  /\ todo' = IF delivered[act.inv] < MaxDeliver THEN todo ELSE todo \ {act.inv}
  /\ act' = ActIdle
  /\ UNCHANGED <<apiVars, registry, table, life, dispatched, sidecarVars, clock, history>>

-----------------------------------------------------------------------------
(***************************************************************************)
(* LifecycleManager.Reconcile, in the lifecycle goroutine.                 *)
(***************************************************************************)
lifeVars == <<table, act, todo, dispatched, sidecarVars, clock>>

lifecycleList ==
  /\ LifecycleLoop
  /\ life.pc = "idle"
  /\ Live(unit) # {}
  /\ life' = [pc |-> "sync", snap |-> unit]
  /\ UNCHANGED <<lifeVars, apiVars, registry, history>>

Available(snap) == Cardinality({n \in Names : snap[n] \in {"ready", "progressing", "unready"}})

lifecycleSync ==
  /\ life.pc = "sync"
  /\ Sync(life.snap)
  /\ life' = [pc |-> "warm", snap |-> life.snap, created |-> 0, error |-> FALSE,
              missing |-> IF MinAvailable > Available(life.snap)
                          THEN MinAvailable - Available(life.snap) ELSE 0]
  /\ UNCHANGED <<lifeVars, apiVars, history>>

\* One round of the loop in ensureMinAvailable.  The name of a prewarm worker
\* keeps 8 characters of its source, "warm-" and three base-36 digits of the
\* time, so the sources of 36^9 ns (28 hours) give one name.
ensureMinAvailable ==
  /\ life.pc = "warm" /\ life.missing > 0
  /\ \/ /\ CreateUnit(WarmName, "other")
        /\ life' = [life EXCEPT !.missing = @ - 1, !.created = @ + 1]
     \/ /\ unit[WarmName] # "absent"
        /\ life' = [life EXCEPT !.missing = @ - 1]
        /\ UNCHANGED <<apiVars, history>>
  /\ UNCHANGED <<lifeVars, registry>>

prewarmFails ==
  /\ life.pc = "warm" /\ life.missing > 0
  /\ life' = [life EXCEPT !.missing = @ - 1, !.error = TRUE]
  /\ UNCHANGED <<lifeVars, registry, apiVars, history>>

idleSince(n) == IF table[n].activity # 0 THEN table[n].activity ELSE table[n].seen

\* Workers that reported, have nothing in flight and were idle long enough.
IdleCandidates(snap) ==
  {n \in ReadyIn(snap) \cap Managed :
     /\ table[n].seen # 0
     /\ table[n].inflight = 0
     /\ clock - idleSince(n) >= IdleTimeout}

\* MUTANT of Surplus: every ready worker counts as one too many.
SurplusAll(snap) == Cardinality(ReadyIn(snap))

Surplus(snap) ==
  IF Cardinality(ReadyIn(snap)) > MinAvailable
  THEN Cardinality(ReadyIn(snap)) - MinAvailable ELSE 0

\* The candidates idle longest are chosen, as many as are above the minimum.
deleteIdleWorkers ==
  /\ life.pc = "warm" /\ life.missing = 0
  /\ LET cands == IdleCandidates(life.snap)
         count == Min({Surplus(life.snap), Cardinality(cands)})
     IN \E chosen \in kSubset(count, cands) :
          /\ \A n \in chosen, m \in cands \ chosen : idleSince(n) <= idleSince(m)
          /\ life' = [pc |-> "delete", snap |-> life.snap, victims |-> chosen,
                      available |-> Available(life.snap) + life.created, error |-> life.error]
  /\ UNCHANGED <<lifeVars, apiVars, registry, history>>

\* The unit is deleted by name, whatever has become of it.  Its pod goes later.
removeIdleWorker(n) ==
  /\ life.pc = "delete" /\ n \in life.victims
  /\ life' = [life EXCEPT !.victims = @ \ {n}]
  /\ unit' = [unit EXCEPT ![n] = "absent"]
  /\ removed' = removed \cup {n}
  /\ UNCHANGED <<lifeVars, creator, born, registry, gone, disturbed, delivered>>

removalFails(n) ==
  /\ life.pc = "delete" /\ n \in life.victims
  /\ life' = [life EXCEPT !.victims = @ \ {n}]
  /\ UNCHANGED <<lifeVars, registry, apiVars, history>>

lifecycleDone ==
  /\ life.pc = "delete" /\ life.victims = {}
  /\ life' = LifeIdle
  /\ UNCHANGED <<lifeVars, apiVars, registry, history>>

-----------------------------------------------------------------------------
(***************************************************************************)
(* Metrics.  Delivery is at least once and in no order: a metric the       *)
(* activator has observed may be delivered again.                          *)
(***************************************************************************)
ObserveMetric(m) ==
  /\ table' = [table EXCEPT ![m.worker] =
       [seen |-> m.at,
        inflight |-> m.inflight,
        activity |-> IF \/ m.event \in {"started", "finished"}
                        \/ m.event = "registered" /\ table[m.worker].activity = 0
                     THEN m.at ELSE table[m.worker].activity]]
  /\ metrics' \in {metrics, metrics \ {m}}
  /\ UNCHANGED <<apiVars, registry, act, life, todo, dispatched, up, busy, clock, history>>

\* Nothing reads the metrics of units that the activator does not manage, so
\* their sidecars are left out.
\* The error of a publication is only logged, so a metric may also get lost.
Publish(n, event, inflight) ==
  \/ /\ Cardinality(metrics) < MaxMetrics
     /\ metrics' = metrics \cup {[worker |-> n, event |-> event, inflight |-> inflight, at |-> clock]}
  \/ UNCHANGED metrics

others == <<apiVars, registry, table, act, life, clock, history>>

\* Service.Run: the first start or a restart of the container, which may be that
\* of a unit already deleted.  Without its registration the sidecar exits and is
\* started again.
Run(n) ==
  /\ unit[n] \in {"progressing", "ready", "unready"} \/ n \in up
  /\ up' = up \cup {n}
  /\ busy' = [busy EXCEPT ![n] = {}]
  /\ Cardinality(metrics) < MaxMetrics
  /\ metrics' = metrics \cup {[worker |-> n, event |-> "registered", inflight |-> 0, at |-> clock]}
  /\ UNCHANGED <<others, todo, dispatched>>

HandleDispatchStarts(i, n) ==
  /\ <<i, n>> \in dispatched
  /\ n \in up /\ busy[n] = {}
  /\ busy' = [busy EXCEPT ![n] = {i}]
  /\ Publish(n, "started", 1)
  /\ UNCHANGED <<others, todo, dispatched, up>>

\* The deferred decrement runs after the last metric was sent, so a finished
\* invocation still counts as one in flight.
HandleDispatchFinishes(i, n) ==
  /\ i \in busy[n]
  /\ busy' = [busy EXCEPT ![n] = {}]
  /\ dispatched' = dispatched \ {<<i, n>>}
  /\ Publish(n, "finished", 1)
  /\ UNCHANGED <<others, todo, up>>

\* The result is not published: no metric, and the dispatch is delivered again.
HandleDispatchErr(i, n) ==
  /\ i \in busy[n]
  /\ busy' = [busy EXCEPT ![n] = {}]
  /\ UNCHANGED <<others, todo, dispatched, up, metrics>>

heartbeatLoop(n) ==
  /\ n \in up
  /\ Cardinality(metrics) < MaxMetrics
  /\ Publish(n, "heartbeat", Cardinality(busy[n]))
  /\ UNCHANGED <<others, todo, dispatched, up, busy>>

\* The pod ends: a restart, an eviction, or the garbage collection of a unit
\* that was deleted some time before.
SidecarStops(n) ==
  /\ n \in up
  /\ up' = up \ {n}
  /\ busy' = [busy EXCEPT ![n] = {}]
  /\ UNCHANGED <<others, todo, dispatched, metrics>>

-----------------------------------------------------------------------------
(***************************************************************************)
(* The unit controller, the cluster and users.                             *)
(***************************************************************************)
envBut == <<creator, born, registry, table, act, life, todo, dispatched, sidecarVars, clock>>
env == <<envBut, history>>

UnitProgresses(n) ==
  /\ unit[n] = "new"
  /\ unit' = [unit EXCEPT ![n] = "progressing"]
  /\ UNCHANGED env

UnitBecomesReady(n) ==
  /\ unit[n] \in {"progressing", "unready"}
  /\ unit' = [unit EXCEPT ![n] = "ready"]
  /\ UNCHANGED env

\* A ready unit loses its pod, a unit never gets ready, a user deletes one.
UnitDisturbed(n) ==
  /\ disturbed < MaxDisturbed
  /\ disturbed' = disturbed + 1
  /\ \/ unit[n] = "ready" /\ unit' = [unit EXCEPT ![n] = "unready"]
     \/ unit[n] \in {"new", "progressing"} /\ unit' = [unit EXCEPT ![n] = "failed"]
     \/ unit[n] # "absent" /\ unit' = [unit EXCEPT ![n] = "absent"]
  /\ UNCHANGED <<envBut, removed, gone, delivered>>

Tick ==
  /\ clock < MaxTime
  /\ clock' = clock + 1
  /\ UNCHANGED <<apiVars, registry, table, act, life, todo, dispatched, sidecarVars, history>>

Activate ==
  \/ listServerlessUnits \/ syncListed \/ pickRegistered \/ noWorkerTemplate \/ awaitPending
  \/ waitForWorkerReady \/ registerReady \/ readyWaitExpires \/ backpressure \/ createWorker
  \/ dispatchToWorker \/ finishErr

Lifecycle ==
  \/ lifecycleList \/ lifecycleSync \/ ensureMinAvailable \/ deleteIdleWorkers
  \/ \E n \in Names : removeIdleWorker(n)
  \/ lifecycleDone

Sidecar(n) ==
  \/ Run(n)
  \/ \E i \in Invocations :
       HandleDispatchStarts(i, n) \/ HandleDispatchFinishes(i, n) \/ HandleDispatchErr(i, n)
  \/ heartbeatLoop(n) \/ SidecarStops(n)

Controller(n) == UnitProgresses(n) \/ UnitBecomesReady(n)

Next ==
  \/ \E i \in Invocations : ProcessInvocation(i)
  \/ Activate \/ acquireFails \/ dispatchFails
  \/ Lifecycle \/ prewarmFails \/ \E n \in Names : removalFails(n)
  \/ \E m \in metrics : ObserveMetric(m)
  \/ \E n \in Managed : Sidecar(n)
  \/ \E n \in Names : Controller(n) \/ UnitDisturbed(n)
  \/ Tick

Spec == Init /\ [][Next]_vars

(***************************************************************************)
(* The consumer fetches, and its handler, whose waits have a deadline,     *)
(* makes its next step.  Nothing is assumed of units, calls or the queue's *)
(* choice of the next message.                                             *)
(***************************************************************************)
Fairness == WF_vars(\E i \in Invocations : ProcessInvocation(i)) /\ WF_vars(Activate)

FairSpec == Spec /\ Fairness

-----------------------------------------------------------------------------
Phases == {"absent", "new", "progressing", "ready", "unready", "failed"}

\* Every variable has its type.  The registry may name a unit that is gone, and
\* a sidecar may outlive its unit, but what executes has a sidecar; no
\* invocation is delivered more than MaxDeliver times.
TypeOK ==
  /\ unit \in [Names -> Phases]
  /\ creator \in [Names -> Invocations \cup {"other"}]
  /\ registry \subseteq Names
  /\ table \in [Names -> [seen : 0..MaxTime, activity : 0..MaxTime, inflight : {0, 1}]]
  /\ act.pc \in {"idle", "list", "sync", "pick", "waitPending", "create", "waitCreated", "register",
                "dispatch", "failed"}
  /\ life.pc \in {"idle", "sync", "warm", "delete"}
  /\ todo \subseteq Invocations
  /\ dispatched \subseteq Invocations \X Names
  /\ busy \in [Names -> SUBSET Invocations]
  /\ \A n \in Names : busy[n] # {} => n \in up
  /\ up \subseteq Names
  /\ Cardinality(metrics) <= MaxMetrics
  /\ clock \in 0..MaxTime
  /\ born \in [Names -> 0..MaxTime]
  /\ removed \subseteq Names /\ gone \subseteq removed
  /\ disturbed \in 0..MaxDisturbed
  /\ delivered \in [Invocations -> 0..MaxDeliver]

\* Workers that activation created and that were never ready.
ActivationPending ==
  {n \in Managed : creator[n] \in Invocations /\ unit[n] \in {"new", "progressing", "failed"}}

\* acquireWorker never has more than maxPendingWorkersPerRequestID workers of
\* its own on the way, although it counts them in a list that it took before
\* it waited for another worker (service.go:222).
ActivationPendingBounded == Cardinality(ActivationPending) <= MaxPending

\* The lifecycle goroutine never deletes a worker when that leaves fewer ready
\* units than minAvailableCount, as long as no unit is lost for other reasons:
\* the number of deletions is computed from a list, not from the units at the
\* time of each deletion (lifecycle.go:213).
DeletionKeepsMinimum ==
  [][\A n \in Names : n \in removed' \ removed
       => Cardinality(ReadyIn(unit')) >= MinAvailable]_vars

\* An invocation is never dispatched to a worker that the lifecycle goroutine
\* had deleted before the invocation's list: no Sync from an older list brings
\* the worker back into the registry between Sync and Pick (service.go:201).
NoDispatchToDeleted == act.pc = "dispatch" => act.worker \notin gone

\* A worker of the pool exists, or existed until somebody deleted it.
ScaledUp == (\E n \in Managed : unit[n] # "absent") \/ disturbed > 0 \/ removed # {}

\* An invocation has only MaxDeliver deliveries before it is dead-lettered: none
\* is given back, unless a call failed, before the pool was scaled up.  A wait
\* for a unit that never gets ready does not use up the delivery
\* (service.go:207-219), and back-pressure only hits a pool that has workers.
NoDeliveryWasted == act.pc = "failed" /\ act.cause # "call" => ScaledUp

\* Every invocation is dispatched, answered because no template exists, or
\* dead-lettered: no unit that stays pending, disappears or fails, and no order
\* of the goroutines, holds the only invocation goroutine for ever, so the
\* invocations behind it get their turn (service.go:233).
NoInvocationBlocks == <>(todo = {})

\* After a round of ensureMinAvailable whose calls all worked, as many units
\* as minAvailableCount are available or were created (lifecycle.go:103).
MinAvailableEnforced ==
  life.pc = "delete" /\ ~life.error => life.available >= MinAvailable

\* A worker is removed only when it has been idle for idleTimeoutSeconds, so
\* it is at least as old as that (lifecycle.go:103).
IdleTimeoutEnforced ==
  [][\A n \in Names : n \in removed' \ removed
       => clock - born[n] >= IdleTimeout]_vars
=============================================================================
