-------------------------- MODULE WorkerPoolProofs --------------------------
(***************************************************************************)
(* Proofs about WorkerPool for any number of invocations, units, pending   *)
(* workers and disturbances, and any clock.                                *)
(***************************************************************************)
EXTENDS WorkerPool, FiniteSetTheorems, WellFoundedInduction, TLAPS

\* What Pick, firstPendingWorker and the number of deletions rest on.
LEMMA MinIsInSet ==
  ASSUME NEW S \in SUBSET Nat, S # {}
  PROVE  Min(S) \in S /\ \A y \in S : Min(S) <= y
<1>1. PICK R : IsWellFoundedOn(R, Nat) /\ \A x, y \in Nat : x < y => <<x, y>> \in R
  <2>1. \A x, y \in Nat : x < y => <<x, y>> \in OpToRel(<, Nat)
    BY DEF OpToRel
  <2> QED
    BY <2>1, NatLessThanWellFounded, Zenon
<1>2. PICK x \in S : \A y \in S : ~ (<<y, x>> \in R)
  <2>1. IsWellFoundedOn(R, Nat) /\ S \subseteq Nat /\ S # {}
    BY <1>1
  <2> HIDE <1>1
  <2> QED
    BY <2>1, WFMin, Zenon
<1>3. x \in Nat /\ \A y \in S : y \in Nat /\ ~(y < x)
  BY <1>1, <1>2
<1>4. \A y \in S : x <= y
  BY <1>3
<1> QED
  BY <1>4 DEF Min

-----------------------------------------------------------------------------
(* The inductive invariant.                                                *)

Snaps == [Names -> Phases]

Listing == [pc : {"list"}, inv : Invocations]
Listed == [pc : {"sync", "pick"}, inv : Invocations, snap : Snaps]
AtWorker == [pc : {"waitPending", "waitCreated", "register", "dispatch"}, inv : Invocations, snap : Snaps,
             worker : Names]
Creating == [pc : {"create"}, inv : Invocations, snap : Snaps, worker : {NoWorker}]
Failed == [pc : {"failed"}, inv : Invocations, cause : {"call", "wait", "pending", "conflict"}]

\* The record of the invocation goroutine, by place.
ActInv ==
  \/ act = ActIdle \/ act \in Listing \/ act \in Listed \/ act \in AtWorker \/ act \in Creating
  \/ act \in Failed

LifeListed == [pc : {"sync"}, snap : Snaps]
Warming == [pc : {"warm"}, snap : Snaps, created : Nat, error : BOOLEAN, missing : Nat]
Deleting == [pc : {"delete"}, snap : Snaps, victims : SUBSET Names, available : Nat,
             error : BOOLEAN]

LifeInv == life = LifeIdle \/ life \in LifeListed \/ life \in Warming \/ life \in Deleting

Metric == [worker : Names, event : {"registered", "started", "finished", "heartbeat"},
           inflight : {0, 1}, at : 0..MaxTime]

\* A sidecar executes one invocation at a time, and what it reported has its type.
MetricInv ==
  /\ metrics \subseteq Metric /\ IsFiniteSet(metrics)
  /\ \A n \in Names : busy[n] = {} \/ \E i \in Invocations : busy[n] = {i}

\* The queue delivers what has deliveries left; the one that the goroutine handles
\* may be the last.
DeliveryInv ==
  \A i \in todo : delivered[i] < MaxDeliver \/ (act.pc # "idle" /\ act.inv = i)

ShapeInv == TypeOK /\ ActInv /\ LifeInv /\ MetricInv /\ DeliveryInv

\* Until acquireWorker creates a worker, nobody else adds to those that activation
\* has on the way: all of them are pending in its list, however old that is.
PendingInv ==
  /\ ActivationPendingBounded
  /\ act.pc \in {"sync", "pick", "waitPending", "create"} => ActivationPending \subseteq Pending(act.snap)

\* What the lifecycle goroutine deleted is in none of the lists taken since.
GoneInv ==
  /\ \A n \in removed : unit[n] = "absent"
  /\ act.pc = "sync" => \A n \in gone : act.snap[n] = "absent"
  /\ life.pc = "sync" => \A n \in removed : life.snap[n] = "absent"
  /\ act.pc = "pick" => registry \cap gone = {}
  /\ act.pc = "register" => act.worker \notin gone
  /\ NoDispatchToDeleted

\* Of the units that were ready in the lifecycle goroutine's list, only disturbed
\* ones have stopped being ready, until it deletes some itself; then enough of
\* them are not among its victims.
MinimumInv ==
  /\ life.pc \in {"sync", "warm"} =>
       Cardinality(ReadyIn(life.snap) \ ReadyIn(unit)) <= disturbed
  /\ life.pc = "delete" /\ life.victims # {} =>
       \E keep \in SUBSET Names :
          /\ keep \cap life.victims = {}
          /\ Cardinality(keep) >= MinAvailable
          /\ Cardinality(keep \ ReadyIn(unit)) <= disturbed

\* Each disturbance costs at most one ready unit: a deletion leaves minAvailableCount
\* ready units but for those.
MinimumUpToDisturbances ==
  [][\A n \in Names : n \in removed' \ removed
       => Cardinality(ReadyIn(unit')) + disturbed >= MinAvailable]_vars

-----------------------------------------------------------------------------
(* Where the goroutines are, and what each step leaves alone.              *)

LEMMA ActAt ==
  ASSUME ActInv
  PROVE  /\ act.pc \in {"idle", "list", "sync", "pick", "waitPending", "create", "waitCreated",
                        "register", "dispatch", "failed"}
         /\ act.pc = "list" => act \in Listing
         /\ act.pc \in {"sync", "pick"} => act \in Listed
         /\ act.pc \in {"waitPending", "waitCreated", "register", "dispatch"} => act \in AtWorker
         /\ act.pc = "create" => act \in Creating
         /\ act.pc = "failed" => act \in Failed
         /\ act.pc # "idle" => act.inv \in Invocations
  BY DEF ActInv, ActIdle, Listing, Listed, AtWorker, Creating, Failed

LEMMA LifeAt ==
  ASSUME LifeInv
  PROVE  /\ life.pc \in {"idle", "sync", "warm", "delete"}
         /\ life.pc = "sync" => life \in LifeListed
         /\ life.pc = "warm" => life \in Warming
         /\ life.pc = "delete" => life \in Deleting
  BY DEF LifeInv, LifeIdle, LifeListed, Warming, Deleting

\* Neither goroutine: metrics, sidecars, the controller, the cluster and the clock.
Elsewhere ==
  \/ \E m \in metrics : ObserveMetric(m)
  \/ \E n \in Managed : Sidecar(n)
  \/ \E n \in Names : Controller(n) \/ UnitDisturbed(n)
  \/ Tick
  \/ UNCHANGED vars

InvocationStep ==
  \/ \E i \in Invocations : ProcessInvocation(i)
  \/ Activate \/ acquireFails \/ dispatchFails

LifecycleStep == Lifecycle \/ prewarmFails \/ \E n \in Names : removalFails(n)

LEMMA WhoMoves ==
  ASSUME [Next]_vars
  PROVE  /\ InvocationStep \/ LifecycleStep \/ Elsewhere
         /\ InvocationStep => UNCHANGED <<life, table, up, busy, metrics, clock, disturbed>>
         /\ LifecycleStep => UNCHANGED <<act, table, todo, dispatched, up, busy, metrics, clock,
                                         disturbed, delivered>>
         /\ Elsewhere => UNCHANGED <<act, life, registry, todo, creator, born, removed, gone,
                                     delivered>>
<1>1. InvocationStep \/ LifecycleStep \/ Elsewhere
  BY DEF Next, InvocationStep, LifecycleStep, Elsewhere
<1>2. ASSUME InvocationStep PROVE UNCHANGED <<life, table, up, busy, metrics, clock, disturbed>>
  BY <1>2 DEF InvocationStep, Activate, ProcessInvocation, listServerlessUnits, syncListed,
     pickRegistered, noWorkerTemplate, awaitPending, waitForWorkerReady, registerReady, readyWaitExpires,
     backpressure, createWorker, CreateUnit, dispatchToWorker, acquireFails, finishErr, dispatchFails,
     sidecarVars, history
<1>3. ASSUME LifecycleStep
      PROVE  UNCHANGED <<act, table, todo, dispatched, up, busy, metrics, clock, disturbed, delivered>>
  BY <1>3 DEF LifecycleStep, Lifecycle, lifecycleList, lifecycleSync, ensureMinAvailable,
     CreateUnit, deleteIdleWorkers, removeIdleWorker, lifecycleDone, prewarmFails, removalFails,
     lifeVars, sidecarVars, history
<1>4. ASSUME Elsewhere
      PROVE  UNCHANGED <<act, life, registry, todo, creator, born, removed, gone, delivered>>
  BY <1>4 DEF Elsewhere, ObserveMetric, Sidecar, Run, HandleDispatchStarts,
     HandleDispatchFinishes, HandleDispatchErr, heartbeatLoop, SidecarStops, Controller, UnitProgresses,
     UnitBecomesReady, UnitDisturbed, Tick, vars, others, env, envBut, apiVars, history
<1> QED
  BY <1>1, <1>2, <1>3, <1>4

LEMMA ActStep == ShapeInv /\ [Next]_vars => ActInv'
<1> SUFFICES ASSUME ShapeInv, [Next]_vars PROVE ActInv'
  OBVIOUS
<1>0. ActInv /\ unit \in Snaps /\ registry \subseteq Names
  BY DEF ShapeInv, TypeOK, Snaps
<1>1. ASSUME UNCHANGED act PROVE ActInv'
  BY <1>0, <1>1 DEF ActInv
<1>2. ASSUME act' = ActIdle PROVE ActInv'
  BY <1>2 DEF ActInv
<1>14. ASSUME act.pc # "idle", NEW cause \in {"call", "wait", "pending", "conflict"}, act' = Err(cause)
       PROVE  ActInv'
  <2>1. act' \in Failed
    BY <1>0, <1>14, ActAt DEF Err, Failed
  <2> QED
    BY <2>1 DEF ActInv
<1>3. ASSUME NEW i \in Invocations, ProcessInvocation(i) PROVE ActInv'
  BY <1>3 DEF ProcessInvocation, ActInv, Listing
<1>4. ASSUME listServerlessUnits PROVE ActInv'
  <2>1. act' \in Listed
    BY <1>0, <1>4, ActAt DEF listServerlessUnits, Listing, Listed
  <2> QED
    BY <2>1 DEF ActInv
<1>5. ASSUME syncListed PROVE ActInv'
  <2>1. act' \in Listed
    BY <1>0, <1>5, ActAt DEF syncListed, Listed
  <2> QED
    BY <2>1 DEF ActInv
<1>6. ASSUME act.pc \in {"pick", "waitPending", "waitCreated", "register", "create"},
             NEW n \in Names, NEW pc \in {"waitPending", "waitCreated", "register", "dispatch"},
             act' = With(pc, n)
      PROVE  ActInv'
  <2>1. act.inv \in Invocations /\ act.snap \in Snaps
    BY <1>0, <1>6, ActAt DEF Listed, AtWorker, Creating
  <2>2. act' \in AtWorker
    BY <1>6, <2>1 DEF With, AtWorker
  <2> QED
    BY <2>2 DEF ActInv
<1>7. ASSUME act.pc \in {"pick", "waitPending"}, act' = With("create", NoWorker) PROVE ActInv'
  <2>1. act.inv \in Invocations /\ act.snap \in Snaps
    BY <1>0, <1>7, ActAt DEF Listed, AtWorker
  <2>2. act' \in Creating
    BY <1>7, <2>1 DEF With, Creating
  <2> QED
    BY <2>2 DEF ActInv
<1>8. ASSUME pickRegistered PROVE ActInv'
  <2>1. Pick \in Names
    BY <1>0, <1>8, MinIsInSet, PoolAssumption DEF pickRegistered, Pick
  <2> QED
    BY <1>6, <1>8, <2>1 DEF pickRegistered
<1>9. ASSUME awaitPending PROVE ActInv'
  <2>1. Pending(act.snap) # {} => firstPendingWorker(act.snap) \in Names
    BY MinIsInSet, PoolAssumption DEF firstPendingWorker, Pending, Live
  <2> QED
    BY <1>6, <1>7, <1>9, <2>1 DEF awaitPending
<1>10. ASSUME waitForWorkerReady \/ registerReady PROVE ActInv'
  <2>1. act.worker \in Names
    BY <1>0, <1>10, ActAt DEF waitForWorkerReady, registerReady, AtWorker
  <2> QED
    BY <1>6, <1>10, <2>1 DEF waitForWorkerReady, registerReady
<1>11. ASSUME readyWaitExpires PROVE ActInv'
  BY <1>7, <1>11, <1>14 DEF readyWaitExpires
<1>12. ASSUME createWorker PROVE ActInv'
  <2>1. WorkerName[act.inv] \in Names
    BY <1>0, <1>12, ActAt, PoolAssumption DEF createWorker, Creating
  <2> QED
    BY <1>6, <1>12, <1>14, <2>1 DEF createWorker
<1>13. ASSUME noWorkerTemplate \/ backpressure \/ dispatchToWorker \/ acquireFails \/ dispatchFails
              \/ finishErr
       PROVE  ActInv'
  BY <1>2, <1>13, <1>14 DEF noWorkerTemplate, backpressure, dispatchToWorker, acquireFails, finishErr,
     dispatchFails
<1> QED
  BY <1>1, <1>3, <1>4, <1>5, <1>8, <1>9, <1>10, <1>11, <1>12, <1>13, WhoMoves
     DEF InvocationStep, Activate

LEMMA FiniteParts ==
  ASSUME NEW S \in SUBSET Names
  PROVE  IsFiniteSet(S) /\ Cardinality(S) \in Nat
  BY PoolAssumption, FS_Subset, FS_CardinalityType

LEMMA LifeStep == ShapeInv /\ [Next]_vars => LifeInv'
<1> SUFFICES ASSUME ShapeInv, [Next]_vars PROVE LifeInv'
  OBVIOUS
<1>0. LifeInv /\ unit \in Snaps
  BY DEF ShapeInv, TypeOK, Snaps
<1>1. ASSUME UNCHANGED life PROVE LifeInv'
  BY <1>0, <1>1 DEF LifeInv
<1>2. ASSUME lifecycleList PROVE LifeInv'
  <2>1. life' \in LifeListed
    BY <1>0, <1>2 DEF lifecycleList, LifeListed
  <2> QED
    BY <2>1 DEF LifeInv
<1>3. ASSUME NEW snap PROVE Available(snap) \in Nat
  BY FiniteParts DEF Available
<1>4. ASSUME lifecycleSync PROVE LifeInv'
  <2>1. PICK m \in Nat : life' = [pc |-> "warm", snap |-> life.snap, created |-> 0,
                                  error |-> FALSE, missing |-> m]
    <3>1. Available(life.snap) \in Nat
      BY <1>3
    <3>2. (IF MinAvailable > Available(life.snap) THEN MinAvailable - Available(life.snap) ELSE 0)
            \in Nat
      BY <3>1, PoolAssumption
    <3> QED
      BY <1>4, <3>2, Zenon DEF lifecycleSync
  <2>2. life' \in Warming
    BY <1>0, <1>4, <2>1, LifeAt DEF lifecycleSync, LifeListed, Warming
  <2> QED
    BY <2>2 DEF LifeInv
<1>5. ASSUME ensureMinAvailable \/ prewarmFails PROVE LifeInv'
  <2>1. life \in Warming /\ life.missing > 0
    BY <1>0, <1>5, LifeAt DEF ensureMinAvailable, prewarmFails
  <2>2. life.missing - 1 \in Nat /\ life.created + 1 \in Nat
    BY <2>1 DEF Warming
  <2>3. life' \in Warming
    BY <1>5, <2>1, <2>2 DEF ensureMinAvailable, prewarmFails, Warming
  <2> QED
    BY <2>3 DEF LifeInv
<1>6. ASSUME deleteIdleWorkers PROVE LifeInv'
  <2>1. life \in Warming
    BY <1>0, <1>6, LifeAt DEF deleteIdleWorkers
  <2>2. PICK chosen \in SUBSET Names :
          life' = [pc |-> "delete", snap |-> life.snap, victims |-> chosen,
                   available |-> Available(life.snap) + life.created, error |-> life.error]
    BY <1>6 DEF deleteIdleWorkers, kSubset, IdleCandidates, ReadyIn
  <2>3. Available(life.snap) + life.created \in Nat
    BY <1>3, <2>1 DEF Warming
  <2>4. life' \in Deleting
    BY <2>1, <2>2, <2>3 DEF Warming, Deleting
  <2> QED
    BY <2>4 DEF LifeInv
<1>7. ASSUME NEW n \in Names, removeIdleWorker(n) \/ removalFails(n) PROVE LifeInv'
  <2>1. life \in Deleting
    BY <1>0, <1>7, LifeAt DEF removeIdleWorker, removalFails
  <2>2. life' \in Deleting
    BY <1>7, <2>1 DEF removeIdleWorker, removalFails, Deleting
  <2> QED
    BY <2>2 DEF LifeInv
<1>8. ASSUME lifecycleDone PROVE LifeInv'
  BY <1>8 DEF lifecycleDone, LifeInv
<1> QED
  BY <1>1, <1>2, <1>4, <1>5, <1>6, <1>7, <1>8, WhoMoves DEF LifecycleStep, Lifecycle

\* The units, the registry, the clock and the history of deletions.
PoolShape ==
  /\ unit \in Snaps
  /\ creator \in [Names -> Invocations \cup {"other"}]
  /\ registry \subseteq Names
  /\ todo \subseteq Invocations
  /\ dispatched \subseteq Invocations \X Names
  /\ clock \in 0..MaxTime
  /\ born \in [Names -> 0..MaxTime]
  /\ removed \subseteq Names /\ gone \subseteq removed
  /\ disturbed \in 0..MaxDisturbed

\* The queue's deliveries.
QueueShape == delivered \in [Invocations -> 0..MaxDeliver] /\ DeliveryInv

\* The sidecars and their metrics.
SideShape ==
  /\ table \in [Names -> [seen : 0..MaxTime, activity : 0..MaxTime, inflight : {0, 1}]]
  /\ busy \in [Names -> SUBSET Invocations]
  /\ \A n \in Names : busy[n] # {} => n \in up
  /\ up \subseteq Names
  /\ Cardinality(metrics) <= MaxMetrics
  /\ MetricInv

LEMMA ShapeParts == ShapeInv <=> PoolShape /\ SideShape /\ ActInv /\ LifeInv /\ QueueShape
<1>1. ActInv /\ LifeInv => /\ act.pc \in {"idle", "list", "sync", "pick", "waitPending", "create",
                                          "waitCreated", "register", "dispatch", "failed"}
                           /\ life.pc \in {"idle", "sync", "warm", "delete"}
  BY ActAt, LifeAt
<1> QED
  BY <1>1 DEF ShapeInv, TypeOK, PoolShape, SideShape, QueueShape, Snaps

\* A new unit: the name was free.
LEMMA CreatedUnit ==
  ASSUME PoolShape, NEW n \in Names, NEW source \in Invocations \cup {"other"},
         CreateUnit(n, source)
  PROVE  /\ unit' \in Snaps /\ unit[n] = "absent" /\ unit'[n] = "new"
         /\ \A m \in Names : m # n => unit'[m] = unit[m] /\ creator'[m] = creator[m]
         /\ creator' \in [Names -> Invocations \cup {"other"}] /\ creator'[n] = source
         /\ born' \in [Names -> 0..MaxTime]
         /\ removed' = removed \ {n} /\ gone' = gone \ {n} /\ UNCHANGED disturbed
         /\ Live(unit) \subseteq Live(unit')
         /\ ReadyIn(unit') = ReadyIn(unit)
  BY DEF PoolShape, CreateUnit, Snaps, Phases, Live, ReadyIn

LEMMA PoolStep == ShapeInv /\ [Next]_vars => PoolShape'
<1> SUFFICES ASSUME ShapeInv, [Next]_vars PROVE PoolShape'
  OBVIOUS
<1>0. PoolShape /\ SideShape /\ ActInv /\ LifeInv
  BY ShapeParts
<1>1. ASSUME InvocationStep, UNCHANGED apiVars, UNCHANGED <<removed, gone>> PROVE PoolShape'
  <2>1. UNCHANGED <<unit, creator, born, removed, gone, disturbed, clock>>
    BY <1>1, WhoMoves DEF apiVars
  <2>2. registry' \subseteq Names /\ todo' \subseteq Invocations
        /\ dispatched' \subseteq Invocations \X Names
    <3>1. ASSUME registerReady PROVE registry' \subseteq Names
      BY <1>0, <3>1, ActAt DEF registerReady, AtWorker
    <3>2. ASSUME syncListed PROVE registry' \subseteq Names
      BY <3>2 DEF syncListed, Sync, ReadyIn
    <3>3. ASSUME dispatchToWorker \/ dispatchFails
          PROVE  /\ dispatched' \subseteq Invocations \X Names /\ todo' \subseteq Invocations
                 /\ UNCHANGED registry
      BY <1>0, <3>3, ActAt DEF dispatchToWorker, dispatchFails, AtWorker, PoolShape
    <3>4. ASSUME ~registerReady, ~syncListed, ~dispatchToWorker, ~dispatchFails
          PROVE  UNCHANGED <<registry, dispatched>> /\ todo' \subseteq todo
      BY <1>1, <3>4 DEF InvocationStep, Activate, ProcessInvocation, listServerlessUnits,
         pickRegistered, noWorkerTemplate, awaitPending, waitForWorkerReady, readyWaitExpires,
         backpressure, createWorker, acquireFails, finishErr
    <3>5. registerReady \/ syncListed => UNCHANGED <<todo, dispatched>>
      BY DEF registerReady, syncListed
    <3> QED
      BY <1>0, <3>1, <3>2, <3>3, <3>4, <3>5 DEF PoolShape
  <2> QED
    BY <1>0, <2>1, <2>2 DEF PoolShape
<1>2. ASSUME listServerlessUnits PROVE PoolShape'
  BY <1>0, <1>2 DEF listServerlessUnits, PoolShape, apiVars
<1>3. ASSUME NEW n \in Names, NEW source \in Invocations \cup {"other"}, CreateUnit(n, source),
             UNCHANGED <<registry, todo, dispatched, clock>>
      PROVE  PoolShape'
  BY <1>0, <1>3, CreatedUnit DEF PoolShape
<1>4. ASSUME createWorker PROVE PoolShape'
  <2>1. act.inv \in Invocations /\ WorkerName[act.inv] \in Names
    BY <1>0, <1>4, ActAt, PoolAssumption DEF createWorker, Creating
  <2>2. InvocationStep
    BY <1>4 DEF InvocationStep, Activate
  <2> QED
    BY <1>1, <1>3, <1>4, <2>1, <2>2 DEF createWorker, history
<1>5. ASSUME ensureMinAvailable PROVE PoolShape'
  <2>1. UNCHANGED <<registry, todo, dispatched, clock>>
    BY <1>5 DEF ensureMinAvailable, lifeVars
  <2>2. CASE CreateUnit(WarmName, "other")
    BY <1>3, <2>1, <2>2, PoolAssumption
  <2>3. CASE UNCHANGED <<apiVars, history>>
    BY <1>0, <2>1, <2>3 DEF apiVars, history, PoolShape
  <2> QED
    BY <1>5, <2>2, <2>3 DEF ensureMinAvailable
<1>6. ASSUME NEW n \in Names, removeIdleWorker(n) PROVE PoolShape'
  BY <1>0, <1>6 DEF removeIdleWorker, lifeVars, PoolShape, Snaps, Phases
<1>7. ASSUME lifecycleSync PROVE PoolShape'
  BY <1>0, <1>7 DEF lifecycleSync, Sync, ReadyIn, lifeVars, apiVars, history, PoolShape
<1>8. ASSUME \/ lifecycleList \/ deleteIdleWorkers \/ lifecycleDone \/ prewarmFails
             \/ \E n \in Names : removalFails(n)
      PROVE  PoolShape'
  <2>1. UNCHANGED <<unit, creator, born, registry, todo, dispatched, clock, removed, gone, disturbed>>
    BY <1>8 DEF lifecycleList, deleteIdleWorkers, lifecycleDone, prewarmFails, removalFails,
       lifeVars, apiVars, history
  <2> QED
    BY <1>0, <2>1 DEF PoolShape
<1>9. ASSUME NEW n \in Names, Controller(n) \/ UnitDisturbed(n) PROVE PoolShape'
  <2>1. PICK p \in Phases : unit' = [unit EXCEPT ![n] = p]
    BY <1>9 DEF Controller, UnitProgresses, UnitBecomesReady, UnitDisturbed, Phases
  <2>2. unit' \in Snaps
    BY <1>0, <2>1 DEF PoolShape, Snaps
  <2>3. UNCHANGED <<creator, born, registry, todo, dispatched, clock, removed, gone>>
    BY <1>9 DEF Controller, UnitProgresses, UnitBecomesReady, UnitDisturbed, env, envBut, history
  <2>4. disturbed' = disturbed \/ (disturbed < MaxDisturbed /\ disturbed' = disturbed + 1)
    BY <1>9 DEF Controller, UnitProgresses, UnitBecomesReady, UnitDisturbed, env, history
  <2> QED
    BY <1>0, <2>2, <2>3, <2>4, PoolAssumption DEF PoolShape
<1>10. ASSUME \/ \E m \in metrics : ObserveMetric(m)
              \/ \E n \in Managed : Sidecar(n)
              \/ UNCHANGED vars
       PROVE  PoolShape'
  <2>1. /\ UNCHANGED <<unit, creator, born, registry, todo, clock, removed, gone, disturbed>>
        /\ dispatched' \subseteq dispatched
    BY <1>10 DEF ObserveMetric, Sidecar, Run, HandleDispatchStarts, HandleDispatchFinishes,
       HandleDispatchErr, heartbeatLoop, SidecarStops, others, apiVars, history, vars
  <2> QED
    BY <1>0, <2>1 DEF PoolShape
<1>11. ASSUME Tick PROVE PoolShape'
  BY <1>0, <1>11, PoolAssumption DEF Tick, PoolShape, apiVars, history
<1>12. ASSUME InvocationStep, ~listServerlessUnits, ~createWorker
       PROVE  UNCHANGED apiVars /\ UNCHANGED <<removed, gone>>
  BY <1>12 DEF InvocationStep, Activate, ProcessInvocation, syncListed,
     pickRegistered, noWorkerTemplate, awaitPending, waitForWorkerReady, registerReady, readyWaitExpires,
     backpressure, dispatchToWorker, acquireFails, finishErr, dispatchFails, history
<1> QED
  BY <1>1, <1>2, <1>4, <1>5, <1>6, <1>7, <1>8, <1>9, <1>10, <1>11, <1>12, WhoMoves
     DEF LifecycleStep, Lifecycle, Elsewhere

LEMMA SideStep == ShapeInv /\ [Next]_vars => SideShape'
<1> SUFFICES ASSUME ShapeInv, [Next]_vars PROVE SideShape'
  OBVIOUS
<1>0. PoolShape /\ SideShape /\ ActInv /\ LifeInv
  BY ShapeParts
<1>1. ASSUME UNCHANGED <<table, up, busy, metrics>> PROVE SideShape'
  BY <1>0, <1>1 DEF SideShape, MetricInv
\* A sidecar stops, whether its unit is there or not.
<1>3. ASSUME NEW n \in Names, SidecarStops(n) PROVE SideShape'
  <2>1. busy' \in [Names -> SUBSET Invocations] /\ busy'[n] = {} /\ up' = up \ {n}
        /\ \A m \in Names : m # n => busy'[m] = busy[m]
    BY <1>0, <1>3 DEF SidecarStops, SideShape
  <2>2. UNCHANGED <<table, metrics>>
    BY <1>3 DEF SidecarStops, others
  <2> QED
    BY <1>0, <2>1, <2>2 DEF SideShape, MetricInv
<1>7. ASSUME (\E n \in Names : Controller(n) \/ UnitDisturbed(n)) \/ Tick \/ UNCHANGED vars
      PROVE  SideShape'
  <2>1. UNCHANGED <<table, up, busy, metrics>>
    BY <1>7 DEF Controller, UnitProgresses, UnitBecomesReady, UnitDisturbed, Tick, env, envBut,
       sidecarVars, vars
  <2> QED
    BY <1>1, <2>1
<1>8. ASSUME NEW m \in metrics, ObserveMetric(m) PROVE SideShape'
  <2>1. m \in Metric
    BY <1>0 DEF SideShape, MetricInv
  <2>2. table' \in [Names -> [seen : 0..MaxTime, activity : 0..MaxTime, inflight : {0, 1}]]
    BY <1>0, <1>8, <2>1 DEF ObserveMetric, SideShape, Metric
  <2>3. metrics' \subseteq metrics /\ IsFiniteSet(metrics') /\ Cardinality(metrics') <= MaxMetrics
    <3>1. metrics' \in SUBSET metrics /\ IsFiniteSet(metrics)
      BY <1>0, <1>8 DEF ObserveMetric, SideShape, MetricInv
    <3>2. Cardinality(metrics') \in Nat /\ Cardinality(metrics) \in Nat
          /\ Cardinality(metrics') <= Cardinality(metrics) /\ IsFiniteSet(metrics')
      BY <3>1, FS_Subset, FS_CardinalityType
    <3> QED
      BY <1>0, <3>1, <3>2, PoolAssumption DEF SideShape
  <2>4. UNCHANGED <<unit, up, busy>>
    BY <1>8 DEF ObserveMetric, apiVars
  <2> QED
    BY <1>0, <2>2, <2>3, <2>4 DEF SideShape, MetricInv
\* One more metric of a sidecar fits.
<1>9. ASSUME NEW m \in Metric, Cardinality(metrics) < MaxMetrics, metrics' = metrics \cup {m}
      PROVE  metrics' \subseteq Metric /\ IsFiniteSet(metrics') /\ Cardinality(metrics') <= MaxMetrics
  <2>1. IsFiniteSet(metrics) /\ metrics \subseteq Metric
    BY <1>0 DEF SideShape, MetricInv
  <2>2. /\ IsFiniteSet(metrics \cup {m})
        /\ Cardinality(metrics \cup {m}) =
             IF m \in metrics THEN Cardinality(metrics) ELSE Cardinality(metrics) + 1
        /\ Cardinality(metrics) \in Nat
    BY <2>1, FS_AddElement, FS_CardinalityType
  <2> QED
    BY <1>9, <2>1, <2>2, PoolAssumption
<1>10. ASSUME NEW n \in Managed, NEW event \in {"registered", "started", "finished", "heartbeat"},
              NEW inflight \in {0, 1}, Publish(n, event, inflight)
       PROVE  metrics' \subseteq Metric /\ IsFiniteSet(metrics') /\ Cardinality(metrics') <= MaxMetrics
  <2>1. [worker |-> n, event |-> event, inflight |-> inflight, at |-> clock] \in Metric
    BY <1>0, PoolAssumption DEF Metric, PoolShape
  <2>2. CASE UNCHANGED metrics
    BY <1>0, <2>2 DEF SideShape, MetricInv
  <2> QED
    BY <1>9, <1>10, <2>1, <2>2 DEF Publish
\* A sidecar changes what it executes.
<1>11. ASSUME NEW n \in Managed, NEW next \in SUBSET Invocations,
              next = {} \/ \E i \in Invocations : next = {i},
              busy' = [busy EXCEPT ![n] = next], next # {} => n \in up', up \subseteq up',
              up' \subseteq Names, UNCHANGED table,
              metrics' \subseteq Metric, IsFiniteSet(metrics'), Cardinality(metrics') <= MaxMetrics
       PROVE  SideShape'
  <2>1. n \in Names
    BY PoolAssumption
  <2>2. busy' \in [Names -> SUBSET Invocations] /\ busy'[n] = next
        /\ \A m \in Names : m # n => busy'[m] = busy[m]
    BY <1>0, <1>11, <2>1 DEF SideShape
  <2>3. \A m \in Names : busy'[m] # {} => m \in up'
    BY <1>0, <1>11, <2>2 DEF SideShape
  <2>4. \A m \in Names : busy'[m] = {} \/ \E i \in Invocations : busy'[m] = {i}
    BY <1>0, <1>11, <2>2 DEF SideShape, MetricInv
  <2> QED
    BY <1>0, <1>11, <2>2, <2>3, <2>4 DEF SideShape, MetricInv
<1>12. ASSUME NEW n \in Managed, Run(n) PROVE SideShape'
  <2>1. [worker |-> n, event |-> "registered", inflight |-> 0, at |-> clock] \in Metric
    BY <1>0, PoolAssumption DEF Metric, PoolShape
  <2>2. metrics' \subseteq Metric /\ IsFiniteSet(metrics') /\ Cardinality(metrics') <= MaxMetrics
    BY <1>9, <1>12, <2>1 DEF Run
  <2>3. up' \subseteq Names /\ up \subseteq up'
    BY <1>0, <1>12, PoolAssumption DEF Run, SideShape
  <2> QED
    BY <1>11, <1>12, <2>2, <2>3 DEF Run, others
<1>13. ASSUME NEW n \in Managed, NEW i \in Invocations,
              HandleDispatchStarts(i, n) \/ HandleDispatchFinishes(i, n) \/ HandleDispatchErr(i, n)
       PROVE  SideShape'
  <2>1. metrics' \subseteq Metric /\ IsFiniteSet(metrics') /\ Cardinality(metrics') <= MaxMetrics
    <3>1. CASE HandleDispatchErr(i, n)
      BY <1>0, <3>1 DEF HandleDispatchErr, SideShape, MetricInv
    <3>2. CASE HandleDispatchStarts(i, n) \/ HandleDispatchFinishes(i, n)
      BY <1>10, <3>2 DEF HandleDispatchStarts, HandleDispatchFinishes
    <3> QED
      BY <1>13, <3>1, <3>2
  <2>2. UNCHANGED <<up, table>> /\ up' \subseteq Names
    BY <1>0, <1>13 DEF HandleDispatchStarts, HandleDispatchFinishes, HandleDispatchErr, others,
       apiVars, SideShape
  <2>3. \/ busy' = [busy EXCEPT ![n] = {}]
        \/ busy' = [busy EXCEPT ![n] = {i}] /\ n \in up
    BY <1>13 DEF HandleDispatchStarts, HandleDispatchFinishes, HandleDispatchErr
  <2>4. PICK next \in SUBSET Invocations :
          /\ next = {} \/ \E j \in Invocations : next = {j}
          /\ busy' = [busy EXCEPT ![n] = next]
          /\ next # {} => n \in up'
    <3>1. {} \in SUBSET Invocations /\ {i} \in SUBSET Invocations
      OBVIOUS
    <3> QED
      BY <2>2, <2>3, <3>1
  <2>5. up \subseteq up'
    BY <2>2
  <2> QED
    BY <1>11, <2>1, <2>2, <2>4, <2>5
<1>14. ASSUME NEW n \in Managed, heartbeatLoop(n) PROVE SideShape'
  <2>1. Cardinality(busy[n]) \in {0, 1}
    <3>1. busy[n] = {} \/ \E i \in Invocations : busy[n] = {i}
      BY <1>0, PoolAssumption DEF SideShape, MetricInv
    <3> QED
      BY <3>1, FS_EmptySet, FS_Singleton
  <2>2. metrics' \subseteq Metric /\ IsFiniteSet(metrics') /\ Cardinality(metrics') <= MaxMetrics
    BY <1>10, <1>14, <2>1 DEF heartbeatLoop
  <2>3. UNCHANGED <<unit, up, busy, table>>
    BY <1>14 DEF heartbeatLoop, SidecarStops, others, apiVars
  <2> QED
    BY <1>0, <2>2, <2>3 DEF SideShape, MetricInv
<1> QED
  BY <1>1, <1>3, <1>7, <1>8, <1>12, <1>13, <1>14, WhoMoves, PoolAssumption DEF Elsewhere, Sidecar

LEMMA QueueStep == ShapeInv /\ [Next]_vars => QueueShape'
<1> SUFFICES ASSUME ShapeInv, [Next]_vars PROVE QueueShape'
  OBVIOUS
<1>0. PoolShape /\ QueueShape /\ ActInv
  BY ShapeParts
<1>1. ASSUME UNCHANGED <<act, todo, delivered>> PROVE QueueShape'
  BY <1>0, <1>1 DEF QueueShape, DeliveryInv
<1>2. ASSUME NEW i \in Invocations, ProcessInvocation(i) PROVE QueueShape'
  <2>1. delivered[i] \in 0..MaxDeliver /\ delivered[i] < MaxDeliver /\ MaxDeliver \in Nat
    BY <1>0, <1>2, PoolAssumption DEF ProcessInvocation, QueueShape, DeliveryInv
  <2>2. delivered' \in [Invocations -> 0..MaxDeliver]
        /\ \A j \in Invocations : j # i => delivered'[j] = delivered[j]
    BY <1>0, <1>2, <2>1 DEF ProcessInvocation, QueueShape
  <2> QED
    BY <1>0, <1>2, <2>2 DEF ProcessInvocation, QueueShape, DeliveryInv, PoolShape
\* The goroutine stays with its invocation, or settles it.
<1>3. ASSUME act.pc # "idle", UNCHANGED delivered, todo' \subseteq todo,
             \/ act'.pc # "idle" /\ act'.inv = act.inv
             \/ act.inv \notin todo' \/ delivered[act.inv] < MaxDeliver
      PROVE  QueueShape'
  <2>1. ASSUME NEW i \in todo' PROVE delivered'[i] < MaxDeliver \/ (act'.pc # "idle" /\ act'.inv = i)
    <3>1. delivered[i] < MaxDeliver \/ act.inv = i
      BY <1>0, <1>3 DEF QueueShape, DeliveryInv
    <3>2. delivered'[i] = delivered[i]
      BY <1>3
    <3> QED
      BY <1>3, <3>1, <3>2, Zenon
  <2> QED
    BY <1>0, <1>3, <2>1 DEF QueueShape, DeliveryInv
<1>4. ASSUME dispatchToWorker \/ noWorkerTemplate \/ finishErr PROVE QueueShape'
  BY <1>3, <1>4 DEF dispatchToWorker, noWorkerTemplate, finishErr, history
<1>5. ASSUME listServerlessUnits \/ syncListed PROVE QueueShape'
  <2>1. act.pc = "sync" => act \in Listed
    BY <1>0, ActAt
  <2>2. act'.pc # "idle" /\ act'.inv = act.inv
    BY <1>5, <2>1 DEF listServerlessUnits, syncListed, Listed
  <2> QED
    BY <1>3, <1>5, <2>2 DEF listServerlessUnits, syncListed, history
<1>6. ASSUME \/ pickRegistered \/ awaitPending \/ waitForWorkerReady \/ registerReady
             \/ readyWaitExpires \/ backpressure \/ createWorker \/ acquireFails \/ dispatchFails
      PROVE  QueueShape'
  <2>1. act.pc # "idle" /\ UNCHANGED <<todo, delivered>>
    BY <1>6 DEF pickRegistered, awaitPending, waitForWorkerReady, registerReady, readyWaitExpires,
       backpressure, createWorker, CreateUnit, acquireFails, dispatchFails, history
  <2>2. act'.pc # "idle" /\ act'.inv = act.inv
    BY <1>6 DEF pickRegistered, awaitPending, waitForWorkerReady, registerReady, readyWaitExpires,
       backpressure, createWorker, acquireFails, dispatchFails, With, Err
  <2> QED
    BY <1>3, <2>1, <2>2
<1> QED
  BY <1>1, <1>2, <1>4, <1>5, <1>6, WhoMoves DEF InvocationStep, Activate

LEMMA ShapeInit == Init => ShapeInv
<1> SUFFICES ASSUME Init PROVE ShapeInv
  OBVIOUS
<1>1. IsFiniteSet(metrics) /\ Cardinality(metrics) = 0
  BY FS_EmptySet DEF Init
<1>2. PoolShape
  BY PoolAssumption DEF Init, PoolShape, Snaps, Phases
<1>3. SideShape
  BY <1>1, PoolAssumption DEF Init, SideShape, MetricInv, Unknown, Live
<1>4. ActInv /\ LifeInv
  BY DEF Init, ActInv, LifeInv
<1>5. QueueShape
  <2>1. todo = Invocations /\ delivered = [i \in Invocations |-> 0]
    BY DEF Init
  <2>2. MaxDeliver \in Nat \ {0}
    BY PoolAssumption
  <2> QED
    BY <2>1, <2>2 DEF QueueShape, DeliveryInv
<1> QED
  BY <1>2, <1>3, <1>4, <1>5, ShapeParts

LEMMA ShapeInvariant == Spec => []ShapeInv
<1>1. ShapeInv /\ [Next]_vars => ShapeInv'
  <2>1. (PoolShape /\ SideShape /\ ActInv /\ LifeInv /\ QueueShape)' => ShapeInv'
    BY ShapeParts, PTL
  <2> QED
    BY <2>1, PoolStep, SideStep, ActStep, LifeStep, QueueStep
<1> QED
  BY ShapeInit, <1>1, PTL DEF Spec

\* Everything keeps its type: no invocation is delivered more than MaxDeliver
\* times, and nothing executes without a sidecar.
THEOREM TypeCorrect == Spec => []TypeOK
<1>1. ShapeInv => TypeOK
  BY DEF ShapeInv
<1> QED
  BY ShapeInvariant, <1>1, PTL

-----------------------------------------------------------------------------
(* The limit of pending workers.                                           *)

\* Only acquireWorker adds a worker to those that activation has on the way.
LEMMA OthersDoNotActivate ==
  ASSUME ShapeInv, [Next]_vars, ~createWorker
  PROVE  ActivationPending' \subseteq ActivationPending
<1>0. PoolShape /\ ActInv
  BY ShapeParts
<1>1. ASSUME NEW n \in Names, unit' = [unit EXCEPT ![n] = unit'[n]], UNCHANGED creator,
             unit'[n] \in {"new", "progressing", "failed"}
               => unit[n] \in {"new", "progressing", "failed"}
      PROVE  ActivationPending' \subseteq ActivationPending
  <2>1. \A m \in Managed : m # n => unit'[m] = unit[m]
    BY <1>0, <1>1, PoolAssumption DEF PoolShape, Snaps
  <2> QED
    BY <1>1, <2>1 DEF ActivationPending
<1>2. ASSUME UNCHANGED <<unit, creator>> PROVE ActivationPending' \subseteq ActivationPending
  BY <1>2 DEF ActivationPending
<1>3. ASSUME InvocationStep PROVE UNCHANGED <<unit, creator>>
  BY <1>3 DEF InvocationStep, Activate, ProcessInvocation, listServerlessUnits, syncListed,
     pickRegistered, noWorkerTemplate, awaitPending, waitForWorkerReady, registerReady, readyWaitExpires,
     backpressure, dispatchToWorker, acquireFails, finishErr, dispatchFails, apiVars
<1>4. ASSUME ensureMinAvailable PROVE ActivationPending' \subseteq ActivationPending
  <2>1. CASE CreateUnit(WarmName, "other")
    <3>1. /\ creator'[WarmName] = "other"
          /\ \A m \in Names : m # WarmName => unit'[m] = unit[m] /\ creator'[m] = creator[m]
      BY <1>0, <2>1, CreatedUnit, PoolAssumption
    <3> QED
      BY <3>1, PoolAssumption DEF ActivationPending
  <2>2. CASE UNCHANGED apiVars
    BY <1>2, <2>2 DEF apiVars
  <2> QED
    BY <1>4, <2>1, <2>2 DEF ensureMinAvailable
<1>5. ASSUME NEW n \in Names, removeIdleWorker(n) PROVE ActivationPending' \subseteq ActivationPending
  BY <1>0, <1>1, <1>5 DEF removeIdleWorker, PoolShape, Snaps
<1>6. ASSUME NEW n \in Names, Controller(n) PROVE ActivationPending' \subseteq ActivationPending
  BY <1>0, <1>1, <1>6 DEF Controller, UnitProgresses, UnitBecomesReady, env, envBut, PoolShape, Snaps
<1>7. ASSUME NEW n \in Names, UnitDisturbed(n) PROVE ActivationPending' \subseteq ActivationPending
  BY <1>0, <1>1, <1>7 DEF UnitDisturbed, envBut, PoolShape, Snaps
<1>8. ASSUME \/ lifecycleList \/ lifecycleSync \/ deleteIdleWorkers \/ lifecycleDone \/ prewarmFails
             \/ (\E n \in Names : removalFails(n)) \/ Tick \/ UNCHANGED vars
             \/ (\E m \in metrics : ObserveMetric(m)) \/ \E n \in Managed : Sidecar(n)
      PROVE  UNCHANGED <<unit, creator>>
  BY <1>8 DEF lifecycleList, lifecycleSync, deleteIdleWorkers, lifecycleDone, prewarmFails,
     removalFails, Tick, ObserveMetric, Sidecar, Run, HandleDispatchStarts, HandleDispatchFinishes,
     HandleDispatchErr, heartbeatLoop, SidecarStops, others, apiVars, vars
<1> QED
  BY <1>2, <1>3, <1>4, <1>5, <1>6, <1>7, <1>8, WhoMoves DEF LifecycleStep, Lifecycle, Elsewhere

LEMMA PendingStep == ShapeInv /\ PendingInv /\ [Next]_vars => PendingInv'
<1> SUFFICES ASSUME ShapeInv, PendingInv, [Next]_vars PROVE PendingInv'
  OBVIOUS
<1> DEFINE Held == {"sync", "pick", "waitPending", "create"}
<1>0. PoolShape /\ ActInv
  BY ShapeParts
<1>1. /\ ActivationPending \in SUBSET Names /\ ActivationPending' \in SUBSET Names
      /\ Cardinality(ActivationPending) <= MaxPending
  BY PoolAssumption DEF ActivationPending, PendingInv, ActivationPendingBounded
<1>2. ASSUME NEW S \in SUBSET Names, NEW T \in SUBSET S
      PROVE  /\ IsFiniteSet(S) /\ Cardinality(S) \in Nat /\ Cardinality(T) \in Nat
             /\ Cardinality(T) <= Cardinality(S)
  <2>1. T \in SUBSET Names /\ IsFiniteSet(S)
    BY FiniteParts
  <2>2. Cardinality(T) <= Cardinality(S)
    BY <2>1, FS_Subset
  <2> QED
    BY <2>1, <2>2, FiniteParts
<1>3. ASSUME ActivationPending' \subseteq ActivationPending PROVE ActivationPendingBounded'
  <2>1. Cardinality(ActivationPending') <= Cardinality(ActivationPending)
    BY <1>1, <1>2, <1>3
  <2> QED
    BY <1>1, <2>1, FiniteParts, PoolAssumption DEF ActivationPendingBounded
<1>4. CASE createWorker
  <2>1. act \in Creating /\ act.pc = "create"
    BY <1>0, <1>4, ActAt DEF createWorker
  <2>2. ActivationPending \subseteq Pending(act.snap) \cap Managed
    BY <2>1 DEF PendingInv, ActivationPending
  <2>3. act'.pc \notin Held
    BY <1>4 DEF createWorker, With, Err
  <2>4. ASSUME CreateUnit(WorkerName[act.inv], act.inv) PROVE ActivationPendingBounded'
    <3>1. PICK n \in Managed : CreateUnit(n, act.inv)
      BY <2>1, <2>4, PoolAssumption DEF Creating
    <3>2. ActivationPending' \subseteq ActivationPending \cup {n}
      <4>1. \A m \in Names : m # n => unit'[m] = unit[m] /\ creator'[m] = creator[m]
        BY <1>0, <2>1, <3>1, CreatedUnit, PoolAssumption DEF Creating
      <4> QED
        BY <4>1, PoolAssumption DEF ActivationPending
    <3>3. Cardinality(ActivationPending) < MaxPending
      <4>1. Pending(act.snap) \cap Managed \in SUBSET Names
        BY PoolAssumption
      <4>2. Cardinality(ActivationPending) <= Cardinality(Pending(act.snap) \cap Managed)
        BY <1>2, <2>2, <4>1
      <4>3. Cardinality(Pending(act.snap) \cap Managed) < MaxPending
        BY <1>4 DEF createWorker, underPendingLimit, pendingManagedWorkers
      <4> QED
        BY <1>1, <4>1, <4>2, <4>3, FiniteParts, PoolAssumption
    <3>4. Cardinality(ActivationPending \cup {n}) <= MaxPending
      <4>1. /\ IsFiniteSet(ActivationPending) /\ Cardinality(ActivationPending) \in Nat
            /\ Cardinality(ActivationPending \cup {n}) =
                 IF n \in ActivationPending THEN Cardinality(ActivationPending)
                 ELSE Cardinality(ActivationPending) + 1
        BY <1>1, FiniteParts, FS_AddElement
      <4> QED
        BY <3>3, <4>1, PoolAssumption
    <3>5. ActivationPending \cup {n} \in SUBSET Names
      BY <1>1, PoolAssumption
    <3>6. /\ Cardinality(ActivationPending') <= Cardinality(ActivationPending \cup {n})
          /\ Cardinality(ActivationPending') \in Nat /\ Cardinality(ActivationPending \cup {n}) \in Nat
      BY <1>2, <3>2, <3>5
    <3> QED
      BY <3>4, <3>6, PoolAssumption DEF ActivationPendingBounded
  <2>5. ASSUME UNCHANGED apiVars PROVE ActivationPendingBounded'
    BY <1>3, <2>5 DEF apiVars, ActivationPending
  <2>6. ActivationPendingBounded'
    BY <1>4, <2>4, <2>5 DEF createWorker
  <2> QED
    BY <2>3, <2>6 DEF PendingInv
<1>5. CASE ~createWorker
  <2>1. ActivationPending' \subseteq ActivationPending
    BY <1>5, OthersDoNotActivate
  <2>2. CASE listServerlessUnits
    <3>1. act'.snap = unit /\ UNCHANGED unit
      BY <2>2 DEF listServerlessUnits, apiVars
    <3>2. ActivationPending' \subseteq Pending(unit)
      BY <2>1, PoolAssumption DEF ActivationPending, Pending, Live, ReadyIn
    <3> QED
      BY <1>3, <2>1, <3>1, <3>2 DEF PendingInv
  <2>3. CASE ~listServerlessUnits
    <3>1. act'.pc \in Held => act.pc \in Held /\ act'.snap = act.snap
      <4>1. CASE UNCHANGED act
        BY <4>1
      <4>2. CASE syncListed
        <5>1. act \in Listed
          BY <1>0, <4>2, ActAt DEF syncListed
        <5> QED
          BY <4>2, <5>1 DEF syncListed, Listed
      <4>3. CASE InvocationStep /\ ~syncListed
        BY <1>5, <2>3, <4>3 DEF InvocationStep, Activate, ProcessInvocation,
           pickRegistered, noWorkerTemplate, awaitPending, waitForWorkerReady, registerReady, readyWaitExpires,
           backpressure, dispatchToWorker, acquireFails, finishErr, dispatchFails, With, Err, ActIdle
      <4> QED
        BY <4>1, <4>2, <4>3, WhoMoves
    <3>2. act'.pc \in Held => ActivationPending' \subseteq Pending(act'.snap)
      BY <2>1, <3>1 DEF PendingInv
    <3> QED
      BY <1>3, <2>1, <3>2 DEF PendingInv
  <2> QED
    BY <2>2, <2>3
<1> QED
  BY <1>4, <1>5

\* However old its list is, acquireWorker keeps to maxPendingWorkersPerRequestID.
THEOREM PendingWorkersBounded == Spec => []ActivationPendingBounded
<1>1. Init => PendingInv
  <2> SUFFICES ASSUME Init PROVE PendingInv
    OBVIOUS
  <2>1. ActivationPending = {}
    BY PoolAssumption DEF Init, ActivationPending
  <2>2. Cardinality(ActivationPending) = 0
    BY <2>1, FS_EmptySet
  <2> QED
    BY <2>2, PoolAssumption DEF Init, PendingInv, ActivationPendingBounded, ActIdle
<1>2. PendingInv => ActivationPendingBounded
  BY DEF PendingInv
<1> QED
  BY ShapeInvariant, <1>1, <1>2, PendingStep, PTL DEF Spec

-----------------------------------------------------------------------------
(* Deleted workers get no dispatches.                                      *)

\* A unit that the lifecycle goroutine deleted stays absent until it is created
\* again, which takes it off `removed`.
LEMMA RemovedStayAbsent ==
  ASSUME ShapeInv, [Next]_vars, \A n \in removed : unit[n] = "absent"
  PROVE  \A n \in removed' : unit'[n] = "absent"
<1>0. PoolShape /\ ActInv
  BY ShapeParts
<1>1. ASSUME NEW n \in Names, unit' = [unit EXCEPT ![n] = unit'[n]], UNCHANGED removed,
             unit[n] # "absent" \/ unit'[n] = "absent"
      PROVE  \A m \in removed' : unit'[m] = "absent"
  BY <1>0, <1>1 DEF PoolShape, Snaps
<1>2. ASSUME UNCHANGED <<unit, removed>> PROVE \A m \in removed' : unit'[m] = "absent"
  BY <1>2
<1>3. ASSUME NEW n \in Names, NEW source \in Invocations \cup {"other"}, CreateUnit(n, source)
      PROVE  \A m \in removed' : unit'[m] = "absent"
  BY <1>0, <1>3, CreatedUnit DEF PoolShape
<1>4. ASSUME createWorker PROVE \A m \in removed' : unit'[m] = "absent"
  <2>1. act.inv \in Invocations /\ WorkerName[act.inv] \in Names
    BY <1>0, <1>4, ActAt, PoolAssumption DEF createWorker, Creating
  <2> QED
    BY <1>2, <1>3, <1>4, <2>1 DEF createWorker, apiVars, history
<1>5. ASSUME ensureMinAvailable PROVE \A m \in removed' : unit'[m] = "absent"
  BY <1>2, <1>3, <1>5, PoolAssumption DEF ensureMinAvailable, apiVars, history
<1>6. ASSUME NEW n \in Names, removeIdleWorker(n) PROVE \A m \in removed' : unit'[m] = "absent"
  BY <1>0, <1>6 DEF removeIdleWorker, PoolShape, Snaps
<1>7. ASSUME NEW n \in Names, Controller(n) \/ UnitDisturbed(n)
      PROVE  \A m \in removed' : unit'[m] = "absent"
  BY <1>0, <1>1, <1>7 DEF Controller, UnitProgresses, UnitBecomesReady, UnitDisturbed, env,
     history, PoolShape, Snaps
<1>8. ASSUME InvocationStep, ~createWorker PROVE UNCHANGED <<unit, removed>>
  BY <1>8 DEF InvocationStep, Activate, ProcessInvocation, listServerlessUnits, syncListed,
     pickRegistered, noWorkerTemplate, awaitPending, waitForWorkerReady, registerReady, readyWaitExpires,
     backpressure, dispatchToWorker, acquireFails, finishErr, dispatchFails, apiVars, history
<1>9. ASSUME \/ lifecycleList \/ lifecycleSync \/ deleteIdleWorkers \/ lifecycleDone \/ prewarmFails
             \/ (\E n \in Names : removalFails(n)) \/ Tick \/ UNCHANGED vars
             \/ (\E m \in metrics : ObserveMetric(m)) \/ \E n \in Managed : Sidecar(n)
      PROVE  UNCHANGED <<unit, removed>>
  BY <1>9 DEF lifecycleList, lifecycleSync, deleteIdleWorkers, lifecycleDone, prewarmFails,
     removalFails, Tick, ObserveMetric, Sidecar, Run, HandleDispatchStarts, HandleDispatchFinishes,
     HandleDispatchErr, heartbeatLoop, SidecarStops, others, apiVars, history, vars
<1> QED
  BY <1>2, <1>4, <1>5, <1>6, <1>7, <1>8, <1>9, WhoMoves DEF LifecycleStep, Lifecycle, Elsewhere

LEMMA GoneStep == ShapeInv /\ GoneInv /\ [Next]_vars => GoneInv'
<1> SUFFICES ASSUME ShapeInv, GoneInv, [Next]_vars PROVE GoneInv'
  OBVIOUS
<1>0. PoolShape /\ ActInv /\ LifeInv
  BY ShapeParts
<1>1. \A n \in removed' : unit'[n] = "absent"
  BY RemovedStayAbsent DEF GoneInv
<1> USE DEF NoDispatchToDeleted
\* The invocation goroutine leaves the lists of the other one alone.
<1>2. ASSUME InvocationStep, removed' \subseteq removed,
             act'.pc = "sync" => \A n \in gone' : act'.snap[n] = "absent",
             act'.pc = "pick" => registry' \cap gone' = {},
             act'.pc = "register" => act'.worker \notin gone',
             act'.pc = "dispatch" => act'.worker \notin gone'
      PROVE  GoneInv'
  BY <1>1, <1>2, WhoMoves DEF GoneInv
<1>3. ASSUME listServerlessUnits PROVE GoneInv'
  <2>1. InvocationStep
    BY <1>3 DEF InvocationStep, Activate
  <2> QED
    BY <1>2, <1>3, <2>1 DEF listServerlessUnits, GoneInv
<1>4. ASSUME syncListed PROVE GoneInv'
  <2>1. InvocationStep /\ act \in Listed
    BY <1>0, <1>4, ActAt DEF InvocationStep, Activate, syncListed
  <2>2. act'.pc = "pick" /\ UNCHANGED <<removed, gone>> /\ registry' = ReadyIn(act.snap)
    BY <1>4, <2>1 DEF syncListed, Sync, Listed, history
  <2>3. registry' \cap gone' = {}
    BY <1>4, <2>2 DEF syncListed, GoneInv, ReadyIn
  <2> QED
    BY <1>2, <2>1, <2>2, <2>3
<1>5. ASSUME pickRegistered PROVE GoneInv'
  <2>1. InvocationStep /\ Pick \in registry
    BY <1>0, <1>5, MinIsInSet, PoolAssumption DEF InvocationStep, Activate, pickRegistered, Pick,
       PoolShape
  <2> QED
    BY <1>2, <1>5, <2>1 DEF pickRegistered, With, GoneInv, history
<1>6. ASSUME waitForWorkerReady PROVE GoneInv'
  <2>1. InvocationStep /\ act.worker \notin gone
    BY <1>0, <1>6 DEF InvocationStep, Activate, waitForWorkerReady, GoneInv, PoolShape
  <2> QED
    BY <1>2, <1>6, <2>1 DEF waitForWorkerReady, With, history
<1>15. ASSUME registerReady PROVE GoneInv'
  <2>1. InvocationStep /\ act.worker \notin gone
    BY <1>15 DEF InvocationStep, Activate, registerReady, GoneInv
  <2> QED
    BY <1>2, <1>15, <2>1 DEF registerReady, With, history
<1>7. ASSUME createWorker PROVE GoneInv'
  <2>1. InvocationStep /\ removed' \subseteq removed
    BY <1>7 DEF InvocationStep, Activate, createWorker, CreateUnit, history
  <2> QED
    BY <1>2, <1>7, <2>1 DEF createWorker, With, Err
<1>8. ASSUME InvocationStep, ~listServerlessUnits, ~syncListed, ~pickRegistered,
             ~waitForWorkerReady, ~registerReady, ~createWorker
      PROVE  GoneInv'
  <2>1. act'.pc \in {"idle", "list", "waitPending", "create", "failed"} /\ UNCHANGED removed
    BY <1>8 DEF InvocationStep, Activate, ProcessInvocation, noWorkerTemplate, awaitPending,
       readyWaitExpires, backpressure, dispatchToWorker, acquireFails, finishErr, dispatchFails, With,
       Err, ActIdle, history
  <2> QED
    BY <1>2, <1>8, <2>1
\* The lifecycle goroutine deletes only between two of its lists.
<1>9. ASSUME UNCHANGED act, gone' \subseteq gone, act.pc = "pick" => registry' \cap gone' = {},
             life'.pc = "sync" => \A n \in removed' : life'.snap[n] = "absent"
      PROVE  GoneInv'
  BY <1>1, <1>9 DEF GoneInv
<1>10. ASSUME lifecycleList PROVE GoneInv'
  BY <1>9, <1>10 DEF lifecycleList, lifeVars, history, GoneInv
<1>11. ASSUME lifecycleSync PROVE GoneInv'
  <2>1. registry' \cap gone' = {}
    BY <1>0, <1>11 DEF lifecycleSync, Sync, ReadyIn, GoneInv, PoolShape, history
  <2> QED
    BY <1>9, <1>11, <2>1 DEF lifecycleSync, lifeVars, history
<1>12. ASSUME ensureMinAvailable \/ prewarmFails PROVE GoneInv'
  <2>1. life \in Warming
    BY <1>0, <1>12, LifeAt DEF ensureMinAvailable, prewarmFails
  <2>2. life'.pc = "warm" /\ UNCHANGED <<act, registry>> /\ gone' \subseteq gone
    BY <1>12, <2>1 DEF ensureMinAvailable, prewarmFails, CreateUnit, Warming, lifeVars, history
  <2> QED
    BY <1>9, <2>2 DEF GoneInv
<1>13. ASSUME deleteIdleWorkers \/ lifecycleDone \/ \E n \in Names : removeIdleWorker(n) \/ removalFails(n)
       PROVE  GoneInv'
  <2>1. life.pc \in {"warm", "delete"}
    BY <1>13 DEF deleteIdleWorkers, lifecycleDone, removeIdleWorker, removalFails
  <2>2. UNCHANGED <<act, registry, gone>>
    BY <1>13 DEF deleteIdleWorkers, lifecycleDone, removeIdleWorker, removalFails, lifeVars, history
  <2>3. life'.pc # "sync"
    <3>1. CASE deleteIdleWorkers \/ lifecycleDone
      BY <3>1 DEF deleteIdleWorkers, lifecycleDone, LifeIdle
    <3>2. CASE \E n \in Names : removeIdleWorker(n) \/ removalFails(n)
      <4>1. life \in Deleting
        BY <1>0, <3>2, LifeAt DEF removeIdleWorker, removalFails
      <4> QED
        BY <3>2, <4>1 DEF removeIdleWorker, removalFails, Deleting
    <3> QED
      BY <1>13, <3>1, <3>2
  <2> QED
    BY <1>9, <2>2, <2>3 DEF GoneInv
<1>14. ASSUME Elsewhere PROVE GoneInv'
  BY <1>9, <1>14, WhoMoves DEF GoneInv
<1> QED
  BY <1>3, <1>4, <1>5, <1>6, <1>7, <1>8, <1>10, <1>11, <1>12, <1>13, <1>14, <1>15, WhoMoves
     DEF LifecycleStep, Lifecycle

\* An invocation never goes to a worker that the lifecycle goroutine had deleted
\* before acquireWorker listed the units, for any interleaving of their Syncs.
THEOREM DeletedWorkersGetNoDispatch == Spec => []NoDispatchToDeleted
<1>1. Init => GoneInv
  BY DEF Init, GoneInv, NoDispatchToDeleted, ActIdle, LifeIdle
<1>2. GoneInv => NoDispatchToDeleted
  BY DEF GoneInv
<1> QED
  BY ShapeInvariant, <1>1, <1>2, GoneStep, PTL DEF Spec

-----------------------------------------------------------------------------
(* What a failed delivery leaves behind.                                   *)

\* Once the pool was scaled up it stays so: workers only go when they are deleted.
\* A list with a managed unit, or a create that was made or refused, shows that it was.
ScaledInv ==
  /\ act.pc \in {"sync", "pick", "waitPending", "create"} =>
       ((\E n \in Managed : act.snap[n] # "absent") => ScaledUp)
  /\ act.pc = "waitCreated" => ScaledUp
  /\ NoDeliveryWasted

LEMMA ScaledUpStays ==
  ASSUME ShapeInv, [Next]_vars, ScaledUp
  PROVE  ScaledUp'
<1>0. PoolShape /\ ActInv
  BY ShapeParts
<1>1. ASSUME UNCHANGED <<unit, disturbed, removed>> PROVE ScaledUp'
  BY <1>1 DEF ScaledUp
<1>2. ASSUME NEW n \in Managed, NEW source \in Invocations \cup {"other"}, CreateUnit(n, source)
      PROVE  ScaledUp'
  BY <1>0, <1>2, CreatedUnit, PoolAssumption DEF ScaledUp
<1>3. ASSUME createWorker PROVE ScaledUp'
  <2>1. act.inv \in Invocations /\ WorkerName[act.inv] \in Managed
    BY <1>0, <1>3, ActAt, PoolAssumption DEF createWorker, Creating
  <2> QED
    BY <1>1, <1>2, <1>3, <2>1 DEF createWorker, apiVars, history
<1>4. ASSUME ensureMinAvailable PROVE ScaledUp'
  BY <1>1, <1>2, <1>4, PoolAssumption DEF ensureMinAvailable, apiVars, history
<1>5. ASSUME NEW n \in Names, removeIdleWorker(n) \/ UnitDisturbed(n) PROVE ScaledUp'
  <2>1. disturbed \in Nat
    BY <1>0, PoolAssumption DEF PoolShape
  <2> QED
    BY <1>5, <2>1 DEF removeIdleWorker, UnitDisturbed, ScaledUp
<1>6. ASSUME NEW n \in Names, Controller(n) PROVE ScaledUp'
  <2>1. \A m \in Names : unit[m] # "absent" => unit'[m] # "absent"
    BY <1>0, <1>6 DEF Controller, UnitProgresses, UnitBecomesReady, PoolShape, Snaps
  <2> QED
    BY <1>6, <2>1, PoolAssumption DEF Controller, UnitProgresses, UnitBecomesReady, env, history,
       ScaledUp
<1>8. ASSUME InvocationStep, ~createWorker PROVE UNCHANGED <<unit, disturbed, removed>>
  BY <1>8 DEF InvocationStep, Activate, ProcessInvocation, listServerlessUnits, syncListed,
     pickRegistered, noWorkerTemplate, awaitPending, waitForWorkerReady, registerReady,
     readyWaitExpires, backpressure, dispatchToWorker, acquireFails, finishErr, dispatchFails,
     apiVars, history
<1>9. ASSUME \/ lifecycleList \/ lifecycleSync \/ deleteIdleWorkers \/ lifecycleDone \/ prewarmFails
             \/ (\E n \in Names : removalFails(n)) \/ Tick \/ UNCHANGED vars
             \/ (\E m \in metrics : ObserveMetric(m)) \/ \E n \in Managed : Sidecar(n)
      PROVE  UNCHANGED <<unit, disturbed, removed>>
  BY <1>9 DEF lifecycleList, lifecycleSync, deleteIdleWorkers, lifecycleDone, prewarmFails,
     removalFails, Tick, ObserveMetric, Sidecar, Run, HandleDispatchStarts, HandleDispatchFinishes,
     HandleDispatchErr, heartbeatLoop, SidecarStops, others, apiVars, history, vars
<1> QED
  BY <1>1, <1>3, <1>4, <1>5, <1>6, <1>8, <1>9, WhoMoves DEF LifecycleStep, Lifecycle, Elsewhere

LEMMA ScaledStep == ShapeInv /\ ScaledInv /\ [Next]_vars => ScaledInv'
<1> SUFFICES ASSUME ShapeInv, ScaledInv, [Next]_vars PROVE ScaledInv'
  OBVIOUS
<1>0. PoolShape /\ ActInv
  BY ShapeParts
<1> USE DEF NoDeliveryWasted
<1>1. ASSUME ScaledUp' PROVE ScaledInv'
  BY <1>1 DEF ScaledInv
<1>2. CASE ScaledUp
  BY <1>1, <1>2, ScaledUpStays
<1>3. CASE ~ScaledUp
  <2>1. ASSUME act'.pc \in {"idle", "list", "register", "dispatch"} PROVE ScaledInv'
    BY <2>1 DEF ScaledInv
  <2>2. ASSUME act' = Err("call") PROVE ScaledInv'
    BY <2>2 DEF ScaledInv, Err
  <2>3. CASE UNCHANGED act
    BY <1>3, <2>3 DEF ScaledInv
  <2>4. CASE listServerlessUnits
    <3>1. act'.pc = "sync" /\ act'.snap = unit
      BY <2>4 DEF listServerlessUnits
    <3> QED
      BY <1>3, <3>1 DEF ScaledInv, ScaledUp
  <2>5. CASE syncListed
    <3>1. act \in Listed
      BY <1>0, <2>5, ActAt DEF syncListed
    <3>2. act.pc = "sync" /\ act'.pc = "pick" /\ act'.snap = act.snap
      BY <2>5, <3>1 DEF syncListed, Listed
    <3> QED
      BY <1>3, <3>2 DEF ScaledInv
  <2>6. CASE awaitPending \/ (readyWaitExpires /\ act.pc = "waitPending")
    <3>1. /\ act.pc \in {"pick", "waitPending"} /\ act'.pc \in {"waitPending", "create"}
          /\ act'.snap = act.snap
      BY <2>6 DEF awaitPending, readyWaitExpires, With
    <3> QED
      BY <1>3, <3>1 DEF ScaledInv
  <2>7. ~(readyWaitExpires /\ act.pc # "waitPending")
    BY <1>3 DEF readyWaitExpires, ScaledInv
  \* No managed worker in the list: the limit, which is positive, is not reached.
  <2>8. ~backpressure
    <3> SUFFICES ASSUME backpressure PROVE FALSE
      OBVIOUS
    <3>1. Pending(act.snap) \cap Managed = {}
      BY <1>3 DEF backpressure, ScaledInv, Pending, Live
    <3>2. pendingManagedWorkers(act.snap) = 0
      BY <3>1, FS_EmptySet DEF pendingManagedWorkers
    <3> QED
      BY <3>2, PoolAssumption DEF backpressure, underPendingLimit
  <2>9. CASE createWorker
    <3>1. act.inv \in Invocations /\ WorkerName[act.inv] \in Managed
      BY <1>0, <2>9, ActAt, PoolAssumption DEF createWorker, Creating
    <3>2. unit'[WorkerName[act.inv]] # "absent"
      BY <1>0, <2>9, <3>1, CreatedUnit, PoolAssumption DEF createWorker, apiVars
    <3> QED
      BY <1>1, <3>1, <3>2 DEF ScaledUp
  <2>10. CASE \/ (\E i \in Invocations : ProcessInvocation(i)) \/ pickRegistered \/ noWorkerTemplate
              \/ waitForWorkerReady \/ registerReady \/ dispatchToWorker \/ finishErr
    BY <2>1, <2>10 DEF ProcessInvocation, pickRegistered, noWorkerTemplate, waitForWorkerReady,
       registerReady, dispatchToWorker, finishErr, With, ActIdle
  <2>11. CASE acquireFails \/ dispatchFails
    BY <2>2, <2>11 DEF acquireFails, dispatchFails
  <2> QED
    BY <2>3, <2>4, <2>5, <2>6, <2>7, <2>8, <2>9, <2>10, <2>11, WhoMoves DEF InvocationStep, Activate
<1> QED
  BY <1>2, <1>3

\* No delivery of an invocation is used up by waiting for a unit outside the pool:
\* unless a call failed, a worker of the pool was made before the handler gave up.
THEOREM DeliveriesAreNotWasted == Spec => []NoDeliveryWasted
<1>1. Init => ScaledInv
  BY DEF Init, ScaledInv, NoDeliveryWasted, ActIdle
<1>2. ScaledInv => NoDeliveryWasted
  BY DEF ScaledInv
<1> QED
  BY ShapeInvariant, <1>1, <1>2, ScaledStep, PTL DEF Spec

-----------------------------------------------------------------------------
(* The minimum of ready units.                                             *)

\* A set of units of which at most `disturbed` are not ready stays one, unless the
\* lifecycle goroutine deletes a unit of it.
LEMMA KeptUnits ==
  ASSUME ShapeInv, [Next]_vars, NEW keep \in SUBSET Names,
         Cardinality(keep \ ReadyIn(unit)) <= disturbed,
         ~\E n \in keep : removeIdleWorker(n)
  PROVE  Cardinality(keep \ ReadyIn(unit')) <= disturbed'
<1>0. PoolShape /\ ActInv
  BY ShapeParts
<1>1. /\ disturbed \in Nat /\ keep \ ReadyIn(unit) \in SUBSET Names
      /\ keep \ ReadyIn(unit') \in SUBSET Names
  <2>1. disturbed \in Nat
    BY <1>0, PoolAssumption DEF PoolShape
  <2> QED
    BY <2>1
<1>2. ASSUME keep \ ReadyIn(unit') \subseteq keep \ ReadyIn(unit), UNCHANGED disturbed
      PROVE  Cardinality(keep \ ReadyIn(unit')) <= disturbed'
  <2>1. Cardinality(keep \ ReadyIn(unit')) <= Cardinality(keep \ ReadyIn(unit))
    BY <1>1, <1>2, FiniteParts, FS_Subset
  <2>2. Cardinality(keep \ ReadyIn(unit')) \in Nat /\ Cardinality(keep \ ReadyIn(unit)) \in Nat
    BY <1>1, FiniteParts
  <2> QED
    BY <1>1, <1>2, <2>1, <2>2
<1>3. ASSUME NEW n \in Names, UnitDisturbed(n)
      PROVE  Cardinality(keep \ ReadyIn(unit')) <= disturbed'
  <2>1. keep \ ReadyIn(unit') \subseteq (keep \ ReadyIn(unit)) \cup {n} /\ disturbed' = disturbed + 1
    BY <1>0, <1>3 DEF UnitDisturbed, PoolShape, Snaps, ReadyIn
  <2> DEFINE lost == keep \ ReadyIn(unit)
             now == keep \ ReadyIn(unit')
  <2>2. lost \in SUBSET Names /\ now \in SUBSET Names /\ now \subseteq lost \cup {n}
        /\ Cardinality(lost) <= disturbed
    BY <1>1, <2>1
  <2> HIDE DEF lost, now
  <2>3. /\ IsFiniteSet(lost \cup {n}) /\ Cardinality(lost) \in Nat /\ Cardinality(now) \in Nat
        /\ Cardinality(lost \cup {n}) = IF n \in lost THEN Cardinality(lost) ELSE Cardinality(lost) + 1
    BY <2>2, FiniteParts, FS_AddElement
  <2>4. Cardinality(now) <= Cardinality(lost \cup {n})
    BY <2>2, <2>3, FS_Subset
  <2>5. Cardinality(now) <= disturbed'
    BY <1>1, <2>1, <2>2, <2>3, <2>4
  <2> QED
    BY <2>5 DEF now
<1>4. ASSUME NEW n \in Names, removeIdleWorker(n)
      PROVE  keep \ ReadyIn(unit') \subseteq keep \ ReadyIn(unit) /\ UNCHANGED disturbed
  BY <1>0, <1>4 DEF removeIdleWorker, PoolShape, Snaps, ReadyIn
<1>5. ASSUME NEW n \in Names, Controller(n)
      PROVE  keep \ ReadyIn(unit') \subseteq keep \ ReadyIn(unit) /\ UNCHANGED disturbed
  BY <1>0, <1>5 DEF Controller, UnitProgresses, UnitBecomesReady, env, history, PoolShape, Snaps,
     ReadyIn
<1>6. ASSUME createWorker
      PROVE  keep \ ReadyIn(unit') \subseteq keep \ ReadyIn(unit) /\ UNCHANGED disturbed
  <2>1. act.inv \in Invocations /\ WorkerName[act.inv] \in Names
    BY <1>0, <1>6, ActAt, PoolAssumption DEF createWorker, Creating
  <2>2. CASE CreateUnit(WorkerName[act.inv], act.inv)
    BY <1>0, <2>1, <2>2, CreatedUnit
  <2>3. CASE UNCHANGED <<apiVars, history>>
    BY <2>3 DEF apiVars, history
  <2> QED
    BY <1>6, <2>2, <2>3 DEF createWorker
<1>7. ASSUME ensureMinAvailable
      PROVE  keep \ ReadyIn(unit') \subseteq keep \ ReadyIn(unit) /\ UNCHANGED disturbed
  <2>1. CASE CreateUnit(WarmName, "other")
    BY <1>0, <2>1, CreatedUnit, PoolAssumption
  <2>2. CASE UNCHANGED <<apiVars, history>>
    BY <2>2 DEF apiVars, history
  <2> QED
    BY <1>7, <2>1, <2>2 DEF ensureMinAvailable
<1>8. ASSUME InvocationStep, ~createWorker PROVE UNCHANGED <<unit, disturbed>>
  BY <1>8, WhoMoves DEF InvocationStep, Activate, ProcessInvocation, listServerlessUnits,
     syncListed, pickRegistered, noWorkerTemplate, awaitPending, waitForWorkerReady,
     registerReady, readyWaitExpires, backpressure, dispatchToWorker, acquireFails, finishErr, dispatchFails, apiVars
<1>9. ASSUME \/ lifecycleList \/ lifecycleSync \/ deleteIdleWorkers \/ lifecycleDone \/ prewarmFails
             \/ (\E n \in Names : removalFails(n)) \/ Tick \/ UNCHANGED vars
             \/ (\E m \in metrics : ObserveMetric(m)) \/ \E n \in Managed : Sidecar(n)
      PROVE  UNCHANGED <<unit, disturbed>>
  BY <1>9 DEF lifecycleList, lifecycleSync, deleteIdleWorkers, lifecycleDone, prewarmFails,
     removalFails, Tick, ObserveMetric, Sidecar, Run, HandleDispatchStarts, HandleDispatchFinishes,
     HandleDispatchErr, heartbeatLoop, SidecarStops, others, apiVars, history, vars
<1>10. ASSUME UNCHANGED <<unit, disturbed>>
       PROVE  keep \ ReadyIn(unit') \subseteq keep \ ReadyIn(unit) /\ UNCHANGED disturbed
  BY <1>10
<1>11. \/ keep \ ReadyIn(unit') \subseteq keep \ ReadyIn(unit) /\ UNCHANGED disturbed
       \/ \E n \in Names : UnitDisturbed(n)
  BY <1>4, <1>5, <1>6, <1>7, <1>8, <1>9, <1>10, WhoMoves DEF LifecycleStep, Lifecycle, Elsewhere
<1> QED
  BY <1>2, <1>3, <1>11

\* deleteIdleWorkers leaves minAvailableCount units of its list alone.
LEMMA ChosenLeaveMinimum ==
  ASSUME ShapeInv, NEW snap \in Snaps,
         NEW chosen \in kSubset(Min({Surplus(snap), Cardinality(IdleCandidates(snap))}),
                                IdleCandidates(snap)),
         chosen # {}
  PROVE  Cardinality(ReadyIn(snap) \ chosen) >= MinAvailable
<1> DEFINE ready == ReadyIn(snap)
           cands == IdleCandidates(snap)
<1>1. /\ ready \in SUBSET Names /\ cands \in SUBSET ready /\ cands \in SUBSET Names
      /\ chosen \in SUBSET cands
      /\ Cardinality(chosen) = Min({Surplus(snap), Cardinality(cands)})
  BY DEF ReadyIn, IdleCandidates, kSubset
<1>2. Surplus(snap) = IF Cardinality(ready) > MinAvailable THEN Cardinality(ready) - MinAvailable ELSE 0
  BY DEF Surplus
<1> HIDE DEF ready, cands
<1>3. /\ IsFiniteSet(ready) /\ Cardinality(ready) \in Nat /\ Cardinality(cands) \in Nat
      /\ IsFiniteSet(chosen) /\ Cardinality(chosen) \in Nat /\ Surplus(snap) \in Nat
  <2>1. chosen \in SUBSET Names
    BY <1>1
  <2>2. /\ IsFiniteSet(ready) /\ Cardinality(ready) \in Nat /\ Cardinality(cands) \in Nat
        /\ IsFiniteSet(chosen) /\ Cardinality(chosen) \in Nat
    BY <1>1, <2>1, FiniteParts
  <2> QED
    BY <1>2, <2>2, PoolAssumption
<1>4. Cardinality(chosen) <= Surplus(snap)
  BY <1>1, <1>3, MinIsInSet
<1>5. Cardinality(chosen) # 0
  BY <1>3, FS_EmptySet
<1>6. Cardinality(ready \ chosen) = Cardinality(ready) - Cardinality(chosen)
  <2>1. ready \cap chosen = chosen
    BY <1>1
  <2> QED
    BY <1>3, <2>1, FS_Difference
<1>7. Cardinality(ready \ chosen) >= MinAvailable
  BY <1>2, <1>3, <1>4, <1>5, <1>6, PoolAssumption
<1> QED
  BY <1>7 DEF ready

LEMMA MinimumStep == ShapeInv /\ MinimumInv /\ [Next]_vars => MinimumInv'
<1> SUFFICES ASSUME ShapeInv, MinimumInv, [Next]_vars PROVE MinimumInv'
  OBVIOUS
<1>0. PoolShape /\ LifeInv /\ disturbed \in Nat
  BY ShapeParts, PoolAssumption DEF PoolShape
<1>1. \A snap : ReadyIn(snap) \in SUBSET Names
  BY DEF ReadyIn
\* The list is kept, and nothing is deleted.
<1>2. ASSUME life.pc \in {"sync", "warm"}, life'.pc \in {"sync", "warm"}, life'.snap = life.snap
      PROVE  MinimumInv'
  <2>1. ~\E n \in Names : removeIdleWorker(n)
    BY <1>2 DEF removeIdleWorker
  <2>2. Cardinality(ReadyIn(life.snap) \ ReadyIn(unit')) <= disturbed'
    BY <1>1, <1>2, <2>1, KeptUnits DEF MinimumInv
  <2> QED
    BY <1>2, <2>2 DEF MinimumInv
<1>3. ASSUME lifecycleList PROVE MinimumInv'
  <2>1. life'.pc = "sync" /\ life'.snap = unit /\ UNCHANGED <<unit, disturbed>>
    BY <1>3 DEF lifecycleList, apiVars, history
  <2>2. ReadyIn(unit) \ ReadyIn(unit) = {} /\ Cardinality({}) = 0
    BY FS_EmptySet
  <2> QED
    BY <1>0, <2>1, <2>2 DEF MinimumInv
<1>4. ASSUME lifecycleSync \/ ensureMinAvailable \/ prewarmFails PROVE MinimumInv'
  <2>1. life \in LifeListed \/ life \in Warming
    BY <1>0, <1>4, LifeAt DEF lifecycleSync, ensureMinAvailable, prewarmFails
  <2>2. CASE lifecycleSync
    BY <1>2, <2>2 DEF lifecycleSync
  <2>3. CASE ensureMinAvailable \/ prewarmFails
    <3>1. life \in Warming
      BY <1>0, <2>3, LifeAt DEF ensureMinAvailable, prewarmFails
    <3>2. life.pc = "warm" /\ life'.pc = "warm" /\ life'.snap = life.snap
      BY <2>3, <3>1 DEF ensureMinAvailable, prewarmFails, Warming
    <3> QED
      BY <1>2, <3>2
  <2> QED
    BY <1>4, <2>2, <2>3
<1>5. ASSUME deleteIdleWorkers PROVE MinimumInv'
  <2>1. life \in Warming /\ life.pc = "warm" /\ UNCHANGED <<unit, disturbed>>
    BY <1>0, <1>5, LifeAt DEF deleteIdleWorkers, apiVars, history
  <2>2. PICK chosen \in kSubset(Min({Surplus(life.snap), Cardinality(IdleCandidates(life.snap))}),
                                IdleCandidates(life.snap)) :
          life'.pc = "delete" /\ life'.victims = chosen
    BY <1>5 DEF deleteIdleWorkers
  <2>3. life.snap \in Snaps
    BY <2>1 DEF Warming
  <2> DEFINE keep == ReadyIn(life.snap) \ chosen
  <2>4. chosen # {} => Cardinality(keep) >= MinAvailable
    BY <2>3, ChosenLeaveMinimum
  <2>5. Cardinality(keep \ ReadyIn(unit)) <= disturbed
    <3>1. /\ keep \ ReadyIn(unit) \in SUBSET (ReadyIn(life.snap) \ ReadyIn(unit))
          /\ ReadyIn(life.snap) \ ReadyIn(unit) \in SUBSET Names
          /\ keep \ ReadyIn(unit) \in SUBSET Names
      BY <1>1
    <3>2. Cardinality(keep \ ReadyIn(unit)) <= Cardinality(ReadyIn(life.snap) \ ReadyIn(unit))
      BY <3>1, FiniteParts, FS_Subset
    <3>3. /\ Cardinality(keep \ ReadyIn(unit)) \in Nat
          /\ Cardinality(ReadyIn(life.snap) \ ReadyIn(unit)) \in Nat
      BY <3>1, FiniteParts
    <3>4. Cardinality(ReadyIn(life.snap) \ ReadyIn(unit)) <= disturbed
      BY <2>1 DEF MinimumInv
    <3> QED
      BY <1>0, <3>2, <3>3, <3>4
  <2>6. keep \in SUBSET Names /\ keep \cap chosen = {}
    BY <1>1
  <2> HIDE DEF keep
  <2> QED
    BY <2>1, <2>2, <2>4, <2>5, <2>6 DEF MinimumInv
\* The victims become fewer; what is kept is not among them.
<1>6. ASSUME life.pc = "delete", life'.pc = "delete", life'.victims \subseteq life.victims,
             \A n \in Names : removeIdleWorker(n) => n \in life.victims
      PROVE  MinimumInv'
  <2>1. CASE life'.victims = {}
    BY <1>6, <2>1 DEF MinimumInv
  <2>2. CASE life'.victims # {}
    <3>1. PICK keep \in SUBSET Names : /\ keep \cap life.victims = {}
                                       /\ Cardinality(keep) >= MinAvailable
                                       /\ Cardinality(keep \ ReadyIn(unit)) <= disturbed
      BY <1>6, <2>2 DEF MinimumInv
    <3>2. ~\E n \in keep : removeIdleWorker(n)
      BY <1>6, <3>1
    <3>3. Cardinality(keep \ ReadyIn(unit')) <= disturbed'
      BY <3>1, <3>2, KeptUnits
    <3>4. keep \cap life'.victims = {}
      BY <1>6, <3>1
    <3> QED
      BY <1>6, <3>1, <3>3, <3>4 DEF MinimumInv
  <2> QED
    BY <2>1, <2>2
<1>7. ASSUME NEW n \in Names, removeIdleWorker(n) \/ removalFails(n) PROVE MinimumInv'
  <2>1. life \in Deleting
    BY <1>0, <1>7, LifeAt DEF removeIdleWorker, removalFails
  <2>2. life.pc = "delete" /\ life'.pc = "delete" /\ life'.victims = life.victims \ {n}
    BY <1>7, <2>1 DEF removeIdleWorker, removalFails, Deleting
  <2>3. \A m \in Names : removeIdleWorker(m) => m \in life.victims
    BY DEF removeIdleWorker
  <2> QED
    BY <1>6, <2>2, <2>3
<1>8. ASSUME lifecycleDone PROVE MinimumInv'
  BY <1>8 DEF lifecycleDone, LifeIdle, MinimumInv
<1>9. ASSUME UNCHANGED life PROVE MinimumInv'
  <2>1. life.pc \in {"idle", "sync", "warm", "delete"}
    BY <1>0, LifeAt
  <2>2. CASE life.pc = "idle"
    BY <1>9, <2>2 DEF MinimumInv
  <2>3. CASE life.pc \in {"sync", "warm"}
    BY <1>2, <1>9, <2>3
  <2>4. CASE life.pc = "delete"
    BY <1>6, <1>9, <2>4 DEF removeIdleWorker
  <2> QED
    BY <2>1, <2>2, <2>3, <2>4
<1> QED
  BY <1>3, <1>4, <1>5, <1>7, <1>8, <1>9, WhoMoves DEF LifecycleStep, Lifecycle

\* When the lifecycle goroutine deletes a worker, the units that it kept are ready
\* but for the disturbed ones.
LEMMA DeletionLeavesKept ==
  ASSUME ShapeInv, MinimumInv, Next, NEW n \in Names, n \in removed' \ removed
  PROVE  Cardinality(ReadyIn(unit')) + disturbed >= MinAvailable
<1>0. PoolShape /\ LifeInv /\ ActInv
  BY ShapeParts
<1>1. [Next]_vars
  OBVIOUS
<1>2. removeIdleWorker(n)
  <2>1. LifecycleStep
    <3>1. InvocationStep => removed' \subseteq removed
      BY DEF InvocationStep, Activate, ProcessInvocation, listServerlessUnits,
         syncListed, pickRegistered, noWorkerTemplate, awaitPending, waitForWorkerReady,
         registerReady, readyWaitExpires, backpressure, createWorker, CreateUnit, dispatchToWorker, acquireFails,
         finishErr, dispatchFails, history
    <3> QED
      BY <1>1, <3>1, WhoMoves
  <2> QED
    BY <2>1 DEF LifecycleStep, Lifecycle, lifecycleList, lifecycleSync, ensureMinAvailable,
       CreateUnit, deleteIdleWorkers, removeIdleWorker, lifecycleDone, prewarmFails, removalFails,
       history
<1>3. PICK keep \in SUBSET Names : /\ keep \cap life.victims = {}
                                   /\ Cardinality(keep) >= MinAvailable
                                   /\ Cardinality(keep \ ReadyIn(unit)) <= disturbed
  BY <1>2 DEF MinimumInv, removeIdleWorker
<1>4. ~\E m \in keep : removeIdleWorker(m)
  BY <1>3 DEF removeIdleWorker
<1>5. Cardinality(keep \ ReadyIn(unit')) <= disturbed /\ disturbed \in Nat
  <2>1. Cardinality(keep \ ReadyIn(unit')) <= disturbed'
    BY <1>1, <1>3, <1>4, KeptUnits
  <2>2. UNCHANGED disturbed /\ disturbed \in Nat
    BY <1>0, <1>2, PoolAssumption DEF removeIdleWorker, PoolShape
  <2> QED
    BY <2>1, <2>2
<1>6. Cardinality(keep) = Cardinality(keep \ ReadyIn(unit')) + Cardinality(keep \cap ReadyIn(unit'))
  <2>1. IsFiniteSet(keep) /\ keep \cap ReadyIn(unit') \in SUBSET Names
        /\ keep \ ReadyIn(unit') \in SUBSET Names
    BY FiniteParts
  <2>2. Cardinality(keep \ ReadyIn(unit')) = Cardinality(keep) - Cardinality(keep \cap ReadyIn(unit'))
    BY <2>1, FS_Difference
  <2>3. Cardinality(keep) \in Nat /\ Cardinality(keep \cap ReadyIn(unit')) \in Nat
    BY <2>1, FiniteParts
  <2> QED
    BY <2>2, <2>3
<1>7. Cardinality(keep \cap ReadyIn(unit')) <= Cardinality(ReadyIn(unit'))
  <2>1. ReadyIn(unit') \in SUBSET Names /\ keep \cap ReadyIn(unit') \in SUBSET ReadyIn(unit')
    BY DEF ReadyIn
  <2> QED
    BY <2>1, FiniteParts, FS_Subset
<1>8. /\ Cardinality(ReadyIn(unit')) \in Nat /\ Cardinality(keep \cap ReadyIn(unit')) \in Nat
      /\ Cardinality(keep \ ReadyIn(unit')) \in Nat
  <2>1. /\ ReadyIn(unit') \in SUBSET Names /\ keep \cap ReadyIn(unit') \in SUBSET Names
        /\ keep \ ReadyIn(unit') \in SUBSET Names
    BY DEF ReadyIn
  <2> QED
    BY <2>1, FiniteParts
<1> QED
  BY <1>3, <1>5, <1>6, <1>7, <1>8, PoolAssumption

LEMMA MinimumInvariant == Spec => []MinimumInv
<1>1. Init => MinimumInv
  BY DEF Init, MinimumInv, LifeIdle
<1> QED
  BY ShapeInvariant, <1>1, MinimumStep, PTL DEF Spec

\* A deletion, which deleteIdleWorkers decides on from a list, leaves at least
\* minAvailableCount ready units less one for each disturbance.
THEOREM DeletionCostsNoMore == Spec => MinimumUpToDisturbances
<1> DEFINE Bounded == \A n \in Names : n \in removed' \ removed
                        => Cardinality(ReadyIn(unit')) + disturbed >= MinAvailable
<1>1. ShapeInv /\ MinimumInv /\ [Next]_vars => [Bounded]_vars
  BY DeletionLeavesKept
<1> QED
  BY ShapeInvariant, MinimumInvariant, <1>1, PTL DEF Spec, MinimumUpToDisturbances

\* While no unit is lost for other reasons, the lifecycle goroutine never leaves
\* fewer ready units than minAvailableCount.
THEOREM DeletionsKeepMinimum == MaxDisturbed = 0 => (Spec => DeletionKeepsMinimum)
<1> SUFFICES ASSUME MaxDisturbed = 0 PROVE Spec => DeletionKeepsMinimum
  OBVIOUS
<1> DEFINE Kept == \A n \in Names : n \in removed' \ removed
                     => Cardinality(ReadyIn(unit')) >= MinAvailable
<1>1. ShapeInv /\ MinimumInv /\ [Next]_vars => [Kept]_vars
  <2> SUFFICES ASSUME ShapeInv, MinimumInv, Next, NEW n \in Names, n \in removed' \ removed
               PROVE  Cardinality(ReadyIn(unit')) >= MinAvailable
    OBVIOUS
  <2>1. Cardinality(ReadyIn(unit')) + disturbed >= MinAvailable
    BY DeletionLeavesKept
  <2>2. disturbed = 0
    BY ShapeParts DEF PoolShape
  <2>3. Cardinality(ReadyIn(unit')) \in Nat
    BY FiniteParts DEF ReadyIn
  <2> QED
    BY <2>1, <2>2, <2>3
<1> QED
  BY ShapeInvariant, MinimumInvariant, <1>1, PTL DEF Spec, DeletionKeepsMinimum
=============================================================================
