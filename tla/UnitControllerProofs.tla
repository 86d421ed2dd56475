------------------------ MODULE UnitControllerProofs ------------------------
(***************************************************************************)
(* Proofs about UnitController for any specs, any number of updates and    *)
(* any number of faults: what the unit's status may report, and that its   *)
(* pods are isolated as long as nobody else deletes the policy or the      *)
(* device claim.                                                           *)
(***************************************************************************)
EXTENDS UnitController, TLAPS

\* The errors a reconcile may stop with.
Failures == {"StorageMountInvalid", "PodStatusSyncFailed"} \cup Problems
            \cup {SyncFailed[p] : p \in Parts}

Runs == [pc : {"failed", "status"} \cup Parts, obj : Units, storageReady : BOOLEAN,
         available : BOOLEAN, reason : Reasons, returned : BOOLEAN]

\* The objects in the API server and in the cache are functions on the parts,
\* and a reconcile in progress carries the unit that it read.
ShapeInv ==
  /\ TypeOK
  /\ owned = [p \in Parts |-> owned[p]]
  /\ cache = [p \in Parts |-> cache[p]]
  /\ ctl = Idle \/ ctl \in Runs
  /\ ctl.pc = "failed" => ctl.reason \in Failures

\* Where no event is under way, the cache shows the API server's object.
CacheInv == \A p \in Parts \ stale : cache[p] = owned[p]

\* The parts that a reconcile at this place has dealt with.
Before ==
  [idle |-> {}, failed |-> {}, service |-> {}, config |-> {"service"},
   claim |-> {"service", "config"}, policy |-> {"service", "config", "claim"},
   deployment |-> Parts \ {"deployment"}, status |-> Parts]

\* What a reconcile has dealt with is as its spec asks, unless somebody changed it
\* since: then an event is under way, or it has queued the unit again.
AppliedInv ==
  \A p \in Before[ctl.pc] :
     Content(p, owned[p]) = Desired(ctl.obj.spec)[p] \/ p \in stale \/ queue

UnitInv == ShapeInv /\ CacheInv /\ AppliedInv

\* The objects that isolate a pod.
Guards == {"claim", "policy"}

\* While the unit exists, what protects its pods stays once it was created: a
\* cached guard is still there, and so is one that the reconcile has passed.
GuardInv ==
  unit # None =>
    /\ PodsAreIsolated
    /\ \A p \in Guards : cache[p] # None \/ p \in Before[ctl.pc] => owned[p] # None

-----------------------------------------------------------------------------
(* What the model's operators return.                                      *)

LEMMA DesiredObjects ==
  ASSUME NEW s \in Specs
  PROVE  /\ Desired(s) = [p \in Parts |-> Desired(s)[p]]
         /\ Desired(s)["deployment"] \in Templates
         /\ \A p \in Parts \ {"deployment"} : Desired(s)[p] \in ObjectsOf(p)
         /\ \A p \in Guards \cup {"deployment"} : Desired(s)[p] # None
<1>1. /\ Desired(s) = [p \in Parts |-> Desired(s)[p]]
      /\ Desired(s)["deployment"] \in Templates
  BY DEF Desired, Parts, Templates
<1>2. \A p \in Parts \ {"deployment"} : Desired(s)[p] \in ObjectsOf(p)
  BY DEF ObjectsOf
<1>3. \A p \in Guards : Desired(s)[p] # None
  BY <1>2, NoneAssumption DEF Guards, Parts
<1> QED
  BY <1>1, <1>2, <1>3, NoneAssumption DEF Guards

LEMMA StatusTypes ==
  ASSUME NEW obj \in Units
  PROVE  /\ \A a, r \in BOOLEAN : \A f \in {None, "runtime"} \cup Sidecars :
              /\ buildGPUUnitStatus(obj, a, f, r) \in Statuses
              /\ buildGPUUnitStatus(obj, a, f, r).gen = obj.gen
         /\ \A e \in Failures :
              /\ failedStatus(obj, e) \in Statuses
              /\ failedStatus(obj, e).gen = obj.gen
              /\ failedStatus(obj, e).reason \notin
                   {"UnitReady", "UnitProgressing", "StorageNotReady", "PodStartupFailed"}
<1>0. obj.gen \in 0..MaxGen /\ obj.spec \in Specs
  BY UnitAssumption DEF Units
<1>1. ASSUME NEW a \in BOOLEAN, NEW r \in BOOLEAN, NEW f \in {None, "runtime"} \cup Sidecars
      PROVE  /\ buildGPUUnitStatus(obj, a, f, r) \in Statuses
             /\ buildGPUUnitStatus(obj, a, f, r).gen = obj.gen
  <2>1. /\ instanceUnitStatusRules(a, f # None, r).phase \in {"Ready", "Failed", "Progressing"}
        /\ instanceUnitStatusRules(a, f # None, r).reason \in Reasons
    BY DEF instanceUnitStatusRules, Reasons
  <2>2. [c \in Sidecars |-> sidecarProgress(obj.spec, c, a, f)]
          \in [Sidecars -> {"", "Disabled", "Pending", "Ready", "Failed"}]
    BY DEF sidecarProgress
  <2> QED
    BY <1>0, <2>1, <2>2 DEF buildGPUUnitStatus, Statuses
<1>2. ASSUME NEW e \in Failures
      PROVE  /\ failedStatus(obj, e) \in Statuses
             /\ failedStatus(obj, e).gen = obj.gen
             /\ failedStatus(obj, e).reason = e
             /\ e \notin {"UnitReady", "UnitProgressing", "StorageNotReady", "PodStartupFailed"}
  <2>1. e \in Reasons
    BY DEF Failures, Reasons
  <2>2. [c \in Sidecars |-> IF c \in obj.spec.side THEN "Failed" ELSE ""]
          \in [Sidecars -> {"", "Disabled", "Pending", "Ready", "Failed"}]
    OBVIOUS
  <2> QED
    BY <1>0, <2>1, <2>2 DEF failedStatus, Statuses, Failures, Problems, TemplateProblems,
       AccessProblems, SyncFailed, Parts
<1> QED
  BY <1>1, <1>2

\* A reconcile that stops with an error, and one that goes on.
LEMMA RunTypes ==
  ASSUME NEW run \in Runs
  PROVE  /\ \A e \in Failures, b \in BOOLEAN :
              /\ failedRun(run, e, b) \in Runs
              /\ failedRun(run, e, b).pc = "failed"
              /\ failedRun(run, e, b).reason = e
         /\ run.pc \in Parts => After[run.pc] \in Parts \cup {"status"}
         /\ \A p \in Parts, a \in BOOLEAN :
              /\ [run EXCEPT !.pc = After[p], !.available = a] \in Runs
              /\ [run EXCEPT !.pc = After[p]] \in Runs
         /\ \A r \in BOOLEAN : [run EXCEPT !.storageReady = r] \in Runs
<1>1. Failures \subseteq Reasons
  BY DEF Failures, Reasons
<1>2. \A p \in Parts : After[p] \in Parts \cup {"status"}
  BY DEF After, Parts
<1> QED
  BY <1>1, <1>2 DEF failedRun, Runs

\* What is stored for a part is an object with the content that the spec asks for.
LEMMA StoredObjects ==
  ASSUME ShapeInv, NEW p \in Parts, ctl.pc = p
  PROVE  /\ ctl \in Runs /\ ctl.obj.spec \in Specs
         /\ Want(p) = Desired(ctl.obj.spec)[p]
         /\ Stored(p) \in ObjectsOf(p)
         /\ Content(p, Stored(p)) = Want(p)
         /\ p = "deployment" =>
              Stored(p).available = (cache[p] # None /\ cache[p].available)
<1>1. ctl \in Runs /\ ctl.obj.spec \in Specs
  BY DEF ShapeInv, Idle, Parts, Runs, Units
<1>2. CASE p = "deployment"
  <2>1. (cache[p] # None /\ cache[p].available) \in BOOLEAN
    BY <1>2 DEF ShapeInv, TypeOK, ObjectsOf
  <2>2. Stored(p) \in ObjectsOf(p)
    BY <1>1, <1>2, <2>1, DesiredObjects DEF Stored, Want, ObjectsOf
  <2>3. Stored(p) # None
    BY <2>2, <1>2, NoneAssumption
  <2> QED
    BY <1>1, <1>2, <2>2, <2>3 DEF Stored, Want, Content
<1>3. CASE p # "deployment"
  BY <1>1, <1>3, DesiredObjects DEF Stored, Want, Content
<1> QED
  BY <1>2, <1>3

-----------------------------------------------------------------------------
(* Every step keeps the shape of the state.                                *)

\* The objects, the caches and the pods.
ClusterShape ==
  /\ owned = [p \in Parts |-> owned[p]]
  /\ cache = [p \in Parts |-> cache[p]]
  /\ \A p \in Parts : {owned[p], cache[p]} \subseteq ObjectsOf(p) \cup {None}
  /\ stale \subseteq Parts
  /\ serving \in Templates \cup {None}
  /\ failing \in {None, "runtime"} \cup Sidecars
  /\ storage \in {"absent", "pending", "ready"}
  /\ (serving # None) = (owned["deployment"] # None /\ owned["deployment"].available)

\* The unit and the controller.
ControlShape ==
  /\ unit \in Units \cup {None}
  /\ unit # None => unit.status.gen <= unit.gen
  /\ ctl = Idle \/ ctl \in Runs
  /\ ctl.pc = "failed" => ctl.reason \in Failures

LEMMA ShapeParts ==
  ShapeInv <=> ClusterShape /\ ControlShape /\ queue \in BOOLEAN /\ faults \in 0..MaxFaults
  BY DEF ShapeInv, ClusterShape, ControlShape, TypeOK, Idle, Runs

LEMMA ShapeInit == Init => ShapeInv
<1> SUFFICES ASSUME Init PROVE ShapeInv
  OBVIOUS
<1>1. NoStatus \in Statuses /\ NoStatus.gen = 0
  BY UnitAssumption DEF NoStatus, Statuses, Reasons
<1>2. unit \in Units /\ unit.status.gen <= unit.gen
  BY <1>1, UnitAssumption DEF Init, Units
<1>3. ControlShape /\ queue \in BOOLEAN /\ faults \in 0..MaxFaults
  BY <1>2, UnitAssumption DEF Init, ControlShape, Idle
<1>4. ClusterShape
  BY UnitAssumption DEF Init, ClusterShape, Parts
<1> QED
  BY <1>3, <1>4, ShapeParts

\* Only pods, the collector, the watch and a written part touch the cluster.
LEMMA ClusterStep == UnitInv /\ [Next]_vars => ClusterShape'
<1> SUFFICES ASSUME UnitInv, [Next]_vars PROVE ClusterShape'
  OBVIOUS
<1>0. ShapeInv /\ CacheInv /\ ClusterShape
  BY ShapeParts DEF UnitInv
<1> DEFINE cluster == <<owned, cache, stale, serving, failing, storage>>
<1>1. ASSUME UNCHANGED cluster PROVE ClusterShape'
  BY <1>0, <1>1 DEF ClusterShape
<1>2. ASSUME PodStarts PROVE ClusterShape'
  <2>1. owned["deployment"] \in ObjectsOf("deployment") /\ owned["deployment"].template \in Templates
    BY <1>0, <1>2 DEF PodStarts, Starting, ClusterShape, Parts, ObjectsOf
  <2>2. /\ owned' = [p \in Parts |-> owned'[p]]
        /\ \A p \in Parts : p # "deployment" => owned'[p] = owned[p]
        /\ owned'["deployment"] = [owned["deployment"] EXCEPT !.available = TRUE]
        /\ owned'["deployment"] \in ObjectsOf("deployment")
        /\ owned'["deployment"].available = TRUE
    BY <1>0, <1>2, <2>1 DEF PodStarts, ClusterShape, Parts, ObjectsOf
  <2>3. owned'["deployment"] # None /\ serving' \in Templates /\ serving' # None
    BY <1>2, <2>1, <2>2, NoneAssumption DEF PodStarts
  <2> QED
    BY <1>0, <1>2, <2>1, <2>2, <2>3 DEF PodStarts, clusterFrame, ClusterShape, Parts
<1>3. ASSUME PodLost PROVE ClusterShape'
  <2>1. owned["deployment"] \in ObjectsOf("deployment")
    BY <1>0, <1>3 DEF PodLost, ClusterShape, Parts
  <2>2. /\ owned' = [p \in Parts |-> owned'[p]]
        /\ \A p \in Parts : p # "deployment" => owned'[p] = owned[p]
        /\ owned'["deployment"] \in ObjectsOf("deployment")
        /\ ~owned'["deployment"].available
    BY <1>0, <1>3, <2>1 DEF PodLost, ClusterShape, Parts, ObjectsOf
  <2> QED
    BY <1>0, <1>3, <2>2 DEF PodLost, clusterFrame, ClusterShape, Parts
<1>4. ASSUME NEW c \in {"runtime"} \cup Sidecars, PodFails(c) PROVE ClusterShape'
  BY <1>0, <1>4 DEF PodFails, clusterFrame, ClusterShape
<1>5. ASSUME StorageChanges PROVE ClusterShape'
  BY <1>0, <1>5 DEF StorageChanges, clusterFrame, ClusterShape
<1>6. ASSUME NEW parts \in SUBSET Parts, Vanish(parts) PROVE ClusterShape'
  BY <1>0, <1>6 DEF Vanish, clusterFrame, ClusterShape, Parts
<1>7. ASSUME NEW p \in Parts, WatchOwned(p) PROVE ClusterShape'
  BY <1>0, <1>7 DEF WatchOwned, ClusterShape
<1>8. ASSUME Crash PROVE ClusterShape'
  BY <1>0, <1>8 DEF Crash, ClusterShape
<1>9. ASSUME NEW p \in Parts, partWritten(p) PROVE ClusterShape'
  <2>1. /\ Stored(p) \in ObjectsOf(p)
        /\ p = "deployment" => Stored(p).available = (cache[p] # None /\ cache[p].available)
    BY <1>0, <1>9, StoredObjects DEF partWritten
  <2>2. p = "deployment" => /\ Stored(p) # None
                            /\ IF cache[p] = None THEN owned[p] = None ELSE owned[p] = cache[p]
    <3>1. p = "deployment" => Want(p) # None
      BY <1>0, <1>9, StoredObjects, DesiredObjects DEF partWritten
    <3> QED
      BY <1>0, <1>9, <2>1, <3>1, NoneAssumption DEF partWritten, Accepted, CacheInv
  <2>3. /\ owned' = [q \in Parts |-> owned'[q]]
        /\ owned'[p] = Stored(p)
        /\ \A q \in Parts : q # p => owned'[q] = owned[q]
    BY <1>0, <1>9 DEF partWritten, ClusterShape
  <2>4. (serving' # None) = (owned'["deployment"] # None /\ owned'["deployment"].available)
    BY <1>0, <1>9, <2>1, <2>2, <2>3 DEF partWritten, ClusterShape, Parts
  <2> QED
    BY <1>0, <1>9, <2>1, <2>3, <2>4 DEF partWritten, reconcileFrame, ClusterShape
<1>10. ASSUME Reconcile, ~\E p \in Parts : partWritten(p) PROVE UNCHANGED cluster
  BY <1>10 DEF Reconcile, StartReconcile, partUnchanged, partRefused, markUnitFailed,
     podsUnlisted, finishReconcile, updateGPUUnitStatus, reconcileFrame
<1>11. ASSUME \E s \in Specs : UpdateGPUUnit(s) \/ DeleteGPUUnit \/ UNCHANGED vars
       PROVE  UNCHANGED cluster
  BY <1>11 DEF UpdateGPUUnit, DeleteGPUUnit, vars
<1> QED
  BY <1>1, <1>2, <1>3, <1>4, <1>5, <1>6, <1>7, <1>8, <1>9, <1>10, <1>11, UnitAssumption
     DEF Next, Pods, ObjectLost, CollectGarbage, UpdateGPUUnit, DeleteGPUUnit, vars

\* The unit and the reconcile in progress stay well formed.
LEMMA ControlStep == UnitInv /\ [Next]_vars => ControlShape'
<1> SUFFICES ASSUME UnitInv, [Next]_vars PROVE ControlShape'
  OBVIOUS
<1>0. ShapeInv /\ ClusterShape /\ ControlShape
  BY ShapeParts DEF UnitInv
<1>1. ASSUME UNCHANGED <<unit, ctl>> PROVE ControlShape'
  BY <1>0, <1>1 DEF ControlShape
<1>2. ASSUME NEW s \in Specs, UpdateGPUUnit(s) PROVE ControlShape'
  <2>1. /\ unit \in Units /\ unit.gen \in 1..MaxGen /\ unit.status.gen \in 0..MaxGen
        /\ unit.status.gen <= unit.gen
    BY <1>0, <1>2 DEF UpdateGPUUnit, ControlShape, Units, Statuses
  <2>2. unit' \in Units /\ unit'.status = unit.status /\ unit'.gen = unit.gen + 1
    <3>1. unit.gen + 1 \in 1..MaxGen
      BY <1>2, <2>1, UnitAssumption DEF UpdateGPUUnit
    <3>2. unit' = [unit EXCEPT !.spec = s, !.gen = unit.gen + 1]
      BY <1>2 DEF UpdateGPUUnit
    <3> QED
      BY <2>1, <3>1, <3>2 DEF Units
  <2> QED
    BY <1>0, <1>2, <2>1, <2>2, UnitAssumption DEF UpdateGPUUnit, ControlShape
<1>3. ASSUME DeleteGPUUnit PROVE ControlShape'
  BY <1>0, <1>3 DEF DeleteGPUUnit, ControlShape
<1>4. ASSUME Crash PROVE ControlShape'
  BY <1>0, <1>4 DEF Crash, ControlShape, Idle
<1>5. ASSUME ctl' \in Runs, ctl'.pc = "failed" => ctl'.reason \in Failures, UNCHANGED unit
      PROVE  ControlShape'
  BY <1>0, <1>5 DEF ControlShape
<1>6. ASSUME NEW run \in Runs, run.pc # "failed", resolveGPUUnitStorageMounts(run)
      PROVE  ctl' \in Runs /\ (ctl'.pc = "failed" => ctl'.reason \in Failures)
  <2>1. run.obj.spec.problem \in Problems \cup {None}
    BY UnitAssumption DEF Runs, Units
  <2>2. {"StorageMountInvalid"} \cup Problems \subseteq Failures
    BY DEF Failures
  <2>3. \/ ctl' = failedRun(run, "StorageMountInvalid", FALSE)
        \/ \E e \in Problems : ctl' = failedRun(run, e, FALSE)
        \/ \E r \in BOOLEAN : ctl' = [run EXCEPT !.storageReady = r]
    BY <1>6, <2>1 DEF resolveGPUUnitStorageMounts
  <2>4. \A r \in BOOLEAN : [run EXCEPT !.storageReady = r].pc = run.pc
    BY DEF Runs
  <2> QED
    <3>1. ASSUME NEW e \in Failures, ctl' = failedRun(run, e, FALSE)
          PROVE  ctl' \in Runs /\ ctl'.reason \in Failures
      BY <3>1, RunTypes
    <3>2. ASSUME NEW r \in BOOLEAN, ctl' = [run EXCEPT !.storageReady = r]
          PROVE  ctl' \in Runs /\ ctl'.pc # "failed"
      BY <1>6, <2>4, <3>2, RunTypes
    <3> QED
      BY <2>2, <2>3, <3>1, <3>2
<1>7. ASSUME StartReconcile PROVE ControlShape'
  <2>1. CASE unit = None
    BY <1>1, <1>7, <2>1 DEF StartReconcile, reconcileFrame
  <2>2. CASE unit # None
    <3>1. PICK run \in Runs : run.pc # "failed" /\ resolveGPUUnitStorageMounts(run)
      <4> DEFINE run == [pc |-> "service", obj |-> unit, storageReady |-> FALSE,
                         available |-> FALSE, reason |-> "", returned |-> FALSE]
      <4>1. run \in Runs /\ run.pc # "failed"
        BY <1>0, <2>2 DEF ControlShape, Runs, Parts, Reasons
      <4> QED
        BY <1>7, <2>2, <4>1 DEF StartReconcile
    <3> QED
      BY <1>5, <1>6, <1>7, <3>1 DEF StartReconcile, reconcileFrame
  <2> QED
    BY <2>1, <2>2
<1>8. ASSUME NEW p \in Parts, partUnchanged(p) \/ partWritten(p) PROVE ControlShape'
  <2>1. ctl \in Runs /\ Stored(p) \in ObjectsOf(p)
    BY <1>0, <1>8, StoredObjects DEF partUnchanged, partWritten
  <2>2. p = "deployment" => Stored(p).available \in BOOLEAN
    BY <2>1 DEF ObjectsOf
  <2>3. PICK a \in BOOLEAN : ctl' = [ctl EXCEPT !.pc = After[p], !.available = a]
    <3>1. CASE partUnchanged(p)
      BY <2>1, <3>1 DEF partUnchanged, Runs
    <3>2. CASE partWritten(p)
      BY <2>1, <2>2, <3>2 DEF partWritten, Runs
    <3> QED
      BY <1>8, <3>1, <3>2
  <2>4. ctl' \in Runs
    BY <2>1, <2>3, RunTypes
  <2>5. ctl'.pc = After[p] /\ After[p] # "failed"
    <3>1. After[p] # "failed"
      BY DEF After, Parts
    <3> QED
      BY <2>1, <2>3, <3>1 DEF Runs
  <2> QED
    BY <1>5, <1>8, <2>4, <2>5 DEF partUnchanged, partWritten, reconcileFrame
<1>9. ASSUME NEW p \in Parts, partRefused(p) PROVE ControlShape'
  <2>1. ctl \in Runs /\ SyncFailed[p] \in Failures
    BY <1>0, <1>9 DEF partRefused, ControlShape, Idle, Parts, Failures
  <2> QED
    BY <1>5, <1>9, <2>1, RunTypes DEF partRefused, reconcileFrame
<1>10. ASSUME podsUnlisted PROVE ControlShape'
  <2>1. ctl \in Runs /\ "PodStatusSyncFailed" \in Failures
    BY <1>0, <1>10 DEF podsUnlisted, ControlShape, Idle, Failures
  <2> QED
    BY <1>5, <1>10, <2>1, RunTypes DEF podsUnlisted, reconcileFrame
<1>11. ASSUME NEW next \in Statuses, next.gen = ctl.obj.gen, NEW again \in BOOLEAN,
              ctl \in Runs, updateGPUUnitStatus(next, again)
       PROVE  ControlShape'
  <2>1. \/ unit' = unit
        \/ unit \in Units /\ unit = ctl.obj /\ unit' = [unit EXCEPT !.status = next]
    BY <1>11 DEF updateGPUUnitStatus, sameVersion, Runs
  <2>2. unit' \in Units \cup {None} /\ (unit' # None => unit'.status.gen <= unit'.gen)
    BY <1>0, <1>11, <2>1, UnitAssumption DEF ControlShape, Units
  <2> QED
    BY <1>0, <1>11, <2>2 DEF updateGPUUnitStatus, ControlShape, Idle
<1>12. ASSUME markUnitFailed PROVE ControlShape'
  <2>1. ctl \in Runs /\ ctl.reason \in Failures
    BY <1>0, <1>12 DEF markUnitFailed, ControlShape, Idle
  <2>2. ctl.obj \in Units /\ ctl.returned \in BOOLEAN
    BY <2>1 DEF Runs
  <2> QED
    BY <1>11, <1>12, <2>1, <2>2, StatusTypes DEF markUnitFailed
<1>13. ASSUME finishReconcile PROVE ControlShape'
  <2>1. ctl \in Runs
    BY <1>0, <1>13 DEF finishReconcile, ControlShape, Idle
  <2>2. ctl.obj \in Units /\ ctl.available \in BOOLEAN /\ ctl.storageReady \in BOOLEAN
    BY <2>1 DEF Runs
  <2> QED
    <3>1. failing \in {None, "runtime"} \cup Sidecars
      BY <1>0 DEF ClusterShape
    <3>2. PICK next \in Statuses : next.gen = ctl.obj.gen /\ updateGPUUnitStatus(next, TRUE)
      BY <1>13, <2>2, <3>1, StatusTypes, Zenon DEF finishReconcile
    <3> QED
      BY <1>11, <2>1, <3>2
<1>14. ASSUME \/ Pods \/ StorageChanges \/ \E p \in Losable : ObjectLost(p)
              \/ CollectGarbage \/ \E p \in Parts : WatchOwned(p)
              \/ UNCHANGED vars
       PROVE  ControlShape'
  <2>1. UNCHANGED <<unit, ctl>>
    BY <1>14 DEF Pods, PodStarts, PodLost, PodFails, StorageChanges, ObjectLost, CollectGarbage,
       Vanish, WatchOwned, clusterFrame, vars
  <2> QED
    BY <1>1, <2>1
<1> QED
  BY <1>2, <1>3, <1>4, <1>7, <1>8, <1>9, <1>10, <1>12, <1>13, <1>14 DEF Next, Reconcile

LEMMA ShapeStep == UnitInv /\ [Next]_vars => ShapeInv'
<1> SUFFICES ASSUME UnitInv, [Next]_vars PROVE ShapeInv'
  OBVIOUS
<1>1. queue \in BOOLEAN /\ faults \in 0..MaxFaults
  BY ShapeParts DEF UnitInv
<1>2. queue' \in BOOLEAN
  <2>1. queue' \in {queue, TRUE, FALSE, queue \/ TRUE, queue \/ ctl.returned}
    BY Zenon DEF Next, vars, UpdateGPUUnit, DeleteGPUUnit, Pods, PodStarts, PodLost, PodFails, StorageChanges,
       ObjectLost, CollectGarbage, Vanish, WatchOwned, Crash, Reconcile, StartReconcile,
       partUnchanged, partWritten, partRefused, markUnitFailed, podsUnlisted, finishReconcile,
       updateGPUUnitStatus, clusterFrame
  <2> QED
    BY <1>1, <2>1, Zenon
<1>3. faults' \in 0..MaxFaults
  <2>1. faults' = faults \/ Fault
    BY Zenon DEF Next, vars, UpdateGPUUnit, DeleteGPUUnit, Pods, PodStarts, PodLost, PodFails, StorageChanges,
       ObjectLost, CollectGarbage, Vanish, WatchOwned, Crash, Reconcile, StartReconcile,
       resolveGPUUnitStorageMounts, partUnchanged, partWritten, partRefused, markUnitFailed,
       podsUnlisted, finishReconcile, updateGPUUnitStatus
  <2> QED
    BY <1>1, <2>1, UnitAssumption DEF Fault
<1>4. (ClusterShape /\ ControlShape /\ queue \in BOOLEAN /\ faults \in 0..MaxFaults)' => ShapeInv'
  BY ShapeParts, PTL
<1> QED
  BY <1>2, <1>3, <1>4, ClusterStep, ControlStep

-----------------------------------------------------------------------------
(* The cache and what a reconcile has applied.                             *)

\* Of an object whose event is not under way, no step changes the stored copy
\* without naming it stale, and the watch and a new leader copy what is stored.
LEMMA CacheStep == UnitInv /\ [Next]_vars => CacheInv'
<1> SUFFICES ASSUME UnitInv, [Next]_vars PROVE CacheInv'
  OBVIOUS
<1>0. ClusterShape /\ CacheInv
  BY ShapeParts DEF UnitInv
<1>1. ASSUME UNCHANGED <<owned, cache, stale>> PROVE CacheInv'
  BY <1>0, <1>1 DEF CacheInv
<1>2. ASSUME UNCHANGED cache, stale \subseteq stale',
             \A p \in Parts \ stale' : owned'[p] = owned[p]
      PROVE  CacheInv'
  BY <1>0, <1>2 DEF CacheInv
<1>3. ASSUME PodStarts \/ PodLost PROVE CacheInv'
  BY <1>0, <1>2, <1>3 DEF PodStarts, PodLost, clusterFrame, ClusterShape, Parts
<1>4. ASSUME NEW parts \in SUBSET Parts, Vanish(parts) PROVE CacheInv'
  BY <1>0, <1>2, <1>4 DEF Vanish, clusterFrame, ClusterShape
<1>5. ASSUME NEW p \in Parts, partWritten(p) PROVE CacheInv'
  BY <1>0, <1>2, <1>5 DEF partWritten, reconcileFrame, ClusterShape
<1>6. ASSUME NEW p \in Parts, WatchOwned(p) PROVE CacheInv'
  BY <1>0, <1>6 DEF WatchOwned, CacheInv, ClusterShape
<1>7. ASSUME Crash PROVE CacheInv'
  BY <1>7 DEF Crash, CacheInv
<1>8. ASSUME Reconcile, ~\E p \in Parts : partWritten(p) PROVE UNCHANGED <<owned, cache, stale>>
  BY <1>8 DEF Reconcile, StartReconcile, partUnchanged, partRefused, markUnitFailed,
     podsUnlisted, finishReconcile, updateGPUUnitStatus, reconcileFrame
<1>9. ASSUME \/ \E s \in Specs : UpdateGPUUnit(s)
             \/ DeleteGPUUnit \/ StorageChanges \/ UNCHANGED vars
             \/ \E c \in {"runtime"} \cup Sidecars : PodFails(c)
      PROVE  UNCHANGED <<owned, cache, stale>>
  BY <1>9 DEF UpdateGPUUnit, DeleteGPUUnit, StorageChanges, PodFails, clusterFrame, vars
<1> QED
  BY <1>1, <1>3, <1>4, <1>5, <1>6, <1>7, <1>8, <1>9, UnitAssumption
     DEF Next, Pods, ObjectLost, CollectGarbage

\* The reconcile passes its parts in the order of After.
LEMMA Order ==
  /\ \A p \in Parts : Before[After[p]] = Before[p] \cup {p}
  /\ \A pc \in {"idle", "failed", "status"} \cup Parts : Before[pc] \subseteq Parts
  /\ Before["idle"] = {} /\ Before["failed"] = {} /\ Before["service"] = {}
  /\ Before["status"] = Parts
  BY DEF Before, After, Parts

LEMMA AppliedStep == UnitInv /\ [Next]_vars => AppliedInv'
<1> SUFFICES ASSUME UnitInv, [Next]_vars PROVE AppliedInv'
  OBVIOUS
<1>0. ShapeInv /\ ClusterShape /\ ControlShape /\ CacheInv /\ AppliedInv
  BY ShapeParts DEF UnitInv
<1>1. ctl.pc \in {"idle", "failed", "status"} \cup Parts /\ Before[ctl.pc] \subseteq Parts
  BY <1>0, Order DEF ShapeInv, TypeOK
\* Another actor: the place stays, and what changes is announced.
<1>2. ASSUME UNCHANGED ctl, queue => queue',
             \A p \in Parts : \/ p \in stale' \/ queue'
                              \/ /\ Content(p, owned'[p]) = Content(p, owned[p])
                                 /\ p \notin stale
      PROVE  AppliedInv'
  BY <1>0, <1>1, <1>2 DEF AppliedInv
<1>3. ASSUME Before[ctl'.pc] = {} PROVE AppliedInv'
  BY <1>3 DEF AppliedInv
<1>4. ASSUME \/ \E s \in Specs : UpdateGPUUnit(s)
             \/ DeleteGPUUnit \/ StorageChanges \/ UNCHANGED vars
             \/ \E c \in {"runtime"} \cup Sidecars : PodFails(c)
      PROVE  AppliedInv'
  <2>1. UNCHANGED <<ctl, owned, stale>>
    BY <1>4 DEF UpdateGPUUnit, DeleteGPUUnit, StorageChanges, PodFails, clusterFrame, vars
  <2>2. queue' = queue \/ queue' = TRUE
    BY <1>4, Zenon DEF UpdateGPUUnit, DeleteGPUUnit, StorageChanges, PodFails, clusterFrame, vars
  <2> QED
    BY <1>2, <2>1, <2>2
<1>5. ASSUME PodStarts \/ PodLost PROVE AppliedInv'
  BY <1>0, <1>2, <1>5 DEF PodStarts, PodLost, clusterFrame, ClusterShape
<1>6. ASSUME NEW parts \in SUBSET Parts, Vanish(parts) PROVE AppliedInv'
  BY <1>0, <1>2, <1>6 DEF Vanish, clusterFrame, ClusterShape
<1>7. ASSUME NEW p \in Parts, WatchOwned(p) PROVE AppliedInv'
  BY <1>0, <1>2, <1>7 DEF WatchOwned
<1>8. ASSUME Crash \/ markUnitFailed \/ finishReconcile PROVE AppliedInv'
  <2>1. ctl'.pc = "idle"
    BY <1>8 DEF Crash, markUnitFailed, finishReconcile, updateGPUUnitStatus, Idle
  <2> QED
    BY <1>3, <2>1, Order
<1>9. ASSUME podsUnlisted \/ \E p \in Parts : partRefused(p) PROVE AppliedInv'
  <2>1. ctl \in Runs
    <3>1. ctl.pc \in {"status"} \cup Parts
      BY <1>9 DEF podsUnlisted, partRefused
    <3> QED
      BY <1>0, <3>1 DEF ControlShape, Idle, Parts
  <2>2. ctl'.pc = "failed"
    BY <1>9, <2>1 DEF podsUnlisted, partRefused, failedRun, Runs
  <2> QED
    BY <1>3, <2>2, Order
<1>10. ASSUME StartReconcile PROVE AppliedInv'
  <2>1. ctl'.pc \in {"idle", "failed", "service"}
    BY <1>10 DEF StartReconcile, resolveGPUUnitStorageMounts, failedRun
  <2> QED
    BY <1>3, <2>1, Order
<1>11. ASSUME NEW p \in Parts, partUnchanged(p) \/ partWritten(p) PROVE AppliedInv'
  <2>1. ctl \in Runs /\ Content(p, Stored(p)) = Want(p) /\ Want(p) = Desired(ctl.obj.spec)[p]
    BY <1>0, <1>11, StoredObjects DEF partUnchanged, partWritten
  <2>2. ctl.pc = p /\ ctl'.pc = After[p] /\ ctl'.obj = ctl.obj /\ queue' = queue
    BY <1>11, <2>1 DEF partUnchanged, partWritten, Runs
  <2>3. Before[ctl'.pc] = Before[ctl.pc] \cup {p}
    BY <2>2, Order
  <2>4. Content(p, owned'[p]) = Want(p) \/ p \in stale'
    <3>1. CASE partUnchanged(p)
      BY <1>0, <3>1 DEF partUnchanged, UpToDate, DeepEqual, Have, CacheInv
    <3>2. CASE partWritten(p)
      BY <1>0, <2>1, <3>2 DEF partWritten, ClusterShape
    <3> QED
      BY <1>11, <3>1, <3>2
  <2>5. \A q \in Before[ctl.pc] : q \in Parts /\ q # p
    BY <1>1, <2>2 DEF Before, Parts
  <2>6. \A q \in Parts : q # p => owned'[q] = owned[q] /\ (q \in stale => q \in stale')
    BY <1>0, <1>11 DEF partUnchanged, partWritten, ClusterShape
  <2> QED
    BY <1>0, <2>1, <2>2, <2>3, <2>4, <2>5, <2>6 DEF AppliedInv
<1> QED
  BY <1>4, <1>5, <1>6, <1>7, <1>8, <1>9, <1>10, <1>11, UnitAssumption
     DEF Next, Pods, ObjectLost, CollectGarbage, Reconcile

-----------------------------------------------------------------------------
(* The theorems.                                                           *)

LEMMA UnitInvariant == Spec => []UnitInv
<1>1. Init => UnitInv
  <2> SUFFICES ASSUME Init PROVE UnitInv
    OBVIOUS
  <2>1. Before[ctl.pc] = {} /\ cache = owned
    BY Order DEF Init, Idle
  <2> QED
    BY <2>1, ShapeInit DEF UnitInv, CacheInv, AppliedInv
<1>2. UnitInv /\ [Next]_vars => UnitInv'
  BY ShapeStep, CacheStep, AppliedStep DEF UnitInv
<1> QED
  BY <1>1, <1>2, PTL DEF Spec

\* The objects, the pods and the reported status stay well formed: a status never
\* reports a generation ahead of the spec, and the Deployment that a reconcile
\* writes keeps the availability of its pods.
THEOREM TypeCorrect == Spec => []TypeOK
<1>1. UnitInv => TypeOK
  BY DEF UnitInv, ShapeInv
<1> QED
  BY UnitInvariant, <1>1, PTL

\* updateGPUUnitStatus never reports an old generation over a new one, nor a spec
\* as applied while an owned object differs without an event that will repeat the
\* reconcile, however often objects vanish and the controller restarts.
THEOREM StatusFollowsSpec == Spec => StatusIsApplied
<1> DEFINE Reported == {"UnitReady", "UnitProgressing", "StorageNotReady", "PodStartupFailed"}
           Honest == \/ unit = None \/ unit' = None
                     \/ unit'.status = unit.status
                     \/ /\ unit'.status.gen = unit.gen
                        /\ \/ unit'.status.reason \notin Reported
                           \/ \A p \in Parts : Applied(p) \/ p \in stale \/ queue
<1>1. ASSUME UnitInv, Next PROVE Honest
  <2>0. ShapeInv /\ ClusterShape /\ ControlShape /\ AppliedInv
    BY <1>1, ShapeParts DEF UnitInv
  <2>1. ASSUME UNCHANGED unit PROVE Honest
    BY <2>1
  <2>2. ASSUME NEW s \in Specs, UpdateGPUUnit(s) PROVE Honest
    BY <2>0, <2>2 DEF UpdateGPUUnit, ControlShape, Units
  <2>3. ASSUME DeleteGPUUnit PROVE Honest
    BY <2>3 DEF DeleteGPUUnit
  <2>4. ASSUME NEW next, NEW again, updateGPUUnitStatus(next, again)
        PROVE  unit' = unit \/ (unit = ctl.obj /\ unit' = [unit EXCEPT !.status = next])
    BY <2>4 DEF updateGPUUnitStatus, sameVersion
  <2>5. ASSUME markUnitFailed PROVE Honest
    <3>1. ctl.obj \in Units /\ ctl.reason \in Failures
      BY <2>0, <2>5 DEF markUnitFailed, ControlShape, Idle, Runs
    <3>2. \/ unit' = unit
          \/ /\ unit = ctl.obj
             /\ unit' = [unit EXCEPT !.status = failedStatus(ctl.obj, ctl.reason)]
      BY <2>4, <2>5 DEF markUnitFailed
    <3>3. unit' # unit => unit'.status = failedStatus(unit, ctl.reason)
      BY <3>1, <3>2 DEF Units
    <3> QED
      BY <2>1, <3>1, <3>2, <3>3, StatusTypes
  <2>6. ASSUME finishReconcile PROVE Honest
    <3> DEFINE next == buildGPUUnitStatus(ctl.obj, ctl.available, failing, ctl.storageReady)
    <3>1. ctl.obj \in Units /\ ctl.pc = "status"
      BY <2>0, <2>6 DEF finishReconcile, ControlShape, Idle, Runs
    <3>2. unit' = unit \/ (unit = ctl.obj /\ unit' = [unit EXCEPT !.status = next])
      BY <2>4, <2>6 DEF finishReconcile
    <3>3. next.gen = ctl.obj.gen
      BY DEF buildGPUUnitStatus
    <3>4. unit = ctl.obj => \A p \in Parts : Applied(p) \/ p \in stale \/ queue
      BY <2>0, <3>1, Order DEF AppliedInv, Applied
    <3>5. unit' # unit => unit'.status.gen = unit.gen
      BY <3>1, <3>2, <3>3 DEF Units
    <3> HIDE DEF next
    <3> QED
      BY <2>1, <3>2, <3>4, <3>5
  <2>7. ASSUME Reconcile, ~markUnitFailed, ~finishReconcile PROVE UNCHANGED unit
    BY <2>7 DEF Reconcile, StartReconcile, partUnchanged, partWritten, partRefused,
       podsUnlisted, reconcileFrame
  <2>8. ASSUME \/ Pods \/ StorageChanges \/ \E p \in Losable : ObjectLost(p)
               \/ CollectGarbage \/ Crash \/ \E p \in Parts : WatchOwned(p)
        PROVE  UNCHANGED unit
    BY <2>8 DEF Pods, PodStarts, PodLost, PodFails, StorageChanges, ObjectLost, CollectGarbage,
       Vanish, WatchOwned, Crash, clusterFrame
  <2> HIDE DEF Honest
  <2> QED
    BY <1>1, <2>1, <2>2, <2>3, <2>5, <2>6, <2>7, <2>8 DEF Next
<1>2. UnitInv /\ [Next]_vars => [Honest]_vars
  BY <1>1
<1> QED
  BY UnitInvariant, <1>2, PTL DEF Spec, StatusIsApplied

\* Nobody but the controller deletes what isolates the pods.
OnlyOwnerDeletesGuards == Losable \cap Guards = {}

LEMMA GuardStep ==
  ASSUME OnlyOwnerDeletesGuards, UnitInv, GuardInv, [Next]_vars
  PROVE  GuardInv'
<1>0. ShapeInv /\ ClusterShape /\ ControlShape /\ CacheInv
  BY ShapeParts DEF UnitInv
<1>1. Guards \subseteq Parts /\ "deployment" \notin Guards
  BY DEF Guards, Parts
<1> SUFFICES ASSUME unit' # None
             PROVE  /\ PodsAreIsolated'
                    /\ \A p \in Guards : cache'[p] # None \/ p \in Before[ctl'.pc] => owned'[p] # None
  BY DEF GuardInv
<1>2. unit # None
  <2>1. ASSUME NEW next, NEW again, ctl.pc \in {"failed", "status"},
               updateGPUUnitStatus(next, again), UNCHANGED unit \/ sameVersion
        PROVE  unit # None
    <3>1. ctl.obj # None
      BY <1>0, <2>1, NoneAssumption DEF ControlShape, Idle, Runs
    <3> QED
      BY <2>1, <3>1 DEF sameVersion
  <2>2. ASSUME Reconcile PROVE unit # None
    <3>1. ASSUME markUnitFailed \/ finishReconcile PROVE unit # None
      BY <2>1, <3>1 DEF markUnitFailed, finishReconcile, updateGPUUnitStatus
    <3>2. ASSUME ~markUnitFailed, ~finishReconcile PROVE UNCHANGED unit
      BY <2>2, <3>2 DEF Reconcile, StartReconcile, partUnchanged, partWritten, partRefused,
         podsUnlisted, reconcileFrame
    <3> QED
      BY <3>1, <3>2
  <2> QED
    BY <2>2 DEF Next, UpdateGPUUnit, DeleteGPUUnit, CollectGarbage, Vanish, WatchOwned, Crash,
       clusterFrame, vars
<1>3. /\ \A p \in Guards : cache[p] # None \/ p \in Before[ctl.pc] => owned[p] # None
      /\ owned["deployment"] # None => \A p \in Guards : owned[p] # None
  BY <1>2 DEF GuardInv, PodsAreIsolated, Guards
<1> DEFINE Safe == /\ owned'["deployment"] # None => \A p \in Guards : owned'[p] # None
                   /\ \A p \in Guards : cache'[p] # None \/ p \in Before[ctl'.pc] => owned'[p] # None
<1> SUFFICES Safe
  BY <1>1 DEF PodsAreIsolated, Guards
\* What most steps do: the guards stay, and nothing is added behind them.
<1>4. ASSUME \A p \in Guards : owned[p] # None => owned'[p] # None,
             \A p \in Guards : cache'[p] \in {cache[p], owned[p]},
             owned'["deployment"] # None => owned["deployment"] # None,
             Before[ctl'.pc] \subseteq Before[ctl.pc]
      PROVE  Safe
  BY <1>1, <1>3, <1>4
<1>5. ASSUME \/ \E s \in Specs : UpdateGPUUnit(s)
             \/ StorageChanges \/ UNCHANGED vars
             \/ \E c \in {"runtime"} \cup Sidecars : PodFails(c)
      PROVE  Safe
  <2>1. UNCHANGED <<owned, cache, ctl>>
    BY <1>5 DEF UpdateGPUUnit, StorageChanges, PodFails, clusterFrame, vars
  <2> QED
    BY <1>4, <2>1
<1>6. ASSUME PodStarts \/ PodLost PROVE Safe
  <2>1. UNCHANGED <<cache, ctl>> /\ owned["deployment"] # None
    BY <1>0, <1>6 DEF PodStarts, PodLost, Starting, clusterFrame, ClusterShape
  <2>2. \A p \in Guards : owned'[p] = owned[p]
    BY <1>0, <1>1, <1>6 DEF PodStarts, PodLost, ClusterShape
  <2> QED
    BY <1>4, <2>1, <2>2
<1>7. ASSUME NEW p \in Losable, ObjectLost(p) PROVE Safe
  <2>1. UNCHANGED <<cache, ctl>> /\ p \notin Guards
    BY <1>7 DEF ObjectLost, Vanish, clusterFrame, OnlyOwnerDeletesGuards
  <2>2. \A q \in Guards \cup {"deployment"} : q # p => owned'[q] = owned[q]
    BY <1>1, <1>7 DEF ObjectLost, Vanish, Parts
  <2>3. p = "deployment" => owned'["deployment"] = None
    BY <1>7 DEF ObjectLost, Vanish, Parts
  <2> QED
    BY <1>4, <2>1, <2>2, <2>3
<1>8. ASSUME NEW p \in Parts, WatchOwned(p) PROVE Safe
  BY <1>0, <1>1, <1>4, <1>8 DEF WatchOwned, ClusterShape
<1>9. ASSUME Crash \/ markUnitFailed \/ finishReconcile PROVE Safe
  <2>1. ctl'.pc = "idle" /\ UNCHANGED owned /\ cache' \in {cache, owned}
    BY <1>9 DEF Crash, markUnitFailed, finishReconcile, updateGPUUnitStatus, Idle
  <2> QED
    BY <1>4, <2>1, Order
<1>10. ASSUME podsUnlisted \/ (\E p \in Parts : partRefused(p)) \/ StartReconcile PROVE Safe
  <2>1. UNCHANGED <<owned, cache>>
    BY <1>10 DEF podsUnlisted, partRefused, StartReconcile, reconcileFrame
  <2>2. ctl'.pc \in {"idle", "failed", "service"}
    <3>1. ASSUME StartReconcile PROVE ctl'.pc \in {"idle", "failed", "service"}
      BY <3>1 DEF StartReconcile, resolveGPUUnitStorageMounts, failedRun
    <3>2. ASSUME podsUnlisted \/ \E p \in Parts : partRefused(p) PROVE ctl'.pc = "failed"
      <4>1. ctl.pc \in {"status"} \cup Parts
        BY <3>2 DEF podsUnlisted, partRefused
      <4>2. ctl \in Runs
        BY <1>0, <4>1 DEF ControlShape, Idle, Parts
      <4> QED
        BY <3>2, <4>2 DEF podsUnlisted, partRefused, failedRun, Runs
    <3> QED
      BY <1>10, <3>1, <3>2
  <2> QED
    BY <1>4, <2>1, <2>2, Order
<1>11. ASSUME NEW p \in Parts, partUnchanged(p) \/ partWritten(p) PROVE Safe
  <2>1. /\ ctl \in Runs /\ Content(p, Stored(p)) = Want(p) /\ Want(p) = Desired(ctl.obj.spec)[p]
        /\ ctl.obj.spec \in Specs /\ Stored(p) \in ObjectsOf(p)
    BY <1>0, <1>11, StoredObjects DEF partUnchanged, partWritten
  <2>2. ctl.pc = p /\ ctl'.pc = After[p] /\ UNCHANGED cache
    BY <1>11, <2>1 DEF partUnchanged, partWritten, reconcileFrame, Runs
  <2>3. Before[ctl'.pc] = Before[ctl.pc] \cup {p}
    BY <2>2, Order
  <2>4. p \in Guards => Want(p) # None /\ Stored(p) = Want(p)
    BY <1>1, <2>1, DesiredObjects DEF Stored
  <2>5. p \in Guards => owned'[p] # None
    <3>1. CASE partUnchanged(p)
      <4>1. p \in Guards => cache[p] # None
        BY <1>1, <2>4, <3>1 DEF partUnchanged, UpToDate, DeepEqual, Have, Content
      <4> QED
        BY <1>3, <3>1, <4>1 DEF partUnchanged
    <3>2. CASE partWritten(p)
      BY <1>0, <2>4, <3>2 DEF partWritten, ClusterShape
    <3> QED
      BY <1>11, <3>1, <3>2
  <2>6. \A q \in Parts : q # p => owned'[q] = owned[q]
    BY <1>0, <1>11 DEF partUnchanged, partWritten, ClusterShape
  <2>7. p = "deployment" => \A q \in Guards : q \in Before[ctl.pc]
    BY <2>2 DEF Before, Guards, Parts
  <2>8. \A q \in Guards : cache'[q] # None \/ q \in Before[ctl'.pc] => owned'[q] # None
    BY <1>1, <1>3, <2>2, <2>3, <2>5, <2>6
  <2>9. owned'["deployment"] # None => \A q \in Guards : owned'[q] # None
    BY <1>1, <1>3, <2>5, <2>6, <2>7 DEF Parts
  <2> QED
    BY <2>8, <2>9
<1> HIDE DEF Safe
<1> QED
  BY <1>2, <1>5, <1>6, <1>7, <1>8, <1>9, <1>10, <1>11
     DEF Next, Pods, CollectGarbage, DeleteGPUUnit, Reconcile

\* As long as nobody else deletes a unit's egress policy or device claim, its pods
\* never exist without them: reconcileUnitDeployment comes last, and an old cache
\* can only make a reconcile fail.
THEOREM PodsStayIsolated == OnlyOwnerDeletesGuards => (Spec => []PodsAreIsolated)
<1> SUFFICES ASSUME OnlyOwnerDeletesGuards PROVE Spec => []PodsAreIsolated
  OBVIOUS
<1>1. Init => GuardInv
  BY Order DEF Init, GuardInv, PodsAreIsolated, Guards, Parts, Idle
<1>2. UnitInv /\ GuardInv /\ [Next]_vars => GuardInv'
  BY GuardStep
<1>3. GuardInv => PodsAreIsolated
  BY DEF GuardInv, PodsAreIsolated
<1> QED
  BY UnitInvariant, <1>1, <1>2, <1>3, PTL DEF Spec
=============================================================================
