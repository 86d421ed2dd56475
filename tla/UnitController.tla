--------------------------- MODULE UnitController ---------------------------
(***************************************************************************)
(* One GPUUnit and the controller that reconciles it                       *)
(* (internal/controller/gpuunit_controller.go): the five objects it owns,  *)
(* the pods of its Deployment, and the status it reports.  Requests, the   *)
(* cluster, the watch and the controller interleave; Reconcile is split    *)
(* where it writes to the API server.                                      *)
(*                                                                         *)
(* Reconcile reads from informer caches.  `cache` holds the cached copies  *)
(* of the owned objects and `stale` names those that have changed in the   *)
(* API server since; the watch delivers each change and queues the unit.   *)
(* A late view of the unit itself is a reconcile that read it earlier.     *)
(* Units are reconciled independently of each other, so one is enough.     *)
(***************************************************************************)
EXTENDS Naturals

CONSTANTS
  Specs,      \* the specs the unit may be given
  Created,    \* those it may be created with
  Storages,   \* the states of its storage at that time
  Losable,    \* owned objects that somebody else may delete
  MaxGen,     \* how often the spec is written
  MaxFaults,  \* failed calls, lost objects and pods, storage outages, crashes
  AcceptsBareConditions, \* the API server stores a condition without a time
  None

Sidecars == {"ssh", "serverless"}
Parts == {"service", "config", "claim", "policy", "deployment"}

\* Why a pod template or the access settings do not render.
TemplateProblems == {"InvalidSpec", "SSHConfigInvalid", "ServerlessConfigInvalid"}
AccessProblems == {"AccessConfigInvalid"}
Problems == TemplateProblems \cup AccessProblems

(***************************************************************************)
(* What a spec decides: the image and the enabled sidecars of the pod, the *)
(* ports (None: no Service), whether the package's allocation has device   *)
(* selectors, and why it cannot be rendered (None: it can).                *)
(***************************************************************************)
ASSUME UnitAssumption ==
  /\ \A s \in Specs : /\ DOMAIN s = {"image", "ports", "side", "selectors", "problem"}
                      /\ s.side \subseteq Sidecars
                      /\ s.selectors \in BOOLEAN /\ s.problem \in Problems \cup {None}
  /\ Created \subseteq Specs
  /\ Storages \subseteq {"absent", "pending", "ready"}
  /\ Losable \subseteq Parts
  /\ MaxGen \in Nat \ {0} /\ MaxFaults \in Nat
  /\ AcceptsBareConditions \in BOOLEAN

VARIABLES
  unit,     \* the object in the API server; None after its deletion
  owned,    \* the owned objects in the API server
  cache,    \* the controller's cached copies of them
  stale,    \* those whose last change the watch has not delivered
  serving,  \* the template of the available pod, or None
  failing,  \* the container that keeps the newest pod from starting, or None
  storage,  \* the mounted storage: "absent", "pending" or "ready"
  queue,    \* is the unit on the work queue?
  ctl,      \* the reconcile in progress
  faults    \* faults so far

vars == <<unit, owned, cache, stale, serving, failing, storage, queue, ctl, faults>>

-----------------------------------------------------------------------------
(***************************************************************************)
(* The objects a spec asks for.  A Deployment also carries the number of   *)
(* its available pods, which the Deployment controller writes.             *)
(***************************************************************************)
desiredGPUUnitService(s) == s.ports

desiredUnitSSHAuthorizedKeysConfigMap(s) ==
  IF "ssh" \in s.side THEN "authorized_keys" ELSE None

desiredUnitDRAResourceClaim(s) == [selectors |-> s.selectors]

desiredUnitNetworkPolicy(s) == [egressOf |-> s.side]

desiredUnitPodTemplate(s) == [image |-> s.image, side |-> s.side]

Desired(s) ==
  [service |-> desiredGPUUnitService(s),
   config |-> desiredUnitSSHAuthorizedKeysConfigMap(s),
   claim |-> desiredUnitDRAResourceClaim(s),
   policy |-> desiredUnitNetworkPolicy(s),
   deployment |-> desiredUnitPodTemplate(s)]

Content(p, obj) == IF p = "deployment" /\ obj # None THEN obj.template ELSE obj

(***************************************************************************)
(* reflect.DeepEqual of a stored object and the one just built.  The API   *)
(* server completes the pod spec with defaults that the built one does not *)
(* have, so a Deployment always differs.  A stored claim without selectors *)
(* has a nil slice where the built one has an empty one.                   *)
(***************************************************************************)
DeepEqual(p, have, want) ==
  /\ have = want
  /\ p # "deployment"
  /\ p = "claim" => want.selectors

(***************************************************************************)
(* Statuses.  The reason is that of the Ready condition.                   *)
(***************************************************************************)
NoStatus == [phase |-> "", reason |-> "", gen |-> 0, side |-> [c \in Sidecars |-> ""]]

\* instanceUnitStatusRules: the first rule that matches decides.
instanceUnitStatusRules(available, failure, storageReady) ==
  CASE available -> [phase |-> "Ready", reason |-> "UnitReady"]
    [] ~available /\ failure -> [phase |-> "Failed", reason |-> "PodStartupFailed"]
    [] ~available /\ ~failure /\ ~storageReady ->
         [phase |-> "Progressing", reason |-> "StorageNotReady"]
    [] OTHER -> [phase |-> "Progressing", reason |-> "UnitProgressing"]

\* buildUnitSSHProgress and buildUnitServerlessProgress.
sidecarProgress(s, c, available, failed) ==
  IF c \notin s.side THEN "Disabled"
  ELSE IF failed = c THEN "Failed"
  ELSE IF available THEN "Ready" ELSE "Pending"

buildGPUUnitStatus(obj, available, failed, storageReady) ==
  LET decision == instanceUnitStatusRules(available, failed # None, storageReady)
  IN [phase |-> decision.phase, reason |-> decision.reason, gen |-> obj.gen,
      side |-> [c \in Sidecars |-> sidecarProgress(obj.spec, c, available, failed)]]

failedStatus(obj, reason) ==
  [phase |-> "Failed", reason |-> reason, gen |-> obj.gen,
   side |-> [c \in Sidecars |-> IF c \in obj.spec.side THEN "Failed" ELSE ""]]

Idle == [pc |-> "idle"]

Init ==
  /\ unit \in {[spec |-> s, gen |-> 1, status |-> NoStatus] : s \in Created}
  /\ owned = [p \in Parts |-> None]
  /\ cache = owned
  /\ stale = {}
  /\ serving = None
  /\ failing = None
  /\ storage \in Storages
  /\ queue = TRUE
  /\ ctl = Idle
  /\ faults = 0

-----------------------------------------------------------------------------
(***************************************************************************)
(* Requests of the runtime API, whose write carries the version it read.   *)
(***************************************************************************)
UpdateGPUUnit(s) ==
  /\ unit # None
  /\ s # unit.spec
  /\ unit.gen < MaxGen
  /\ unit' = [unit EXCEPT !.spec = s, !.gen = @ + 1]
  /\ queue' = TRUE
  /\ UNCHANGED <<owned, cache, stale, serving, failing, storage, ctl, faults>>

DeleteGPUUnit ==
  /\ unit # None
  /\ unit' = None
  /\ queue' = TRUE
  /\ UNCHANGED <<owned, cache, stale, serving, failing, storage, ctl, faults>>

-----------------------------------------------------------------------------
(***************************************************************************)
(* The cluster.  A Deployment replaces its pod by rolling update: the old  *)
(* pod serves until one of the current template is available.  A pod waits *)
(* for what its template mounts: the volume claim of the storage, the      *)
(* device claim, and the file of SSH keys.                                 *)
(***************************************************************************)
clusterFrame == <<unit, cache, queue, ctl>>

Fault == faults < MaxFaults /\ faults' = faults + 1

Starting == owned["deployment"] # None /\ serving # owned["deployment"].template

desiredStorageVolumesBound == storage # "absent"
desiredDRAResourceClaimsExist == owned["claim"] # None
desiredUnitSSHVolumesExist ==
  "ssh" \in owned["deployment"].template.side => owned["config"] # None

PodStarts ==
  /\ Starting
  /\ desiredStorageVolumesBound
  /\ desiredDRAResourceClaimsExist
  /\ desiredUnitSSHVolumesExist
  /\ serving' = owned["deployment"].template
  /\ failing' = None
  /\ owned' = [owned EXCEPT !["deployment"].available = TRUE]
  /\ stale' = stale \cup {"deployment"}
  /\ UNCHANGED <<clusterFrame, storage, faults>>

PodFails(c) ==
  /\ Starting
  /\ failing = None
  /\ c \in {"runtime"} \cup owned["deployment"].template.side
  /\ failing' = c
  /\ UNCHANGED <<clusterFrame, owned, stale, serving, storage, faults>>

PodLost ==
  /\ serving # None
  /\ serving' = None
  /\ owned' = [owned EXCEPT !["deployment"].available = FALSE]
  /\ stale' = stale \cup {"deployment"}
  /\ Fault
  /\ UNCHANGED <<clusterFrame, failing, storage>>

\* Owned objects go, and the pods of a Deployment with it.
Vanish(parts) ==
  /\ \E p \in parts : owned[p] # None
  /\ owned' = [p \in Parts |-> IF p \in parts THEN None ELSE owned[p]]
  /\ stale' = stale \cup {p \in parts : owned[p] # None}
  /\ serving' = IF "deployment" \in parts THEN None ELSE serving
  /\ failing' = IF "deployment" \in parts THEN None ELSE failing
  /\ UNCHANGED <<clusterFrame, storage>>

ObjectLost(p) == Vanish({p}) /\ Fault

\* Every owned object carries an owner reference to the unit.  What a reconcile
\* in progress still creates is collected as well; the collector waits for it.
CollectGarbage == unit = None /\ ctl = Idle /\ Vanish(Parts) /\ UNCHANGED faults

\* A storage is deleted under a unit when both requests race (RuntimeService).
StorageChanges ==
  /\ \/ storage = "absent" /\ storage' = "pending" /\ UNCHANGED faults
     \/ storage = "pending" /\ storage' = "ready" /\ UNCHANGED faults
     \/ storage = "ready" /\ storage' \in {"pending", "absent"} /\ Fault
  /\ UNCHANGED <<clusterFrame, owned, stale, serving, failing>>

-----------------------------------------------------------------------------
(***************************************************************************)
(* SetupWithManager watches units and the objects they own, but neither    *)
(* pods nor storages.  A change of the unit queues it in the same step.    *)
(***************************************************************************)
WatchOwned(p) ==
  /\ p \in stale
  /\ cache' = [cache EXCEPT ![p] = owned[p]]
  /\ stale' = stale \ {p}
  /\ queue' = TRUE
  /\ UNCHANGED <<unit, owned, serving, failing, storage, ctl, faults>>

\* The next leader starts with fresh caches and every unit queued.
Crash ==
  /\ Fault
  /\ ctl' = Idle
  /\ cache' = owned
  /\ stale' = {}
  /\ queue' = TRUE
  /\ UNCHANGED <<unit, owned, serving, failing, storage>>

-----------------------------------------------------------------------------
reconcileFrame == <<unit, cache, storage>>

\* The reconcile stops for this reason; does it return the error?
failedRun(run, reason, returned) ==
  [run EXCEPT !.pc = "failed", !.reason = reason, !.returned = returned]

\* A missing or unreadable storage, a pod template or access settings that do not
\* render are recorded, and Reconcile returns nil.
resolveGPUUnitStorageMounts(run) ==
  \/ /\ storage = "absent"
     /\ ctl' = failedRun(run, "StorageMountInvalid", FALSE)
     /\ UNCHANGED faults
  \/ /\ storage # "absent"
     /\ ctl' = failedRun(run, "StorageMountInvalid", FALSE)
     /\ Fault
  \/ /\ storage # "absent"
     /\ LET problem == run.obj.spec.problem
        IN ctl' = IF problem = None THEN [run EXCEPT !.storageReady = storage = "ready"]
                  ELSE failedRun(run, problem, FALSE)
     /\ UNCHANGED faults

\* The reads that Reconcile begins with.
StartReconcile ==
  /\ ctl.pc = "idle"
  /\ queue
  /\ queue' = FALSE
  /\ IF unit = None THEN UNCHANGED <<ctl, faults>>
     ELSE resolveGPUUnitStorageMounts(
            [pc |-> "service", obj |-> unit, storageReady |-> FALSE,
             available |-> FALSE, reason |-> "", returned |-> FALSE])
  /\ UNCHANGED <<reconcileFrame, owned, stale, serving, failing>>

(***************************************************************************)
(* One step for each owned object, in this order.  What is in the cache is *)
(* compared with what the spec asks for; then one call creates, updates or *)
(* deletes, and fails if the cache does not show the stored object.  A     *)
(* claim is never updated.                                                 *)
(***************************************************************************)
\* MUTANT of After: pods may be created before their policy.
AfterPolicyLast ==
  [service |-> "config", config |-> "claim", claim |-> "deployment",
   deployment |-> "policy", policy |-> "status"]

After ==
  [service |-> "config", config |-> "claim", claim |-> "policy",
   policy |-> "deployment", deployment |-> "status"]

SyncFailed ==
  [service |-> "UnitServiceSyncFailed", config |-> "UnitDeploymentSyncFailed",
   claim |-> "UnitDRAClaimSyncFailed", policy |-> "UnitNetworkPolicySyncFailed",
   deployment |-> "UnitDeploymentSyncFailed"]

Want(p) == Desired(ctl.obj.spec)[p]
Have(p) == Content(p, cache[p])

UpToDate(p) == DeepEqual(p, Have(p), Want(p))

Accepted(p) ==
  CASE cache[p] = None -> owned[p] = None
    [] cache[p] # None /\ Want(p) = None -> owned[p] # None
    [] OTHER -> p # "claim" /\ p \notin stale

\* MUTANT of Stored: the Deployment is replaced by a new one and its pod orphaned.
StoredAnew(p) ==
  IF p # "deployment" THEN Want(p) ELSE [template |-> Want(p), available |-> FALSE]

Stored(p) ==
  IF p # "deployment" THEN Want(p)
  ELSE [template |-> Want(p), available |-> cache[p] # None /\ cache[p].available]

partUnchanged(p) ==
  /\ ctl.pc = p
  /\ UpToDate(p)
  /\ ctl' = [ctl EXCEPT !.pc = After[p]]
  /\ UNCHANGED <<reconcileFrame, owned, stale, serving, failing, queue, faults>>

partWritten(p) ==
  /\ ctl.pc = p
  /\ ~UpToDate(p) /\ Accepted(p)
  /\ owned' = [owned EXCEPT ![p] = Stored(p)]
  /\ stale' = IF Stored(p) = owned[p] THEN stale ELSE stale \cup {p}
  /\ failing' = IF p = "deployment" /\ Have(p) # Want(p) THEN None ELSE failing
  /\ ctl' = [ctl EXCEPT !.pc = After[p],
                        !.available = IF p = "deployment" THEN Stored(p).available ELSE @]
  /\ UNCHANGED <<reconcileFrame, serving, queue, faults>>

\* A read or the write fails: Reconcile records the error and returns it.
partRefused(p) ==
  /\ ctl.pc = p
  /\ IF UpToDate(p) \/ Accepted(p) THEN Fault ELSE UNCHANGED faults
  /\ ctl' = failedRun(ctl, SyncFailed[p], TRUE)
  /\ UNCHANGED <<reconcileFrame, owned, stale, serving, failing, queue>>

(***************************************************************************)
(* updateGPUUnitStatus writes only a status that differs from the one that *)
(* was read.  The write carries the version that was read; an error of it  *)
(* is returned.  The comparison clears the times of the conditions that    *)
(* are then written, and the CRD requires these times.                     *)
(***************************************************************************)
\* MUTANT of sameVersion: the status is patched without a version.
anyVersion == unit # None

sameVersion == unit = ctl.obj

updateGPUUnitStatus(next, again) ==
  /\ \/ /\ next = ctl.obj.status
        /\ queue' = (queue \/ again)
        /\ UNCHANGED <<unit, faults>>
     \/ /\ next # ctl.obj.status
        /\ sameVersion /\ AcceptsBareConditions
        /\ unit' = [unit EXCEPT !.status = next]
        /\ queue' = TRUE
        /\ UNCHANGED faults
     \/ /\ next # ctl.obj.status
        /\ IF sameVersion /\ AcceptsBareConditions THEN Fault ELSE UNCHANGED faults
        /\ queue' = TRUE
        /\ UNCHANGED unit
  /\ ctl' = Idle
  /\ UNCHANGED <<owned, cache, stale, serving, failing, storage>>

\* MUTANT of markUnitFailed: the error is recorded and not returned.
markUnitFailedOnly ==
  /\ ctl.pc = "failed"
  /\ updateGPUUnitStatus(failedStatus(ctl.obj, ctl.reason), FALSE)

markUnitFailed ==
  /\ ctl.pc = "failed"
  /\ updateGPUUnitStatus(failedStatus(ctl.obj, ctl.reason), ctl.returned)

\* inspectGPUUnitPods cannot list the pods.
podsUnlisted ==
  /\ ctl.pc = "status"
  /\ Fault
  /\ ctl' = failedRun(ctl, "PodStatusSyncFailed", TRUE)
  /\ UNCHANGED <<reconcileFrame, owned, stale, serving, failing, queue>>

\* inspectGPUUnitPods and the new status.  A reconcile that changed an object is
\* repeated after requeueAfterUpdate; as the Deployment is always written, this
\* one is.
finishReconcile ==
  /\ ctl.pc = "status"
  /\ updateGPUUnitStatus(buildGPUUnitStatus(ctl.obj, ctl.available, failing, ctl.storageReady),
                         TRUE)

Pods == PodStarts \/ PodLost \/ \E c \in {"runtime"} \cup Sidecars : PodFails(c)

Reconcile ==
  \/ StartReconcile
  \/ \E p \in Parts : partUnchanged(p) \/ partWritten(p) \/ partRefused(p)
  \/ markUnitFailed \/ podsUnlisted \/ finishReconcile

Next ==
  \/ \E s \in Specs : UpdateGPUUnit(s)
  \/ DeleteGPUUnit
  \/ unit # None /\ (Pods \/ StorageChanges \/ \E p \in Losable : ObjectLost(p))
  \/ CollectGarbage
  \/ (\E p \in Parts : WatchOwned(p)) \/ Crash
  \/ Reconcile

Spec == Init /\ [][Next]_vars

\* The controller works, watches deliver and garbage is collected.  Pods and
\* storages need not get anywhere, and nobody has to send requests.
Fairness ==
  /\ WF_vars(Reconcile)
  /\ WF_vars(CollectGarbage)
  /\ \A p \in Parts : WF_vars(WatchOwned(p))

FairSpec == Spec /\ Fairness

-----------------------------------------------------------------------------
Templates == {desiredUnitPodTemplate(s) : s \in Specs}
Reasons == {"", "UnitReady", "PodStartupFailed", "StorageNotReady", "UnitProgressing",
            "StorageMountInvalid", "PodStatusSyncFailed"}
           \cup Problems \cup {SyncFailed[p] : p \in Parts}
Statuses == [phase : {"", "Ready", "Progressing", "Failed"}, reason : Reasons, gen : 0..MaxGen,
             side : [Sidecars -> {"", "Disabled", "Pending", "Ready", "Failed"}]]
Units == [spec : Specs, gen : 1..MaxGen, status : Statuses]
ObjectsOf(p) ==
  IF p = "deployment" THEN [template : Templates, available : BOOLEAN]
  ELSE {Desired(s)[p] : s \in Specs}

\* None is no object of the API server; a Service or a ConfigMap may be None.
ASSUME NoneAssumption ==
  None \notin Units \cup Templates \cup UNION {ObjectsOf(p) : p \in {"claim", "policy", "deployment"}}

\* Every variable has its type; a reported generation is never ahead of the
\* spec, and a Deployment is available exactly while one of its pods serves.
TypeOK ==
  /\ unit \in Units \cup {None}
  /\ \A p \in Parts : {owned[p], cache[p]} \subseteq ObjectsOf(p) \cup {None}
  /\ stale \subseteq Parts
  /\ serving \in Templates \cup {None}
  /\ failing \in {None, "runtime"} \cup Sidecars
  /\ storage \in {"absent", "pending", "ready"}
  /\ queue \in BOOLEAN
  /\ ctl.pc \in {"idle", "failed", "status"} \cup Parts
  /\ ctl.pc # "idle" => ctl.obj \in Units
  /\ faults \in 0..MaxFaults
  /\ unit # None => unit.status.gen <= unit.gen
  /\ (serving # None) = (owned["deployment"] # None /\ owned["deployment"].available)

\* Pods of a unit never exist without the egress policy that isolates them and
\* the device claim they share, whatever fails in between and however old the
\* caches are (gpuunit_controller.go:136-152).
PodsAreIsolated ==
  unit # None /\ owned["deployment"] # None => owned["policy"] # None /\ owned["claim"] # None

Applied(p) == Content(p, owned[p]) = Desired(unit.spec)[p]

\* A status is written only for the generation the unit has at that moment, so a
\* reconcile of an old spec cannot report over a new one; and unless it records
\* a failure, every owned object carries that spec or has an event under way that
\* repeats the reconcile (gpuunit_controller.go:365).
StatusIsApplied ==
  [][\/ unit = None \/ unit' = None
     \/ unit'.status = unit.status
     \/ /\ unit'.status.gen = unit.gen
        /\ \/ unit'.status.reason \notin {"UnitReady", "UnitProgressing", "StorageNotReady",
                                          "PodStartupFailed"}
           \/ \A p \in Parts : Applied(p) \/ p \in stale \/ queue]_vars

Available == owned["deployment"].available

MarkedMountInvalid ==
  unit # None /\ unit.status = failedStatus(unit, "StorageMountInvalid")

Settled ==
  CASE unit = None -> \A p \in Parts : owned[p] = None
    [] MarkedMountInvalid -> storage = "absent"
    [] unit # None /\ unit.status = failedStatus(unit, unit.spec.problem) -> TRUE
    [] OTHER ->
         /\ unit.spec.problem = None
         /\ \A p \in Parts : Applied(p)
         /\ unit.status = buildGPUUnitStatus(unit, Available, failing, storage = "ready")

\* The storage came back, or could be read again, after Reconcile had marked the
\* unit and returned nil; no event of a storage brings the unit back.
Stranded == MarkedMountInvalid /\ storage # "absent" /\ ~queue /\ ctl = Idle

\* Once requests, pods and faults come to rest, the owned objects are those the
\* spec asks for and the status tells what the pods and the storage do, or the
\* storage is absent and the status says so; the objects of a deleted unit are
\* gone.  The one other way to end is a unit that was marked for its storage and
\* never looked at again (gpuunit_controller.go:59, 69-75).
UnitConverges == <>[](Settled \/ Stranded)

\* The same for every unit: one whose storage is back recovers by itself.
UnitRecovers == <>[]Settled

\* Of a unit whose status reports ready SSH access, the pod that serves has the
\* SSH container.
SSHReadyIsServed ==
  unit # None /\ unit.status.gen = unit.gen /\ unit.status.side["ssh"] = "Ready"
    /\ serving # None
    => "ssh" \in serving.side
=============================================================================
