-------------------------- MODULE StorageController --------------------------
(***************************************************************************)
(* GPUStorage objects and the controller that reconciles them              *)
(* (internal/controller/gpustorage_controller.go): the volume claim, the   *)
(* job that fills it, the accessor that serves it, and the status that     *)
(* records how far this came.  API requests (pkg/service/storage.go), the  *)
(* cluster and the controller interleave freely; Reconcile is split where  *)
(* it reads or writes the API server.                                      *)
(*                                                                         *)
(* The controller reads owned objects from a cache.  What matters of its   *)
(* lag is that an object just created may not be in it yet (unseen); a     *)
(* later change of an object is a reconcile that read it earlier.          *)
(***************************************************************************)
EXTENDS Naturals, FiniteSets

CONSTANTS
  Storages,        \* names of GPUStorage objects
  PreparesOf,      \* the prepare specs a storage may be created with
  MaxUid,          \* how often an object may be created under one name
  MaxEdits,        \* per name, how many updates and recovery requests
  Deletable,       \* the storages that may be deleted
  PromptReconcile, \* a finished job's TTL outlasts the reconcile that records it
  MaxFaults,       \* API errors, accessor outages and controller crashes
  AcceptsBareConditions  \* the API server stores a condition without a time

Prepares == {"none", "image"} \cup Storages

ASSUME StorageAssumption ==
  /\ PreparesOf \in [Storages -> SUBSET Prepares]
  /\ \A s \in Storages : s \notin {"none", "image"} \cup PreparesOf[s]
  /\ MaxUid \in Nat /\ MaxFaults \in Nat
  /\ MaxEdits \in [Storages -> Nat]
  /\ Deletable \subseteq Storages
  /\ PromptReconcile \in BOOLEAN /\ AcceptsBareConditions \in BOOLEAN

VARIABLES
  spec,        \* the object's identity and spec; uid 0: there is none
  status,      \* the object's status
  uids,        \* how many objects the name has had
  claim,       \* the volume claim, and whether it holds prepared data
  jobs,        \* prepare jobs by storage and digest
  accessor,    \* the accessor's Deployment and Service
  unseen,      \* objects created and not yet in the controller's cache
  queue,       \* the controller's work queue
  ctl,         \* the reconcile in progress
  faults,      \* faults so far
  history      \* per digest: "none", "tried" or "recorded" as succeeded

objects == <<spec, status, uids, claim, jobs, accessor>>
vars == <<spec, status, uids, claim, jobs, accessor, unseen, queue, ctl, faults, history>>

(***************************************************************************)
(* storagePrepareDigest hashes the prepare spec and the recovery nonce, so *)
(* a digest is that pair.  A nonce is a time; 0 stands for no annotation.  *)
(***************************************************************************)
Digests == [prepare : Prepares, nonce : Nat]
NoDigest == [prepare |-> "none", nonce |-> 0]
storagePrepareDigest(obj) == [prepare |-> obj.prepare, nonce |-> obj.nonce]

Absent == [uid |-> 0, prepare |-> "none", nonce |-> 0, accessor |-> FALSE, size |-> 0, rv |-> 0]
NoStatus == [phase |-> "", prepare |-> "", digest |-> NoDigest, recovery |-> "",
             accessor |-> "", reason |-> ""]
NoClaim == [owner |-> 0, bound |-> FALSE, size |-> 0, prepared |-> FALSE]
NoJob == [owner |-> 0, state |-> "absent"]
NoAccessor == [owner |-> 0, available |-> FALSE]
Idle == [pc |-> "idle"]

ClaimOf(s) == <<"claim", s>>
JobOf(s, d) == <<"job", s, d>>
AccessorOf(s) == <<"accessor", s>>
Lagging(o) == o \in unseen

Exists(s) == spec[s].uid # 0

DigestsOf(s) == [prepare : PreparesOf[s], nonce : 0..MaxEdits[s]]

Init ==
  /\ spec = [s \in Storages |-> Absent]
  /\ status = [s \in Storages |-> NoStatus]
  /\ uids = [s \in Storages |-> 0]
  /\ claim = [s \in Storages |-> NoClaim]
  /\ jobs = [s \in Storages |-> [d \in DigestsOf(s) |-> NoJob]]
  /\ accessor = [s \in Storages |-> NoAccessor]
  /\ unseen = {}
  /\ queue = {}
  /\ ctl = Idle
  /\ faults = 0
  /\ history = [s \in Storages |-> [d \in DigestsOf(s) |-> "none"]]

-----------------------------------------------------------------------------
(***************************************************************************)
(* API requests.  Each writes the object once, and the write carries the   *)
(* version that was read, so it is one step.  The mount check of a         *)
(* deletion is RuntimeService's subject; here a deletion is always         *)
(* possible.  A write is an event that puts the object on the work queue.  *)
(***************************************************************************)
CreateGPUStorage(s, prepare, withAccessor) ==
  /\ ~Exists(s)
  /\ uids[s] < MaxUid
  /\ prepare \in Storages => Exists(prepare)
  /\ spec' = [spec EXCEPT ![s] = [uid |-> uids[s] + 1, prepare |-> prepare, nonce |-> 0,
                                  accessor |-> withAccessor, size |-> 1, rv |-> spec[s].rv]]
  /\ status' = [status EXCEPT ![s] = NoStatus]
  /\ uids' = [uids EXCEPT ![s] = @ + 1]
  /\ history' = [history EXCEPT ![s] = [d \in DigestsOf(s) |-> "none"]]
  /\ queue' = queue \cup {s}
  /\ UNCHANGED <<claim, jobs, accessor, unseen, ctl, faults>>

\* A request that changes nothing is not written; a smaller size is refused.
UpdateGPUStorage(s, withAccessor, size) ==
  /\ Exists(s)
  /\ size >= spec[s].size
  /\ size > spec[s].size \/ withAccessor # spec[s].accessor
  /\ spec[s].rv < MaxEdits[s]
  /\ spec' = [spec EXCEPT ![s].accessor = withAccessor, ![s].size = size, ![s].rv = @ + 1]
  /\ queue' = queue \cup {s}
  /\ UNCHANGED <<status, uids, claim, jobs, accessor, unseen, ctl, faults, history>>

RecoverGPUStorage(s) ==
  /\ Exists(s)
  /\ spec[s].prepare # "none"
  /\ spec[s].rv < MaxEdits[s]
  /\ spec' = [spec EXCEPT ![s].nonce = spec[s].rv + 1, ![s].rv = @ + 1]
  /\ queue' = queue \cup {s}
  /\ UNCHANGED <<status, uids, claim, jobs, accessor, unseen, ctl, faults, history>>

\* Owned objects stay until the garbage collector finds them.
DeleteGPUStorage(s) ==
  /\ Exists(s)
  /\ s \in Deletable
  /\ spec' = [spec EXCEPT ![s] = [Absent EXCEPT !.rv = spec[s].rv]]
  /\ queue' = queue \cup {s}
  /\ UNCHANGED <<status, uids, claim, jobs, accessor, unseen, ctl, faults, history>>

-----------------------------------------------------------------------------
(***************************************************************************)
(* The cluster.  A change of an owned object the cache holds is an event   *)
(* for its storage; the name alone decides which.                          *)
(***************************************************************************)
Notify(s, o) == queue' = IF Lagging(o) THEN queue ELSE queue \cup {s}

Forget(s, o) ==
  /\ unseen' = unseen \ {o}
  /\ queue' = queue \cup {s}

ClaimBinds(s) ==
  /\ claim[s].owner # 0 /\ ~claim[s].bound
  /\ claim' = [claim EXCEPT ![s].bound = TRUE]
  /\ Notify(s, ClaimOf(s))
  /\ UNCHANGED <<spec, status, uids, jobs, accessor, unseen, ctl, faults, history>>

\* The pod needs its claims: the target's and, for a copy, the source's.
JobStarts(s, d) ==
  /\ jobs[s][d].state = "pending"
  /\ claim[s].bound
  /\ d.prepare \in Storages => claim[d.prepare].bound
  /\ jobs' = [jobs EXCEPT ![s][d].state = "active"]
  /\ Notify(s, JobOf(s, d))
  /\ UNCHANGED <<spec, status, uids, claim, accessor, unseen, ctl, faults, history>>

\* A copy leaves in the target what the source held.
JobSucceeds(s, d) ==
  /\ jobs[s][d].state = "active"
  /\ jobs' = [jobs EXCEPT ![s][d].state = "succeeded"]
  /\ claim' = [claim EXCEPT ![s].prepared =
                 @ \/ (d.prepare \in Storages => claim[d.prepare].prepared)]
  /\ Notify(s, JobOf(s, d))
  /\ UNCHANGED <<spec, status, uids, accessor, unseen, ctl, faults, history>>

\* BackoffLimit is 0: one failed pod fails the job.
JobFails(s, d) ==
  /\ jobs[s][d].state = "active"
  /\ jobs' = [jobs EXCEPT ![s][d].state = "failed"]
  /\ Notify(s, JobOf(s, d))
  /\ UNCHANGED <<spec, status, uids, claim, accessor, unseen, ctl, faults, history>>

\* TTLSecondsAfterFinished: a finished job is deleted.
JobExpires(s, d) ==
  /\ jobs[s][d].state \in {"succeeded", "failed"}
  /\ PromptReconcile /\ storagePrepareDigest(spec[s]) = d
       => status[s].digest = d /\ status[s].prepare \in {"Succeeded", "Failed"}
  /\ jobs' = [jobs EXCEPT ![s][d] = NoJob]
  /\ Forget(s, JobOf(s, d))
  /\ UNCHANGED <<spec, status, uids, claim, accessor, ctl, faults, history>>

AccessorStarts(s) ==
  /\ accessor[s].owner # 0 /\ ~accessor[s].available
  /\ accessor' = [accessor EXCEPT ![s].available = TRUE]
  /\ Notify(s, AccessorOf(s))
  /\ UNCHANGED <<spec, status, uids, claim, jobs, unseen, ctl, faults, history>>

AccessorGoesDown(s) ==
  /\ accessor[s].available
  /\ faults < MaxFaults
  /\ faults' = faults + 1
  /\ accessor' = [accessor EXCEPT ![s].available = FALSE]
  /\ Notify(s, AccessorOf(s))
  /\ UNCHANGED <<spec, status, uids, claim, jobs, unseen, ctl, history>>

\* The garbage collector removes an object whose owner is gone, a claim only
\* when no pod uses it.
CollectClaim(s) ==
  /\ claim[s].owner \notin {0, spec[s].uid}
  /\ \A t \in Storages : \A d \in DOMAIN jobs[t] :
       jobs[t][d].state = "active" => t # s /\ d.prepare # s
  /\ claim' = [claim EXCEPT ![s] = NoClaim]
  /\ Forget(s, ClaimOf(s))
  /\ UNCHANGED <<spec, status, uids, jobs, accessor, ctl, faults, history>>

CollectJob(s, d) ==
  /\ jobs[s][d].owner \notin {0, spec[s].uid}
  /\ jobs' = [jobs EXCEPT ![s][d] = NoJob]
  /\ Forget(s, JobOf(s, d))
  /\ UNCHANGED <<spec, status, uids, claim, accessor, ctl, faults, history>>

CollectAccessor(s) ==
  /\ accessor[s].owner \notin {0, spec[s].uid}
  /\ accessor' = [accessor EXCEPT ![s] = NoAccessor]
  /\ Forget(s, AccessorOf(s))
  /\ UNCHANGED <<spec, status, uids, claim, jobs, ctl, faults, history>>

\* The watch delivers the creation of an object.
CacheSees(o) ==
  /\ Forget(o[2], o)
  /\ UNCHANGED <<objects, ctl, faults, history>>

-----------------------------------------------------------------------------
(***************************************************************************)
(* The controller: one worker, one reconcile at a time.  ctl holds what    *)
(* the reconcile has read and decided so far.                              *)
(***************************************************************************)
Progress(phase, recovery, digest, ready, changed) ==
  [phase |-> phase, recovery |-> recovery, digest |-> digest,
   ready |-> ready, changed |-> changed]

StartReconcile(s) ==
  /\ ctl.pc = "idle"
  /\ s \in queue
  /\ queue' = queue \ {s}
  /\ ctl' = IF Exists(s)
            THEN [pc |-> "claim", s |-> s, obj |-> spec[s], st |-> status[s]]
            ELSE Idle
  /\ UNCHANGED <<objects, unseen, faults, history>>

\* An error ends the reconcile through markStorageFailed.
Fail(reason) == ctl' = [pc |-> "failed", s |-> ctl.s, obj |-> ctl.obj, st |-> ctl.st,
                        reason |-> reason]

reconcileGPUStoragePVC(s) ==
  /\ ctl.pc = "claim" /\ ctl.s = s
  /\ LET found == claim[s].owner # 0 /\ ~Lagging(ClaimOf(s))
         Proceed(bound, changed) ==
           ctl' = [pc |-> "prepare", s |-> s, obj |-> ctl.obj, st |-> ctl.st,
                   bound |-> bound, changed |-> changed]
     IN \/ /\ found /\ claim[s].size = ctl.obj.size
           /\ Proceed(claim[s].bound, FALSE)
           /\ UNCHANGED <<claim, unseen, queue>>
        \/ /\ found /\ claim[s].size # ctl.obj.size
           /\ claim' = [claim EXCEPT ![s].size = ctl.obj.size]
           /\ Proceed(claim[s].bound, TRUE)
           /\ queue' = queue \cup {s}
           /\ UNCHANGED unseen
        \/ /\ ~found /\ claim[s].owner = 0
           /\ claim' = [claim EXCEPT ![s] = [owner |-> ctl.obj.uid, bound |-> FALSE,
                 size |-> ctl.obj.size, prepared |-> ctl.obj.prepare = "none"]]
           /\ unseen' = unseen \cup {ClaimOf(s)}
           /\ Proceed(FALSE, TRUE)
           /\ UNCHANGED queue
        \/ /\ ~found /\ claim[s].owner # 0
           /\ Fail("claim")
           /\ UNCHANGED <<claim, unseen, queue>>
  /\ UNCHANGED <<spec, status, uids, jobs, accessor, faults, history>>

recoveryPhaseForPrepare(obj, phase) ==
  IF phase = "Failed" THEN "Required"
  ELSE IF obj.nonce = 0 \/ phase = "NotRequested" THEN "None"
  ELSE IF phase = "Succeeded" THEN "Succeeded" ELSE "Running"

\* MUTANT of storagePreparePhase: the job's state is reported as it is.
storagePreparePhaseRaw(state) == state

storagePreparePhase(state) ==
  CASE state = "succeeded" -> "Succeeded"
    [] state = "failed" -> "Failed"
    [] state = "active" -> "Running"
    [] OTHER -> "Pending"

storagePrepareProgressFromJob(obj, digest, phase, changed) ==
  Progress(phase, recoveryPhaseForPrepare(obj, phase), digest, phase = "Succeeded", changed)

\* The source must exist and be Ready before its data is copied.
SourceReady(obj) ==
  obj.prepare \in Storages => Exists(obj.prepare) /\ status[obj.prepare].phase = "Ready"

prepareDone(p) ==
  ctl' = [pc |-> "accessor", s |-> ctl.s, obj |-> ctl.obj, st |-> ctl.st,
          bound |-> ctl.bound, prepare |-> p, changed |-> ctl.changed \/ p.changed]

prepareWaits(s) ==
  LET obj == ctl.obj IN
  /\ ctl.pc = "prepare" /\ ctl.s = s
  /\ \/ /\ obj.prepare = "none"
        /\ prepareDone(Progress("NotRequested", "None", NoDigest, TRUE, FALSE))
     \/ /\ obj.prepare # "none" /\ ~ctl.bound
        /\ prepareDone(Progress("Pending", "None", NoDigest, FALSE, FALSE))
     \/ /\ obj.prepare # "none" /\ ctl.bound /\ ~SourceReady(obj)
        /\ prepareDone(Progress("Pending", "None", storagePrepareDigest(obj), FALSE, FALSE))
  /\ UNCHANGED <<objects, unseen, queue, faults, history>>

Created(s, d) == IF history[s][d] = "none" THEN "tried" ELSE history[s][d]

reconcileGPUStoragePrepareJobState(s) ==
  LET obj == ctl.obj
      d == storagePrepareDigest(obj)
      found == jobs[s][d].state # "absent" /\ ~Lagging(JobOf(s, d))
      recorded == ctl.st.digest = d /\ ctl.st.prepare = "Succeeded"
  IN
  /\ ctl.pc = "prepare" /\ ctl.s = s
  /\ obj.prepare # "none" /\ ctl.bound /\ SourceReady(obj)
  /\ \/ /\ found
        /\ prepareDone(storagePrepareProgressFromJob(
             obj, d, storagePreparePhase(jobs[s][d].state), FALSE))
        /\ UNCHANGED <<jobs, unseen, history>>
     \/ /\ ~found /\ recorded
        /\ prepareDone(storagePrepareProgressFromJob(obj, d, "Succeeded", FALSE))
        /\ UNCHANGED <<jobs, unseen, history>>
     \/ /\ ~found /\ ~recorded /\ jobs[s][d].state = "absent"
        /\ jobs' = [jobs EXCEPT ![s][d] = [owner |-> obj.uid, state |-> "pending"]]
        /\ unseen' = unseen \cup {JobOf(s, d)}
        /\ history' = [history EXCEPT ![s][d] = Created(s, d)]
        /\ prepareDone(storagePrepareProgressFromJob(obj, d, "Pending", TRUE))
     \/ /\ ~found /\ ~recorded /\ jobs[s][d].state # "absent"
        /\ Fail("prepare")
        /\ UNCHANGED <<jobs, unseen, history>>
  /\ UNCHANGED <<spec, status, uids, claim, accessor, queue, faults>>

accessorDone(phase, changed) ==
  ctl' = [pc |-> "status", s |-> ctl.s, obj |-> ctl.obj, st |-> ctl.st, bound |-> ctl.bound,
          prepare |-> ctl.prepare, accessor |-> phase, changed |-> ctl.changed \/ changed]

\* MUTANT of accessorWanted: a bound claim is enough.
accessorWhenBound == ctl.obj.accessor /\ ctl.bound

accessorWanted == ctl.obj.accessor /\ ctl.bound /\ ctl.prepare.ready

ensureGPUStorageAccessorAbsent(s) ==
  /\ ctl.pc = "accessor" /\ ctl.s = s
  /\ ~accessorWanted
  /\ LET found == accessor[s].owner # 0 /\ ~Lagging(AccessorOf(s))
     IN /\ accessor' = IF found THEN [accessor EXCEPT ![s] = NoAccessor] ELSE accessor
        /\ queue' = IF found THEN queue \cup {s} ELSE queue
        /\ accessorDone(IF ctl.obj.accessor THEN "Pending" ELSE "Disabled", found)
  /\ UNCHANGED <<spec, status, uids, claim, jobs, unseen, faults, history>>

\* The accessor is its Service and its Deployment, looked up in this order and
\* treated alike: what stops one stops the reconcile like the other, and
\* nothing reads the Service.  The Deployment read is not yet written back.
reconcileGPUStorageAccessor(s) ==
  /\ ctl.pc = "accessor" /\ ctl.s = s
  /\ accessorWanted
  /\ LET found == accessor[s].owner # 0 /\ ~Lagging(AccessorOf(s))
     IN \/ /\ found
           /\ ctl' = [pc |-> "update", s |-> s, obj |-> ctl.obj, st |-> ctl.st, bound |-> ctl.bound,
                      prepare |-> ctl.prepare, read |-> accessor[s], changed |-> ctl.changed]
           /\ UNCHANGED <<accessor, unseen>>
        \/ /\ ~found /\ accessor[s].owner = 0
           /\ accessor' = [accessor EXCEPT ![s] = [owner |-> ctl.obj.uid, available |-> FALSE]]
           /\ unseen' = unseen \cup {AccessorOf(s)}
           /\ accessorDone("Pending", TRUE)
        \/ /\ ~found /\ accessor[s].owner # 0
           /\ Fail("accessor")
           /\ UNCHANGED <<accessor, unseen>>
  /\ UNCHANGED <<spec, status, uids, claim, jobs, queue, faults, history>>

\* syncGPUStorageAccessorDeployment compares the pod template it wants with one
\* that has the API server's defaults, so it always finds a difference.  The
\* write brings back what is stored, which is no event, but it counts as a
\* change; and it is a conflict when the Deployment has changed since.
updateAccessorDeployment(s) ==
  /\ ctl.pc = "update" /\ ctl.s = s
  /\ \/ /\ accessor[s] = ctl.read
        /\ accessorDone(IF ctl.read.available THEN "Ready" ELSE "Pending", TRUE)
     \/ /\ accessor[s] # ctl.read
        /\ Fail("accessor")
  /\ UNCHANGED <<objects, unseen, queue, faults, history>>

\* storageReadyStatusRules: the first that matches decides.
storageReadyStatus ==
  IF ~ctl.bound THEN "Pending"
  ELSE IF ctl.prepare.phase = "Failed" THEN "Failed"
  ELSE IF ~ctl.prepare.ready THEN "Pending"
  ELSE IF ctl.obj.accessor /\ ctl.accessor # "Ready" THEN "Pending"
  ELSE "Ready"

buildGPUStorageStatus ==
  [phase |-> storageReadyStatus, prepare |-> ctl.prepare.phase,
   digest |-> ctl.prepare.digest, recovery |-> ctl.prepare.recovery,
   accessor |-> ctl.accessor, reason |-> ""]

\* MUTANT of failedStatus: the snapshot starts from an empty status.
failedStatusFresh == [NoStatus EXCEPT !.phase = "Failed", !.reason = ctl.reason]

\* The failed snapshot keeps what the status said of the prepare job.
failedStatus == [ctl.st EXCEPT !.phase = "Failed", !.reason = ctl.reason]

\* An equal status is not written; a write needs the version that was read.
Writable(s) == spec[s].uid = ctl.obj.uid /\ spec[s].rv = ctl.obj.rv

Record(s, next) ==
  [history EXCEPT ![s] = [d \in DOMAIN @ |->
     IF next.prepare = "Succeeded" /\ next.digest = d THEN "recorded" ELSE @[d]]]

\* A write is an event; requeue is RequeueAfter or a returned error.  Comparing
\* the two statuses clears the times of the conditions that are then written.
updateGPUStorageStatus(s, next, requeue) ==
  LET write == next # ctl.st
      ok == write => Writable(s) /\ AcceptsBareConditions
  IN /\ status' = IF write /\ ok THEN [status EXCEPT ![s] = next] ELSE status
     /\ history' = IF write /\ ok THEN Record(s, next) ELSE history
     /\ queue' = IF write \/ requeue THEN queue \cup {s} ELSE queue
     /\ ctl' = Idle
     /\ UNCHANGED <<spec, uids, claim, jobs, accessor, unseen, faults>>

\* MUTANT of FinishReconcile: only a change it made itself brings it back.
FinishReconcileOnce(s) ==
  /\ ctl.pc = "status" /\ ctl.s = s
  /\ updateGPUStorageStatus(s, buildGPUStorageStatus, ctl.changed)

FinishReconcile(s) ==
  /\ ctl.pc = "status" /\ ctl.s = s
  /\ updateGPUStorageStatus(s, buildGPUStorageStatus,
                            ctl.changed \/ storageReadyStatus # "Ready")

\* Reconcile returns the error of the claim and of the accessor and so comes
\* back; it returns nil for an error of the prepare step.
markStorageFailed(s) ==
  /\ ctl.pc = "failed" /\ ctl.s = s
  /\ updateGPUStorageStatus(s, failedStatus, ctl.reason # "prepare")

\* Any call to the API server may fail; a failed status write is returned.
APIError(s) ==
  /\ ctl.pc # "idle" /\ ctl.s = s
  /\ faults < MaxFaults
  /\ faults' = faults + 1
  /\ \/ /\ ctl.pc \in {"claim", "prepare", "accessor", "update"}
        /\ ctl.pc = "prepare" => ctl.obj.prepare # "none" /\ ctl.bound
        /\ Fail(IF ctl.pc = "update" THEN "accessor" ELSE ctl.pc)
        /\ UNCHANGED queue
     \/ /\ ctl.pc \in {"status", "failed"}
        /\ ctl' = Idle
        /\ queue' = queue \cup {s}
  /\ UNCHANGED <<objects, unseen, history>>

\* A new process lists everything before it reconciles.
Crash ==
  /\ faults < MaxFaults
  /\ faults' = faults + 1
  /\ ctl' = Idle
  /\ unseen' = {}
  /\ queue' = {s \in Storages : Exists(s)}
  /\ UNCHANGED <<objects, history>>

Requests(s) ==
  \/ \E p \in PreparesOf[s], a \in BOOLEAN : CreateGPUStorage(s, p, a)
  \/ \E a \in BOOLEAN, size \in {spec[s].size, spec[s].size + 1} : UpdateGPUStorage(s, a, size)
  \/ RecoverGPUStorage(s)
  \/ DeleteGPUStorage(s)

Cluster(s) ==
  \/ ClaimBinds(s) \/ CollectClaim(s)
  \/ \E d \in DigestsOf(s) : \/ JobStarts(s, d) \/ JobSucceeds(s, d) \/ JobFails(s, d)
                             \/ JobExpires(s, d) \/ CollectJob(s, d)
  \/ AccessorStarts(s) \/ AccessorGoesDown(s) \/ CollectAccessor(s)

Reconcile(s) ==
  \/ reconcileGPUStoragePVC(s)
  \/ prepareWaits(s)
  \/ reconcileGPUStoragePrepareJobState(s)
  \/ ensureGPUStorageAccessorAbsent(s)
  \/ reconcileGPUStorageAccessor(s) \/ updateAccessorDeployment(s)
  \/ FinishReconcile(s)
  \/ markStorageFailed(s)

Next ==
  \/ \E s \in Storages : \/ Requests(s) \/ Cluster(s) \/ Reconcile(s)
                         \/ StartReconcile(s) \/ APIError(s)
  \/ \E o \in unseen : CacheSees(o)
  \/ Crash

Spec == Init /\ [][Next]_vars

\* The controller works, the watch delivers, and the cluster starts what it
\* was asked to; nobody has to send requests, and nothing has to fail.
Fairness ==
  /\ \A s \in Storages :
       /\ WF_vars(Reconcile(s))
       /\ SF_vars(StartReconcile(s))
       /\ WF_vars(ClaimBinds(s))
       /\ WF_vars(AccessorStarts(s))
       /\ WF_vars(CollectClaim(s))
       /\ WF_vars(\E d \in DigestsOf(s) : JobStarts(s, d))
       /\ WF_vars(\E d \in DigestsOf(s) : JobSucceeds(s, d) \/ JobFails(s, d))
       /\ WF_vars(\E o \in unseen : o[2] = s /\ CacheSees(o))

FairSpec == Spec /\ Fairness

-----------------------------------------------------------------------------
PreparePhases == {"", "NotRequested", "Pending", "Running", "Succeeded", "Failed"}
RecoveryPhases == {"", "None", "Required", "Running", "Succeeded"}
Stages == {"idle", "claim", "prepare", "accessor", "update", "status", "failed"}

\* Every object is well formed, and a reconcile works on one storage.
TypeOK ==
  /\ spec \in [Storages -> [uid : Nat, prepare : Prepares, nonce : Nat,
                            accessor : BOOLEAN, size : Nat, rv : Nat]]
  /\ status \in [Storages -> [phase : {"", "Pending", "Ready", "Failed"},
                              prepare : PreparePhases, digest : Digests,
                              recovery : RecoveryPhases,
                              accessor : {"", "Disabled", "Pending", "Ready"},
                              reason : {"", "claim", "prepare", "accessor"}]]
  /\ uids \in [Storages -> Nat]
  /\ claim \in [Storages -> [owner : Nat, bound : BOOLEAN, size : Nat, prepared : BOOLEAN]]
  /\ accessor \in [Storages -> [owner : Nat, available : BOOLEAN]]
  /\ queue \subseteq Storages
  /\ ctl.pc \in Stages
  /\ faults \in Nat

\* A storage is reported Ready, and its accessor serves it, only after a prepare
\* job has filled its claim; for a copy, from a source that was itself filled.
\* Reconcile decides this from a status, a job and a source read at different
\* times (gpustorage_controller.go:140-205).
PreparedBeforeUse ==
  \A s \in Storages :
    Exists(s) /\ (status[s].phase = "Ready" \/ accessor[s].owner = spec[s].uid)
      => claim[s].prepared

Started(s, d) == jobs[s][d].state = "absent" /\ jobs'[s][d].state = "pending"

\* Once the status records that an image job succeeded, that job is never
\* started again: not after its TTL has removed it, not after an error, a
\* conflict or a crash (gpustorage_controller.go:243-246).
RecordedSuccessIsFinal ==
  [][\A s \in Storages : \A d \in DigestsOf(s) :
       Started(s, d) /\ d.prepare = "image" => history[s][d] # "recorded"]_vars

\* The same for every storage, copies included: a new attempt is what a user
\* asks for after a failure (README.md:665).
SeededOnce ==
  [][\A s \in Storages : \A d \in DigestsOf(s) :
       Started(s, d) => history[s][d] # "recorded"]_vars

\* After a failure a new attempt needs a recovery request: every job the
\* controller starts has a digest it has not tried (gpustorage_types.go:63).
AttemptsAreRequested ==
  [][\A s \in Storages : \A d \in DigestsOf(s) :
       Started(s, d) => history[s][d] = "none"]_vars

\* A storage reported Ready has prepared content in the claim it owns
\* (gpustorage_types.go:60).
ContentIsReady ==
  \A s \in Storages :
    /\ Exists(s) /\ status[s].phase = "Ready"
    /\ claim[s].owner = spec[s].uid /\ claim[s].bound
    => claim[s].prepared

Settled(s) ==
  \/ ~Exists(s)
  \/ status[s].phase = "Ready" /\ claim[s].size = spec[s].size
  \/ status[s].prepare = "Failed"
  \/ spec[s].prepare \in Storages /\ ~Exists(spec[s].prepare)

\* Reconcile moves every storage to Ready at its requested size, or to a failed
\* prepare job, unless it or its source is deleted.  One kind of failure it does
\* not come back from, an error of the prepare step, which it swallows once the
\* status tells it (gpustorage_controller.go:66-71): so the storages meant are
\* those that are not left with that status.
Converges ==
  \A s \in Storages :
    []<>(status[s].reason # "prepare") => (Exists(s) ~> Settled(s))

\* The same without the exception (gpustorage_controller.go:47).
AlwaysConverges == \A s \in Storages : Exists(s) ~> Settled(s)
=============================================================================
