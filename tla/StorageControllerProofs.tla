----------------------- MODULE StorageControllerProofs -----------------------
(***************************************************************************)
(* Proofs about StorageController for any storages, prepare specs, edits   *)
(* and faults.  What a Ready status and a recorded success promise is      *)
(* proved for names that are used once; a storage created again under a    *)
(* name finds what its predecessor left.                                   *)
(***************************************************************************)
EXTENDS StorageController, TLAPS

JobStates == {"absent", "pending", "active", "succeeded", "failed"}

Objects == [uid : Nat, prepare : Prepares, nonce : Nat, accessor : BOOLEAN, size : Nat, rv : Nat]

Statuses == [phase : {"", "Pending", "Ready", "Failed"}, prepare : PreparePhases,
             digest : Digests, recovery : RecoveryPhases,
             accessor : {"", "Disabled", "Pending", "Ready"},
             reason : {"", "claim", "prepare", "accessor"}]

Progresses == [phase : PreparePhases, recovery : RecoveryPhases, digest : Digests,
               ready : BOOLEAN, changed : BOOLEAN]

\* What a reconcile carries, stage by stage.
AtClaim == [pc : {"claim"}, s : Storages, obj : Objects, st : Statuses]
AtPrepare == [pc : {"prepare"}, s : Storages, obj : Objects, st : Statuses, bound : BOOLEAN,
              changed : BOOLEAN]
AtAccessor == [pc : {"accessor"}, s : Storages, obj : Objects, st : Statuses, bound : BOOLEAN,
               prepare : Progresses, changed : BOOLEAN]
AtUpdate == [pc : {"update"}, s : Storages, obj : Objects, st : Statuses, bound : BOOLEAN,
             prepare : Progresses, read : [owner : Nat, available : BOOLEAN], changed : BOOLEAN]
AtStatus == [pc : {"status"}, s : Storages, obj : Objects, st : Statuses, bound : BOOLEAN,
             prepare : Progresses, accessor : {"Disabled", "Pending", "Ready"}, changed : BOOLEAN]
AtFailed == [pc : {"failed"}, s : Storages, obj : Objects, st : Statuses,
             reason : {"claim", "prepare", "accessor"}]

CtlInv ==
  \/ ctl = Idle \/ ctl \in AtClaim \/ ctl \in AtPrepare \/ ctl \in AtAccessor
  \/ ctl \in AtUpdate \/ ctl \in AtStatus \/ ctl \in AtFailed

\* A spec asks for something the storage may be created with, and its nonce is no
\* later than its last edit.
WellSpecified(s, obj) ==
  /\ obj.uid # 0 /\ obj.prepare \in PreparesOf[s]
  /\ obj.nonce <= obj.rv /\ obj.rv <= MaxEdits[s]

SpecInv ==
  /\ \A s \in Storages : /\ Exists(s) => WellSpecified(s, spec[s])
                         /\ spec[s].rv <= MaxEdits[s]
  /\ ctl # Idle => WellSpecified(ctl.s, ctl.obj)

JobInv ==
  /\ jobs = [s \in Storages |-> [d \in DigestsOf(s) |-> jobs[s][d]]]
  /\ \A s \in Storages : \A d \in DigestsOf(s) : jobs[s][d] \in [owner : Nat, state : JobStates]
  /\ history = [s \in Storages |-> [d \in DigestsOf(s) |-> history[s][d]]]
  /\ \A o \in unseen : o[2] \in Storages

ShapeInv == TypeOK /\ CtlInv /\ SpecInv /\ JobInv

-----------------------------------------------------------------------------
(* Every name is used once.                                                *)

NamesUsedOnce == MaxUid = 1

\* Before its creation a storage has left no trace; while it exists, what it owns
\* is its own.  A job runs only on a claim that is there.
NameInv(s) ==
  /\ uids[s] = 0 => /\ ~Exists(s) /\ claim[s].owner = 0 /\ accessor[s].owner = 0
                    /\ \A d \in DigestsOf(s) : jobs[s][d].state = "absent"
  /\ uids[s] <= 1
  /\ Exists(s) => {claim[s].owner, accessor[s].owner} \subseteq {0, spec[s].uid}
  /\ claim[s].owner = 0 => claim[s] = NoClaim
  /\ \A d \in DigestsOf(s) : jobs[s][d].state = "active" => claim[s].bound

\* A reconcile of a storage that still exists has read its status and its prepare
\* spec, and an equal version means an equal digest.
ReadInv ==
  /\ uids[ctl.s] # 0
  /\ ctl.obj.rv <= spec[ctl.s].rv
  /\ Exists(ctl.s) =>
       /\ ctl.obj.uid = spec[ctl.s].uid /\ ctl.obj.prepare = spec[ctl.s].prepare
       /\ ctl.st = status[ctl.s]
       /\ ctl.obj.rv = spec[ctl.s].rv => ctl.obj.nonce = spec[ctl.s].nonce
       /\ ctl.pc \in {"prepare", "accessor", "update", "status"} => claim[ctl.s].owner # 0

OnceInv == (\A s \in Storages : NameInv(s)) /\ (ctl # Idle => ReadInv)

\* A storage that was deleted; its name is not used again.
Gone(s) == uids[s] # 0 /\ ~Exists(s)

\* What reports or serves a storage implies that its claim is filled; a job may have
\* copied nothing only from a source that is gone.
FilledStorage(s) ==
  Exists(s) /\ ~claim[s].prepared =>
    /\ status[s].phase # "Ready" /\ status[s].prepare # "Succeeded"
    /\ accessor[s].owner # spec[s].uid
    /\ \A d \in DigestsOf(s) : jobs[s][d].state = "succeeded" => d.prepare \in Storages /\ Gone(d.prepare)
    /\ spec[s].prepare = "none" => claim[s].owner = 0

\* A job that copies has a filled source, unless that was deleted since.
FilledSources(s) ==
  \A d \in DigestsOf(s) : jobs[s][d].state # "absent" /\ d.prepare \in Storages
    => Gone(d.prepare) \/ (Exists(d.prepare) /\ claim[d.prepare].prepared)

FilledRead ==
  /\ ctl.prepare.phase = "Succeeded" => ctl.prepare.ready
  /\ Exists(ctl.s) /\ ctl.prepare.ready => claim[ctl.s].prepared

FilledInv ==
  /\ \A s \in Storages : FilledStorage(s) /\ FilledSources(s)
  /\ ctl.pc \in {"accessor", "update", "status"} => FilledRead

\* The job of a recorded success is done with, and the claim it filled is bound.
JobOver(s, d) ==
  Exists(s) /\ d.prepare = "image" =>
    /\ jobs[s][d].state \in {"absent", "succeeded"}
    /\ claim[s].bound /\ claim[s].owner # 0

\* A recorded success of the current digest stays in the status.
RecordedDigest(s, d) ==
  /\ JobOver(s, d)
  /\ Exists(s) => d.nonce <= spec[s].rv
  /\ Exists(s) /\ d.prepare = "image" /\ storagePrepareDigest(spec[s]) = d
       => status[s].digest = d /\ status[s].prepare = "Succeeded"

RecordedStatus(s) ==
  Exists(s) /\ status[s].prepare = "Succeeded" =>
    status[s].digest \in DigestsOf(s) /\ history[s][status[s].digest] = "recorded"

\* Every reconcile that could start the job of a recorded success has read that it
\* is recorded, and what it reports as a success is one.
RecordRead ==
  /\ \A d \in DigestsOf(ctl.s) :
       history[ctl.s][d] = "recorded" /\ d.prepare = "image" /\ storagePrepareDigest(ctl.obj) = d =>
         /\ ctl.st.digest = d /\ ctl.st.prepare = "Succeeded"
         /\ Exists(ctl.s) /\ ctl.pc \in {"prepare", "accessor", "update", "status"} => ctl.bound
         /\ Exists(ctl.s) /\ ctl.pc \in {"accessor", "update", "status"} => ctl.prepare.phase = "Succeeded"
  /\ ctl.pc \in {"prepare", "accessor", "update", "status"} /\ Exists(ctl.s) /\ ctl.bound => claim[ctl.s].bound
  /\ ctl.pc \in {"accessor", "update", "status"} /\ ctl.prepare.phase = "Succeeded" =>
       /\ ctl.prepare.digest = storagePrepareDigest(ctl.obj)
       /\ JobOver(ctl.s, ctl.prepare.digest)

RecordedStorage(s) ==
  /\ \A d \in DigestsOf(s) : history[s][d] = "recorded" => RecordedDigest(s, d)
  /\ RecordedStatus(s)

RecordInv == (\A s \in Storages : RecordedStorage(s)) /\ (ctl # Idle => RecordRead)

-----------------------------------------------------------------------------
(* What a reconcile carries.                                               *)

LEMMA CtlAt ==
  ASSUME CtlInv
  PROVE  /\ ctl = Idle <=> ctl.pc = "idle"
         /\ ctl.pc = "claim" => ctl \in AtClaim
         /\ ctl.pc = "prepare" => ctl \in AtPrepare
         /\ ctl.pc = "accessor" => ctl \in AtAccessor
         /\ ctl.pc = "update" => ctl \in AtUpdate
         /\ ctl.pc = "status" => ctl \in AtStatus
         /\ ctl.pc = "failed" => ctl \in AtFailed
         /\ ctl # Idle => ctl.s \in Storages /\ ctl.obj \in Objects /\ ctl.st \in Statuses
BY DEF CtlInv, Idle, AtClaim, AtPrepare, AtAccessor, AtUpdate, AtStatus, AtFailed

\* The digest of a spec is one of its storage's digests.
LEMMA DigestKnown ==
  ASSUME NEW s \in Storages, NEW obj \in Objects, WellSpecified(s, obj)
  PROVE  storagePrepareDigest(obj) \in DigestsOf(s) /\ storagePrepareDigest(obj) \in Digests
<1>1. obj.nonce \in 0..MaxEdits[s]
  BY StorageAssumption DEF WellSpecified, Objects
<1> QED
  BY <1>1 DEF WellSpecified, Objects, storagePrepareDigest, DigestsOf, Digests

LEMMA ProgressTypes ==
  ASSUME NEW obj \in Objects, NEW d \in Digests, NEW phase \in PreparePhases \ {""},
         NEW changed \in BOOLEAN
  PROVE  /\ storagePrepareProgressFromJob(obj, d, phase, changed) \in Progresses
         /\ storagePrepareProgressFromJob(obj, d, phase, changed).phase = phase
         /\ storagePrepareProgressFromJob(obj, d, phase, changed).digest = d
         /\ storagePrepareProgressFromJob(obj, d, phase, changed).ready = (phase = "Succeeded")
         /\ storagePrepareProgressFromJob(obj, d, phase, changed).changed = changed
<1>1. recoveryPhaseForPrepare(obj, phase) \in RecoveryPhases
  BY DEF recoveryPhaseForPrepare, RecoveryPhases
<1> QED
  BY <1>1 DEF storagePrepareProgressFromJob, Progress, Progresses

LEMMA PhaseTypes ==
  ASSUME NEW state
  PROVE  /\ storagePreparePhase(state) \in PreparePhases \ {""}
         /\ storagePreparePhase(state) = "Succeeded" <=> state = "succeeded"
BY DEF storagePreparePhase, PreparePhases

\* The statuses that a reconcile writes.
LEMMA WrittenTypes ==
  ASSUME CtlInv
  PROVE  /\ ctl.pc = "status" => buildGPUStorageStatus \in Statuses
         /\ ctl.pc = "failed" =>
              /\ failedStatus \in Statuses
              /\ failedStatus.prepare = ctl.st.prepare /\ failedStatus.digest = ctl.st.digest
              /\ failedStatus.phase = "Failed"
<1>1. ASSUME ctl.pc = "status" PROVE buildGPUStorageStatus \in Statuses
  <2>1. ctl \in AtStatus
    BY <1>1, CtlAt
  <2>2. storageReadyStatus \in {"", "Pending", "Ready", "Failed"}
    BY DEF storageReadyStatus
  <2> QED
    BY <2>1, <2>2 DEF AtStatus, Progresses, Statuses, buildGPUStorageStatus
<1>2. ASSUME ctl.pc = "failed"
      PROVE  /\ failedStatus \in Statuses
             /\ failedStatus.prepare = ctl.st.prepare /\ failedStatus.digest = ctl.st.digest
             /\ failedStatus.phase = "Failed"
  <2>1. ctl \in AtFailed
    BY <1>2, CtlAt
  <2> QED
    BY <2>1 DEF AtFailed, Statuses, failedStatus
<1> QED
  BY <1>1, <1>2

-----------------------------------------------------------------------------
(* Every step keeps the shape of the state.                                *)

LEMMA ShapeInit == Init => ShapeInv
<1> SUFFICES ASSUME Init PROVE ShapeInv
  OBVIOUS
<1>1. TypeOK
  BY DEF Init, TypeOK, Absent, NoStatus, NoDigest, NoClaim, NoAccessor, Idle, Prepares,
     PreparePhases, RecoveryPhases, Digests, Stages
<1>2. CtlInv
  BY DEF Init, CtlInv
<1>3. SpecInv
  BY StorageAssumption DEF Init, SpecInv, Exists, Absent
<1>4. JobInv
  BY DEF Init, JobInv, NoJob, JobStates
<1> QED
  BY <1>1, <1>2, <1>3, <1>4 DEF ShapeInv

LEMMA ShapeRequests ==
  ASSUME ShapeInv, NEW s \in Storages, Requests(s)
  PROVE  ShapeInv'
<1> USE DEF ShapeInv
<1>0. spec \in [Storages -> Objects] /\ status \in [Storages -> Statuses] /\ MaxEdits[s] \in Nat
  BY StorageAssumption DEF TypeOK, Objects, Statuses
<1>1. ctl' = ctl /\ unseen' = unseen /\ jobs' = jobs
  BY DEF Requests, CreateGPUStorage, UpdateGPUStorage, RecoverGPUStorage, DeleteGPUStorage
<1>2. CtlInv'
  BY <1>1 DEF CtlInv
<1>3. \A t \in Storages : WellSpecified(t, ctl.obj)' <=> WellSpecified(t, ctl.obj)
  BY <1>1 DEF WellSpecified
<1>4. ASSUME NEW new \in Objects, spec' = [spec EXCEPT ![s] = new],
             new.rv <= MaxEdits[s], new.uid # 0 => WellSpecified(s, new)
      PROVE  SpecInv' /\ spec' \in [Storages -> Objects]
  <2>1. spec' \in [Storages -> Objects]
    BY <1>0, <1>4
  <2>2. \A t \in Storages : /\ Exists(t)' => WellSpecified(t, spec[t])'
                            /\ spec'[t].rv <= MaxEdits[t]
    BY <1>0, <1>4 DEF SpecInv, Exists, WellSpecified
  <2>3. ctl' # Idle => WellSpecified(ctl.s, ctl.obj)'
    BY <1>1, <1>3, CtlAt DEF SpecInv, WellSpecified
  <2> QED
    BY <2>1, <2>2, <2>3 DEF SpecInv
<1>5. ASSUME NEW p \in PreparesOf[s], NEW a \in BOOLEAN, CreateGPUStorage(s, p, a)
      PROVE  ShapeInv'
  <2>1. p \in Prepares /\ uids[s] \in Nat
    BY StorageAssumption DEF TypeOK
  <2> DEFINE new == [uid |-> uids[s] + 1, prepare |-> p, nonce |-> 0,
                     accessor |-> a, size |-> 1, rv |-> spec[s].rv]
  <2>2. uids[s] + 1 \in Nat /\ uids[s] + 1 # 0 /\ spec[s].rv \in Nat
    BY <1>0, <2>1 DEF Objects
  <2>3. new \in Objects /\ new.uid # 0
    BY <2>1, <2>2 DEF Objects
  <2>4. spec' = [spec EXCEPT ![s] = new] /\ status' = [status EXCEPT ![s] = NoStatus]
    BY <1>5 DEF CreateGPUStorage
  <2>5. NoStatus \in Statuses
    BY DEF NoStatus, NoDigest, Statuses, PreparePhases, Digests, RecoveryPhases, Prepares
  <2>6. status' \in [Storages -> Statuses]
    BY <1>0, <2>4, <2>5
  <2>7. new.nonce <= new.rv /\ new.rv <= MaxEdits[s]
    BY <2>2 DEF SpecInv
  <2>8. WellSpecified(s, new)
    BY <2>3, <2>7 DEF WellSpecified
  <2>9. SpecInv' /\ spec' \in [Storages -> Objects]
    BY <1>4, <2>3, <2>4, <2>7, <2>8
  <2>10. TypeOK'
    BY <1>5, <2>1, <2>6, <2>9, <1>1 DEF CreateGPUStorage, TypeOK, Objects, Statuses
  <2>11. JobInv'
    BY <1>5 DEF CreateGPUStorage, JobInv
  <2> QED
    BY <1>2, <2>9, <2>10, <2>11
<1>6. ASSUME UNCHANGED <<status, uids, claim, accessor, faults, history>>, queue' = queue \cup {s},
             SpecInv' /\ spec' \in [Storages -> Objects]
      PROVE  ShapeInv'
  <2>1. TypeOK'
    BY <1>1, <1>6 DEF TypeOK, Objects
  <2>2. JobInv'
    BY <1>1, <1>6 DEF JobInv
  <2> QED
    BY <1>2, <1>6, <2>1, <2>2
<1>7. ASSUME NEW a \in BOOLEAN, NEW size \in {spec[s].size, spec[s].size + 1},
             UpdateGPUStorage(s, a, size)
      PROVE  ShapeInv'
  <2> DEFINE new == [spec[s] EXCEPT !.accessor = a, !.size = size, !.rv = @ + 1]
  <2>0. spec[s] \in Objects /\ size \in Nat /\ spec[s].rv + 1 \in Nat
    BY <1>0 DEF Objects
  <2>1. new \in Objects /\ new.rv = spec[s].rv + 1 /\ new.uid = spec[s].uid
        /\ new.prepare = spec[s].prepare /\ new.nonce = spec[s].nonce
    BY <2>0 DEF Objects
  <2>2. spec' = [spec EXCEPT ![s] = new]
    BY <1>0, <1>7 DEF UpdateGPUStorage
  <2>3. WellSpecified(s, new)
    BY <1>0, <1>7, <2>1 DEF UpdateGPUStorage, SpecInv, WellSpecified, Exists, Objects
  <2>4. SpecInv' /\ spec' \in [Storages -> Objects]
    BY <1>4, <2>1, <2>2, <2>3 DEF WellSpecified
  <2> QED
    BY <1>6, <1>7, <2>4 DEF UpdateGPUStorage
<1>8. ASSUME RecoverGPUStorage(s)
      PROVE  ShapeInv'
  <2> DEFINE new == [spec[s] EXCEPT !.nonce = spec[s].rv + 1, !.rv = @ + 1]
  <2>0. spec[s] \in Objects /\ spec[s].rv + 1 \in Nat
    BY <1>0 DEF Objects
  <2>1. new \in Objects /\ new.rv = spec[s].rv + 1 /\ new.uid = spec[s].uid
        /\ new.prepare = spec[s].prepare /\ new.nonce = spec[s].rv + 1
    BY <2>0 DEF Objects
  <2>2. spec' = [spec EXCEPT ![s] = new]
    BY <1>0, <1>8 DEF RecoverGPUStorage
  <2>3. WellSpecified(s, new)
    BY <1>0, <1>8, <2>1 DEF RecoverGPUStorage, SpecInv, WellSpecified, Exists, Objects
  <2>4. SpecInv' /\ spec' \in [Storages -> Objects]
    BY <1>4, <2>1, <2>2, <2>3 DEF WellSpecified
  <2> QED
    BY <1>6, <1>8, <2>4 DEF RecoverGPUStorage
<1>9. ASSUME DeleteGPUStorage(s)
      PROVE  ShapeInv'
  <2> DEFINE new == [Absent EXCEPT !.rv = spec[s].rv]
  <2>1. new \in Objects /\ new.rv = spec[s].rv /\ new.uid = 0
    BY <1>0 DEF Objects, Absent, Prepares
  <2>2. spec' = [spec EXCEPT ![s] = new]
    BY <1>9 DEF DeleteGPUStorage
  <2>3. SpecInv' /\ spec' \in [Storages -> Objects]
    BY <1>4, <2>1, <2>2 DEF SpecInv
  <2> QED
    BY <1>6, <1>9, <2>3 DEF DeleteGPUStorage
<1> QED
  BY <1>5, <1>7, <1>8, <1>9 DEF Requests

LEMMA ShapeCluster ==
  ASSUME ShapeInv, NEW s \in Storages, Cluster(s)
  PROVE  ShapeInv'
<1> USE DEF ShapeInv
<1>0. claim[s] \in [owner : Nat, bound : BOOLEAN, size : Nat, prepared : BOOLEAN]
      /\ accessor[s] \in [owner : Nat, available : BOOLEAN]
  BY DEF TypeOK
<1>1. UNCHANGED <<spec, status, uids, ctl, history>>
  BY DEF Cluster, ClaimBinds, CollectClaim, JobStarts, JobSucceeds, JobFails, JobExpires, CollectJob,
     AccessorStarts, AccessorGoesDown, CollectAccessor
<1>2. CtlInv' /\ SpecInv'
  BY <1>1 DEF CtlInv, SpecInv, WellSpecified, Exists
<1>3. faults' \in Nat /\ queue' \subseteq Storages
  <2>1. faults' = faults \/ faults' = faults + 1
    BY DEF Cluster, ClaimBinds, CollectClaim, JobStarts, JobSucceeds, JobFails, JobExpires,
       CollectJob, AccessorStarts, AccessorGoesDown, CollectAccessor
  <2>2. queue' = queue \/ queue' = queue \cup {s}
    BY DEF Cluster, ClaimBinds, CollectClaim, JobStarts, JobSucceeds, JobFails, JobExpires,
       CollectJob, AccessorStarts, AccessorGoesDown, CollectAccessor, Notify, Forget
  <2>3. faults \in Nat
    BY DEF TypeOK
  <2>4. queue' \subseteq Storages
    BY <2>2 DEF TypeOK
  <2> QED
    BY <2>1, <2>3, <2>4
<1>4. unseen' \subseteq unseen
  BY DEF Cluster, ClaimBinds, CollectClaim, JobStarts, JobSucceeds, JobFails, JobExpires, CollectJob,
     AccessorStarts, AccessorGoesDown, CollectAccessor, Forget
<1>5. ASSUME claim' \in [Storages -> [owner : Nat, bound : BOOLEAN, size : Nat, prepared : BOOLEAN]],
             accessor' \in [Storages -> [owner : Nat, available : BOOLEAN]]
      PROVE  TypeOK'
  BY <1>1, <1>3, <1>5 DEF TypeOK
<1>6. ASSUME jobs' = jobs PROVE JobInv'
  BY <1>1, <1>4, <1>6 DEF JobInv
<1>7. ASSUME NEW d \in DigestsOf(s), NEW j \in [owner : Nat, state : JobStates],
             jobs' = [jobs EXCEPT ![s][d] = j]
      PROVE  JobInv'
  BY <1>1, <1>4, <1>7 DEF JobInv
<1>8. CASE ClaimBinds(s) \/ CollectClaim(s) \/ AccessorStarts(s) \/ AccessorGoesDown(s)
           \/ CollectAccessor(s)
  <2>1. /\ claim' \in [Storages -> [owner : Nat, bound : BOOLEAN, size : Nat, prepared : BOOLEAN]]
        /\ accessor' \in [Storages -> [owner : Nat, available : BOOLEAN]]
        /\ jobs' = jobs
    <3>1. CASE ClaimBinds(s)
      <4>1. [claim[s] EXCEPT !.bound = TRUE]
              \in [owner : Nat, bound : BOOLEAN, size : Nat, prepared : BOOLEAN]
        BY <1>0
      <4> QED
        BY <3>1, <4>1 DEF ClaimBinds, TypeOK
    <3>2. CASE CollectClaim(s)
      <4>1. NoClaim \in [owner : Nat, bound : BOOLEAN, size : Nat, prepared : BOOLEAN]
        BY DEF NoClaim
      <4> QED
        BY <3>2, <4>1 DEF CollectClaim, TypeOK
    <3>3. CASE AccessorStarts(s) \/ AccessorGoesDown(s) \/ CollectAccessor(s)
      <4>1. /\ NoAccessor \in [owner : Nat, available : BOOLEAN]
            /\ \A b \in BOOLEAN : [accessor[s] EXCEPT !.available = b] \in [owner : Nat, available : BOOLEAN]
        BY <1>0 DEF NoAccessor
      <4>2. PICK x \in [owner : Nat, available : BOOLEAN] : accessor' = [accessor EXCEPT ![s] = x]
        BY <3>3, <4>1 DEF AccessorStarts, AccessorGoesDown, CollectAccessor
      <4>3. UNCHANGED <<claim, jobs>>
        BY <3>3 DEF AccessorStarts, AccessorGoesDown, CollectAccessor
      <4> QED
        BY <4>2, <4>3 DEF TypeOK
    <3> QED
      BY <1>8, <3>1, <3>2, <3>3
  <2> QED
    BY <1>2, <1>5, <1>6, <2>1
<1>9. ASSUME NEW d \in DigestsOf(s),
             \/ JobStarts(s, d) \/ JobSucceeds(s, d) \/ JobFails(s, d)
             \/ JobExpires(s, d) \/ CollectJob(s, d)
      PROVE  ShapeInv'
  <2>1. jobs[s][d] \in [owner : Nat, state : JobStates]
    BY DEF JobInv
  <2>2. ASSUME NEW x \in {"active", "failed", "succeeded"},
               jobs' = [jobs EXCEPT ![s][d].state = x]
        PROVE  JobInv'
    <3>1. [jobs[s][d] EXCEPT !.state = x] \in [owner : Nat, state : JobStates]
      BY <2>1 DEF JobStates
    <3>2. jobs' = [jobs EXCEPT ![s][d] = [jobs[s][d] EXCEPT !.state = x]]
      BY <2>2
    <3> QED
      BY <1>7, <3>1, <3>2
  <2>3. NoJob \in [owner : Nat, state : JobStates]
    BY DEF NoJob, JobStates
  <2>4. JobInv'
    BY <1>9, <1>7, <2>2, <2>3 DEF JobStarts, JobSucceeds, JobFails, JobExpires, CollectJob
  <2>5. accessor' = accessor
    BY <1>9 DEF JobStarts, JobSucceeds, JobFails, JobExpires, CollectJob
  <2>6. claim' \in [Storages -> [owner : Nat, bound : BOOLEAN, size : Nat, prepared : BOOLEAN]]
    <3>1. CASE claim' = claim
      BY <3>1 DEF TypeOK
    <3>2. CASE JobSucceeds(s, d)
      <4>1. PICK b \in BOOLEAN : claim' = [claim EXCEPT ![s].prepared = b]
        BY <3>2 DEF JobSucceeds, TypeOK
      <4> QED
        BY <4>1 DEF TypeOK
    <3> QED
      BY <1>9, <3>1, <3>2 DEF JobStarts, JobFails, JobExpires, CollectJob
  <2> QED
    BY <1>2, <1>5, <2>4, <2>5, <2>6 DEF TypeOK
<1> QED
  BY <1>8, <1>9 DEF Cluster

\* Writing the status ends the reconcile.
LEMMA ShapeWrite ==
  ASSUME ShapeInv, NEW s \in Storages, NEW next \in Statuses, NEW requeue \in BOOLEAN,
         updateGPUStorageStatus(s, next, requeue)
  PROVE  ShapeInv'
<1> USE DEF ShapeInv
<1>1. UNCHANGED <<spec, uids, claim, jobs, accessor, unseen, faults>> /\ ctl' = Idle
  BY DEF updateGPUStorageStatus
<1>2. status' = status \/ status' = [status EXCEPT ![s] = next]
  BY DEF updateGPUStorageStatus
<1>3. history' = history \/ history' = Record(s, next)
  BY DEF updateGPUStorageStatus
<1>4. queue' = queue \/ queue' = queue \cup {s}
  BY DEF updateGPUStorageStatus
<1>5. status' \in [Storages -> Statuses] /\ queue' \subseteq Storages
  <2>1. status \in [Storages -> Statuses]
    BY DEF TypeOK, Statuses
  <2>2. status' \in [Storages -> Statuses]
    BY <1>2, <2>1
  <2>3. queue' \subseteq Storages
    BY <1>4 DEF TypeOK
  <2> QED
    BY <2>2, <2>3
<1>6. TypeOK'
  BY <1>1, <1>5 DEF TypeOK, Statuses, Idle, Stages
<1>7. CtlInv' /\ SpecInv'
  BY <1>1 DEF CtlInv, SpecInv, WellSpecified, Exists
<1>8. history' = [t \in Storages |-> [d \in DigestsOf(t) |-> history'[t][d]]]
  <2>1. DOMAIN history[s] = DigestsOf(s)
    BY DEF JobInv
  <2>2. CASE history' = Record(s, next)
    BY <2>1, <2>2 DEF Record, JobInv
  <2> QED
    BY <1>3, <2>2 DEF JobInv
<1>9. JobInv'
  BY <1>1, <1>8 DEF JobInv
<1> QED
  BY <1>6, <1>7, <1>9

LEMMA ShapeReconcile ==
  ASSUME ShapeInv, NEW s \in Storages, Reconcile(s)
  PROVE  ShapeInv'
<1> USE DEF ShapeInv
<1>0. /\ ctl # Idle /\ ctl.s = s /\ ctl.obj \in Objects /\ ctl.st \in Statuses
      /\ WellSpecified(s, ctl.obj)
  <2>1. ctl.pc # "idle" /\ ctl.s = s
    BY DEF Reconcile, reconcileGPUStoragePVC, prepareWaits, reconcileGPUStoragePrepareJobState,
       ensureGPUStorageAccessorAbsent, reconcileGPUStorageAccessor, updateAccessorDeployment,
       FinishReconcile, markStorageFailed
  <2> QED
    BY <2>1, CtlAt DEF SpecInv
<1>1. storagePrepareDigest(ctl.obj) \in DigestsOf(s) /\ storagePrepareDigest(ctl.obj) \in Digests
  BY <1>0, DigestKnown
<1>2. claim[s] \in [owner : Nat, bound : BOOLEAN, size : Nat, prepared : BOOLEAN]
      /\ accessor[s] \in [owner : Nat, available : BOOLEAN]
  BY DEF TypeOK
<1>3. ASSUME UNCHANGED <<spec, status, uids, faults>>, queue' \subseteq Storages, CtlInv',
             claim' \in [Storages -> [owner : Nat, bound : BOOLEAN, size : Nat, prepared : BOOLEAN]],
             accessor' \in [Storages -> [owner : Nat, available : BOOLEAN]]
      PROVE  TypeOK'
  <2>1. ctl'.pc \in Stages
    BY <1>3 DEF CtlInv, Idle, AtClaim, AtPrepare, AtAccessor, AtUpdate, AtStatus, AtFailed, Stages
  <2> QED
    BY <1>3, <2>1 DEF TypeOK
<1>4. ASSUME UNCHANGED spec, ctl'.s = ctl.s, ctl'.obj = ctl.obj
      PROVE  SpecInv'
  BY <1>0, <1>4 DEF SpecInv, Exists, WellSpecified
<1>5. ASSUME UNCHANGED <<jobs, history>>, \A o \in unseen' : o \in unseen \/ o[2] = s
      PROVE  JobInv'
  BY <1>5 DEF JobInv
<1>6. ASSUME NEW reason \in {"claim", "prepare", "accessor"}, Fail(reason)
      PROVE  CtlInv' /\ ctl'.s = ctl.s /\ ctl'.obj = ctl.obj
  <2>1. ctl' \in AtFailed
    BY <1>0, <1>6 DEF Fail, AtFailed
  <2> QED
    BY <1>6, <2>1 DEF Fail, CtlInv
<1>7. CASE reconcileGPUStoragePVC(s)
  <2>0. ctl \in AtClaim
    BY <1>7, CtlAt DEF reconcileGPUStoragePVC
  <2>1. CtlInv' /\ ctl'.s = ctl.s /\ ctl'.obj = ctl.obj
    <3>1. CASE Fail("claim")
      BY <1>6, <3>1
    <3>2. CASE ~Fail("claim")
      <4>1. PICK b \in BOOLEAN, c \in BOOLEAN :
              ctl' = [pc |-> "prepare", s |-> s, obj |-> ctl.obj, st |-> ctl.st,
                      bound |-> b, changed |-> c]
        BY <1>2, <1>7, <3>2 DEF reconcileGPUStoragePVC
      <4>2. ctl' \in AtPrepare
        BY <1>0, <4>1 DEF AtPrepare
      <4> QED
        BY <1>0, <4>1, <4>2 DEF CtlInv
    <3> QED
      BY <3>1, <3>2
  <2>2. claim' \in [Storages -> [owner : Nat, bound : BOOLEAN, size : Nat, prepared : BOOLEAN]]
    <3>1. ctl.obj.size \in Nat /\ ctl.obj.uid \in Nat
      BY <1>0 DEF Objects
    <3>2. [claim[s] EXCEPT !.size = ctl.obj.size]
            \in [owner : Nat, bound : BOOLEAN, size : Nat, prepared : BOOLEAN]
      BY <1>2, <3>1
    <3>3. [owner |-> ctl.obj.uid, bound |-> FALSE,
           size |-> ctl.obj.size, prepared |-> ctl.obj.prepare = "none"]
            \in [owner : Nat, bound : BOOLEAN, size : Nat, prepared : BOOLEAN]
      BY <3>1
    <3>4. claim' = claim \/ (\E x \in [owner : Nat, bound : BOOLEAN, size : Nat, prepared : BOOLEAN] :
                               claim' = [claim EXCEPT ![s] = x])
      BY <1>7, <3>2, <3>3 DEF reconcileGPUStoragePVC
    <3> QED
      BY <3>4 DEF TypeOK
  <2>3. UNCHANGED <<spec, status, uids, jobs, accessor, faults, history>>
    BY <1>7 DEF reconcileGPUStoragePVC
  <2>4. queue' \subseteq Storages /\ \A o \in unseen' : o \in unseen \/ o[2] = s
    <3>1. queue' = queue \/ queue' = queue \cup {s}
      BY <1>7 DEF reconcileGPUStoragePVC
    <3>2. unseen' = unseen \/ unseen' = unseen \cup {ClaimOf(s)}
      BY <1>7 DEF reconcileGPUStoragePVC
    <3>3. ClaimOf(s)[2] = s
      BY DEF ClaimOf
    <3>4. queue' \subseteq Storages
      BY <3>1 DEF TypeOK
    <3> QED
      BY <3>2, <3>3, <3>4
  <2>5. accessor' \in [Storages -> [owner : Nat, available : BOOLEAN]]
    BY <2>3 DEF TypeOK
  <2> QED
    BY <1>3, <1>4, <1>5, <2>1, <2>2, <2>3, <2>4, <2>5
<1>8. ASSUME ctl.pc = "prepare", NEW p \in Progresses, prepareDone(p)
      PROVE  CtlInv' /\ ctl'.s = ctl.s /\ ctl'.obj = ctl.obj
  <2>1. ctl \in AtPrepare
    BY <1>8, CtlAt
  <2>2. (ctl.changed \/ p.changed) \in BOOLEAN
    OBVIOUS
  <2>3. ctl' \in AtAccessor
    BY <1>0, <1>8, <2>1, <2>2 DEF prepareDone, AtPrepare, AtAccessor
  <2> QED
    BY <1>8, <2>3 DEF prepareDone, CtlInv
<1>9. CASE prepareWaits(s)
  <2>1. /\ ctl.pc = "prepare"
        /\ UNCHANGED <<spec, status, uids, claim, jobs, accessor, unseen, queue, faults, history>>
    BY <1>9 DEF prepareWaits, objects
  <2>2. /\ Progress("NotRequested", "None", NoDigest, TRUE, FALSE) \in Progresses
        /\ Progress("Pending", "None", NoDigest, FALSE, FALSE) \in Progresses
        /\ Progress("Pending", "None", storagePrepareDigest(ctl.obj), FALSE, FALSE) \in Progresses
    BY <1>1 DEF Progress, Progresses, PreparePhases, RecoveryPhases, NoDigest, Digests, Prepares
  <2>3. PICK p \in Progresses : prepareDone(p)
    BY <1>9, <2>2 DEF prepareWaits
  <2>4. CtlInv' /\ ctl'.s = ctl.s /\ ctl'.obj = ctl.obj
    BY <1>8, <2>1, <2>3
  <2> QED
    BY <1>3, <1>4, <1>5, <2>1, <2>4 DEF TypeOK
<1>10. CASE reconcileGPUStoragePrepareJobState(s)
  <2>1. ctl.pc = "prepare" /\ UNCHANGED <<spec, status, uids, claim, accessor, queue, faults>>
    BY <1>10 DEF reconcileGPUStoragePrepareJobState
  <2> DEFINE d == storagePrepareDigest(ctl.obj)
  <2>2. \A x \in PreparePhases \ {""}, c \in BOOLEAN :
          storagePrepareProgressFromJob(ctl.obj, d, x, c) \in Progresses
    BY <1>0, <1>1, ProgressTypes
  <2>3. Fail("prepare") \/ \E p \in Progresses : prepareDone(p)
    <3>1. /\ storagePreparePhase(jobs[s][d].state) \in PreparePhases \ {""}
          /\ "Succeeded" \in PreparePhases \ {""} /\ "Pending" \in PreparePhases \ {""}
      BY PhaseTypes DEF PreparePhases
    <3> QED
      BY <1>10, <2>2, <3>1 DEF reconcileGPUStoragePrepareJobState
  <2>4. CtlInv' /\ ctl'.s = ctl.s /\ ctl'.obj = ctl.obj
    BY <1>6, <1>8, <2>1, <2>3
  <2>5. JobInv'
    <3>1. CASE UNCHANGED <<jobs, unseen, history>>
      BY <1>5, <3>1
    <3>2. CASE /\ jobs' = [jobs EXCEPT ![s][d] = [owner |-> ctl.obj.uid, state |-> "pending"]]
               /\ unseen' = unseen \cup {JobOf(s, d)}
               /\ history' = [history EXCEPT ![s][d] = Created(s, d)]
      <4>1. d \in DigestsOf(s) /\ JobOf(s, d)[2] = s
        BY <1>1 DEF JobOf
      <4>2. [owner |-> ctl.obj.uid, state |-> "pending"] \in [owner : Nat, state : JobStates]
        BY <1>0 DEF Objects, JobStates
      <4>3. history' = [t \in Storages |-> [e \in DigestsOf(t) |-> history'[t][e]]]
        BY <3>2, <4>1 DEF JobInv
      <4>4. /\ jobs' = [t \in Storages |-> [e \in DigestsOf(t) |-> jobs'[t][e]]]
            /\ \A t \in Storages : \A e \in DigestsOf(t) :
                 jobs'[t][e] \in [owner : Nat, state : JobStates]
        BY <3>2, <4>1, <4>2, ZenonT(60) DEF JobInv
      <4>5. \A o \in unseen' : o[2] \in Storages
        BY <3>2, <4>1 DEF JobInv
      <4> QED
        BY <4>3, <4>4, <4>5 DEF JobInv
    <3> QED
      BY <1>10, <3>1, <3>2 DEF reconcileGPUStoragePrepareJobState
  <2> QED
    BY <1>3, <1>4, <2>1, <2>4, <2>5 DEF TypeOK
<1>11. ASSUME ctl.pc \in {"accessor", "update"}, NEW phase \in {"Disabled", "Pending", "Ready"},
              NEW changed \in BOOLEAN, accessorDone(phase, changed)
       PROVE  CtlInv' /\ ctl'.s = ctl.s /\ ctl'.obj = ctl.obj
  <2>1. ctl \in AtAccessor \/ ctl \in AtUpdate
    BY <1>11, CtlAt
  <2>2. (ctl.changed \/ changed) \in BOOLEAN
    OBVIOUS
  <2>3. ctl' \in AtStatus
    BY <1>0, <1>11, <2>1, <2>2 DEF accessorDone, AtAccessor, AtUpdate, AtStatus
  <2> QED
    BY <1>11, <2>3 DEF accessorDone, CtlInv
<1>12. ASSUME NEW x \in [owner : Nat, available : BOOLEAN],
              accessor' = accessor \/ accessor' = [accessor EXCEPT ![s] = x]
       PROVE  accessor' \in [Storages -> [owner : Nat, available : BOOLEAN]]
  BY <1>12 DEF TypeOK
<1>13. CASE ensureGPUStorageAccessorAbsent(s)
  <2>1. /\ ctl.pc = "accessor" /\ UNCHANGED <<spec, status, uids, claim, jobs, unseen, faults, history>>
        /\ accessor' = accessor \/ accessor' = [accessor EXCEPT ![s] = NoAccessor]
        /\ queue' = queue \/ queue' = queue \cup {s}
    BY <1>13 DEF ensureGPUStorageAccessorAbsent
  <2>2. NoAccessor \in [owner : Nat, available : BOOLEAN]
    BY DEF NoAccessor
  <2>3. PICK phase \in {"Disabled", "Pending", "Ready"}, changed \in BOOLEAN :
          accessorDone(phase, changed)
    BY <1>13 DEF ensureGPUStorageAccessorAbsent
  <2>4. CtlInv' /\ ctl'.s = ctl.s /\ ctl'.obj = ctl.obj
    BY <1>11, <2>1, <2>3
  <2>5. queue' \subseteq Storages
    BY <2>1 DEF TypeOK
  <2>6. accessor' \in [Storages -> [owner : Nat, available : BOOLEAN]]
    BY <1>12, <2>1, <2>2
  <2> QED
    BY <1>3, <1>4, <1>5, <2>1, <2>4, <2>5, <2>6 DEF TypeOK
<1>14. CASE reconcileGPUStorageAccessor(s)
  <2> DEFINE new == [owner |-> ctl.obj.uid, available |-> FALSE]
  <2>1. /\ ctl.pc = "accessor" /\ UNCHANGED <<spec, status, uids, claim, jobs, queue, faults, history>>
        /\ accessor' = accessor \/ accessor' = [accessor EXCEPT ![s] = new]
        /\ unseen' = unseen \/ unseen' = unseen \cup {AccessorOf(s)}
    BY <1>14 DEF reconcileGPUStorageAccessor
  <2>2. new \in [owner : Nat, available : BOOLEAN]
    BY <1>0 DEF Objects
  <2>3. \/ Fail("accessor")
        \/ \E phase \in {"Disabled", "Pending", "Ready"}, changed \in BOOLEAN :
             accessorDone(phase, changed)
        \/ ctl' = [pc |-> "update", s |-> s, obj |-> ctl.obj, st |-> ctl.st, bound |-> ctl.bound,
                   prepare |-> ctl.prepare, read |-> accessor[s], changed |-> ctl.changed]
    BY <1>14 DEF reconcileGPUStorageAccessor
  <2>4. CtlInv' /\ ctl'.s = ctl.s /\ ctl'.obj = ctl.obj
    <3>1. CASE ctl' = [pc |-> "update", s |-> s, obj |-> ctl.obj, st |-> ctl.st, bound |-> ctl.bound,
                       prepare |-> ctl.prepare, read |-> accessor[s], changed |-> ctl.changed]
      <4>1. ctl \in AtAccessor
        BY <2>1, CtlAt
      <4>2. ctl' \in AtUpdate
        BY <1>0, <1>2, <3>1, <4>1 DEF AtAccessor, AtUpdate
      <4> QED
        BY <1>0, <3>1, <4>2 DEF CtlInv
    <3> QED
      BY <1>6, <1>11, <2>1, <2>3, <3>1
  <2>5. \A o \in unseen' : o \in unseen \/ o[2] = s
    <3>1. AccessorOf(s)[2] = s
      BY DEF AccessorOf
    <3> QED
      BY <2>1, <3>1
  <2>6. accessor' \in [Storages -> [owner : Nat, available : BOOLEAN]]
    BY <1>12, <2>1, <2>2
  <2> QED
    BY <1>3, <1>4, <1>5, <2>1, <2>4, <2>5, <2>6 DEF TypeOK
<1>17. CASE updateAccessorDeployment(s)
  <2>1. ctl.pc = "update" /\ UNCHANGED <<objects, unseen, queue, faults, history>>
    BY <1>17 DEF updateAccessorDeployment
  <2>2. \/ Fail("accessor")
        \/ \E phase \in {"Disabled", "Pending", "Ready"}, changed \in BOOLEAN :
             accessorDone(phase, changed)
    BY <1>17 DEF updateAccessorDeployment
  <2>3. CtlInv' /\ ctl'.s = ctl.s /\ ctl'.obj = ctl.obj
    BY <1>6, <1>11, <2>1, <2>2
  <2> QED
    BY <1>3, <1>4, <1>5, <2>1, <2>3 DEF TypeOK, objects
<1>15. CASE FinishReconcile(s)
  <2>1. buildGPUStorageStatus \in Statuses
    BY <1>15, WrittenTypes DEF FinishReconcile
  <2>2. (ctl.changed \/ storageReadyStatus # "Ready") \in BOOLEAN
    OBVIOUS
  <2> QED
    BY <1>15, <2>1, <2>2, ShapeWrite DEF FinishReconcile
<1>16. CASE markStorageFailed(s)
  <2>1. failedStatus \in Statuses
    BY <1>16, WrittenTypes DEF markStorageFailed
  <2>2. (ctl.reason # "prepare") \in BOOLEAN
    OBVIOUS
  <2> QED
    BY <1>16, <2>1, <2>2, ShapeWrite DEF markStorageFailed
<1> QED
  BY <1>7, <1>9, <1>10, <1>13, <1>14, <1>15, <1>16, <1>17 DEF Reconcile

LEMMA ShapeStep == ShapeInv /\ [Next]_vars => ShapeInv'
<1> USE DEF ShapeInv
<1> SUFFICES ASSUME ShapeInv, [Next]_vars
             PROVE  ShapeInv'
  OBVIOUS
<1>1. CASE UNCHANGED vars
  BY <1>1 DEF vars, TypeOK, CtlInv, SpecInv, JobInv, Exists, WellSpecified
<1>2. ASSUME UNCHANGED <<objects, history>>, queue' \subseteq Storages, faults' \in Nat,
             \A o \in unseen' : o[2] \in Storages, CtlInv',
             ctl' # Idle => WellSpecified(ctl'.s, ctl'.obj)
      PROVE  ShapeInv'
  <2>1. ctl'.pc \in Stages
    BY <1>2 DEF CtlInv, Idle, AtClaim, AtPrepare, AtAccessor, AtUpdate, AtStatus, AtFailed, Stages
  <2>2. TypeOK'
    BY <1>2, <2>1 DEF TypeOK, objects
  <2>3. SpecInv'
    BY <1>2 DEF SpecInv, objects, Exists, WellSpecified
  <2>4. JobInv'
    BY <1>2 DEF JobInv, objects
  <2> QED
    BY <1>2, <2>2, <2>3, <2>4
<1>3. queue \subseteq Storages /\ faults \in Nat /\ faults + 1 \in Nat
      /\ (\A o \in unseen : o[2] \in Storages)
  <2>1. queue \subseteq Storages /\ faults \in Nat
    BY DEF TypeOK
  <2>2. \A o \in unseen : o[2] \in Storages
    BY DEF JobInv
  <2> QED
    BY <2>1, <2>2
<1>4. ASSUME NEW s \in Storages, StartReconcile(s)
      PROVE  ShapeInv'
  <2>1. spec[s] \in Objects /\ status[s] \in Statuses
    BY DEF TypeOK, Objects, Statuses
  <2>2. /\ UNCHANGED <<objects, history, unseen, faults>> /\ queue' = queue \ {s}
        /\ \/ ctl' = Idle
           \/ /\ ctl' = [pc |-> "claim", s |-> s, obj |-> spec[s], st |-> status[s]]
              /\ Exists(s)
    BY <1>4 DEF StartReconcile
  <2>3. CtlInv'
    BY <2>1, <2>2 DEF CtlInv, AtClaim
  <2>4. ctl' # Idle => WellSpecified(ctl'.s, ctl'.obj)
    BY <2>2 DEF SpecInv
  <2> QED
    BY <1>2, <1>3, <2>2, <2>3, <2>4
<1>5. ASSUME NEW s \in Storages, APIError(s)
      PROVE  ShapeInv'
  <2>1. ctl # Idle /\ ctl.s = s /\ ctl.obj \in Objects /\ ctl.st \in Statuses
    BY <1>5, CtlAt DEF APIError
  <2>2. /\ UNCHANGED <<objects, history, unseen>> /\ queue' \subseteq queue \cup {s}
        /\ faults' = faults + 1
        /\ \/ ctl' = Idle
           \/ \E reason \in {"claim", "prepare", "accessor"} : Fail(reason)
    BY <1>5 DEF APIError
  <2>3. CtlInv'
    BY <2>1, <2>2 DEF CtlInv, AtFailed, Fail
  <2>4. ctl' # Idle => WellSpecified(ctl'.s, ctl'.obj)
    BY <2>1, <2>2 DEF SpecInv, Fail
  <2> QED
    BY <1>2, <1>3, <2>1, <2>2, <2>3, <2>4
<1>6. ASSUME NEW o \in unseen, CacheSees(o)
      PROVE  ShapeInv'
  <2>1. /\ UNCHANGED <<objects, history, faults, ctl>> /\ queue' = queue \cup {o[2]}
        /\ unseen' \subseteq unseen
    BY <1>6 DEF CacheSees, Forget
  <2>2. CtlInv' /\ (ctl' # Idle => WellSpecified(ctl'.s, ctl'.obj))
    BY <2>1 DEF CtlInv, SpecInv
  <2> QED
    BY <1>2, <1>3, <2>1, <2>2
<1>7. ASSUME Crash
      PROVE  ShapeInv'
  <2>1. /\ UNCHANGED <<objects, history>> /\ queue' \subseteq Storages
        /\ unseen' = {} /\ faults' = faults + 1 /\ ctl' = Idle
    BY <1>7 DEF Crash
  <2>2. CtlInv'
    BY <2>1 DEF CtlInv
  <2> QED
    BY <1>2, <1>3, <2>1, <2>2
<1> QED
  BY <1>1, <1>4, <1>5, <1>6, <1>7, ShapeRequests, ShapeCluster, ShapeReconcile DEF Next

\* Requests, the cluster, the controller and its failures keep every object well
\* formed, and a reconcile on its way keeps one storage, spec and status.
THEOREM TypeCorrect == Spec => []TypeOK
<1>1. ShapeInv => TypeOK
  BY DEF ShapeInv
<1> QED
  BY ShapeInit, ShapeStep, <1>1, PTL DEF Spec

-----------------------------------------------------------------------------
(* Which part of the state a step may touch.                               *)

\* A request, a step of the cluster and a step of a reconcile are about one
\* storage; only a reconcile moves the controller.
LEMMA OthersStay ==
  ASSUME ShapeInv, NEW s \in Storages, Requests(s) \/ Cluster(s) \/ Reconcile(s)
  PROVE  /\ \A t \in Storages \ {s} :
              /\ spec'[t] = spec[t] /\ status'[t] = status[t] /\ uids'[t] = uids[t]
              /\ claim'[t] = claim[t] /\ jobs'[t] = jobs[t] /\ accessor'[t] = accessor[t]
              /\ history'[t] = history[t]
         /\ Requests(s) => UNCHANGED <<claim, jobs, accessor, unseen, ctl>>
         /\ Cluster(s) => UNCHANGED <<spec, status, uids, ctl, history>>
         /\ Reconcile(s) => UNCHANGED <<spec, uids>> /\ ctl.s = s /\ ctl # Idle
<1>1. /\ spec \in [Storages -> Objects] /\ status \in [Storages -> Statuses]
      /\ DOMAIN uids = Storages /\ DOMAIN claim = Storages /\ DOMAIN accessor = Storages
      /\ DOMAIN jobs = Storages /\ DOMAIN history = Storages
  BY DEF ShapeInv, TypeOK, JobInv, Objects, Statuses
<1>2. Requests(s) => UNCHANGED <<claim, jobs, accessor, unseen, ctl>>
  BY DEF Requests, CreateGPUStorage, UpdateGPUStorage, RecoverGPUStorage, DeleteGPUStorage
<1>3. Cluster(s) => UNCHANGED <<spec, status, uids, ctl, history>>
  BY DEF Cluster, ClaimBinds, CollectClaim, JobStarts, JobSucceeds, JobFails, JobExpires,
     CollectJob, AccessorStarts, AccessorGoesDown, CollectAccessor
<1>4. Reconcile(s) => UNCHANGED <<spec, uids>> /\ ctl.s = s /\ ctl # Idle
  <2>1. Reconcile(s) => ctl.s = s /\ ctl.pc # "idle" /\ UNCHANGED <<spec, uids>>
    BY DEF Reconcile, reconcileGPUStoragePVC, prepareWaits, reconcileGPUStoragePrepareJobState,
       ensureGPUStorageAccessorAbsent, reconcileGPUStorageAccessor, updateAccessorDeployment,
       FinishReconcile, markStorageFailed, updateGPUStorageStatus, objects
  <2> QED
    BY <2>1 DEF Idle
<1>5. SUFFICES ASSUME NEW t \in Storages \ {s}
               PROVE  /\ spec'[t] = spec[t] /\ status'[t] = status[t] /\ uids'[t] = uids[t]
                      /\ claim'[t] = claim[t] /\ jobs'[t] = jobs[t] /\ accessor'[t] = accessor[t]
                      /\ history'[t] = history[t]
  BY <1>2, <1>3, <1>4
<1>6. CASE Requests(s)
  <2>1. spec'[t] = spec[t] /\ status'[t] = status[t] /\ uids'[t] = uids[t] /\ history'[t] = history[t]
    BY <1>1, <1>6 DEF Requests, CreateGPUStorage, UpdateGPUStorage, RecoverGPUStorage,
       DeleteGPUStorage
  <2> QED
    BY <1>2, <1>6, <2>1
<1>7. CASE Cluster(s)
  <2>1. claim'[t] = claim[t] /\ jobs'[t] = jobs[t] /\ accessor'[t] = accessor[t]
    BY <1>1, <1>7 DEF Cluster, ClaimBinds, CollectClaim, JobStarts, JobSucceeds, JobFails, JobExpires,
       CollectJob, AccessorStarts, AccessorGoesDown, CollectAccessor
  <2> QED
    BY <1>3, <1>7, <2>1
<1>8. CASE Reconcile(s)
  <2>1. /\ status'[t] = status[t] /\ history'[t] = history[t]
        /\ claim'[t] = claim[t] /\ jobs'[t] = jobs[t] /\ accessor'[t] = accessor[t]
    <3>1. CASE reconcileGPUStoragePVC(s)
      BY <1>1, <3>1 DEF reconcileGPUStoragePVC
    <3>2. CASE prepareWaits(s)
      BY <3>2 DEF prepareWaits, objects
    <3>3. CASE reconcileGPUStoragePrepareJobState(s)
      BY <1>1, <3>3 DEF reconcileGPUStoragePrepareJobState
    <3>4. CASE \/ ensureGPUStorageAccessorAbsent(s) \/ reconcileGPUStorageAccessor(s)
               \/ updateAccessorDeployment(s)
      BY <1>1, <3>4 DEF ensureGPUStorageAccessorAbsent, reconcileGPUStorageAccessor,
         updateAccessorDeployment, objects
    <3>5. CASE FinishReconcile(s) \/ markStorageFailed(s)
      BY <1>1, <3>5 DEF FinishReconcile, markStorageFailed, updateGPUStorageStatus, Record
    <3> QED
      BY <1>8, <3>1, <3>2, <3>3, <3>4, <3>5 DEF Reconcile
  <2> QED
    BY <1>4, <1>8, <2>1
<1> QED
  BY <1>6, <1>7, <1>8

\* The other steps leave the objects alone: a reconcile starts, stops with an error
\* or is lost, or the cache learns of an object.
Aside ==
  /\ UNCHANGED <<objects, history>>
  /\ \/ ctl' = Idle
     \/ ctl' = ctl
     \/ ctl # Idle /\ \E reason : Fail(reason)
     \/ \E s \in Storages : /\ Exists(s)
                            /\ ctl' = [pc |-> "claim", s |-> s, obj |-> spec[s], st |-> status[s]]

LEMMA StepCases ==
  ASSUME ShapeInv, [Next]_vars
  PROVE  \/ \E s \in Storages : Requests(s) \/ Cluster(s) \/ Reconcile(s)
         \/ Aside
<1>1. CASE UNCHANGED vars
  BY <1>1 DEF vars, Aside, objects
<1>2. ASSUME NEW s \in Storages, StartReconcile(s)
      PROVE  Aside
  BY <1>2 DEF StartReconcile, Aside
<1>3. ASSUME NEW s \in Storages, APIError(s)
      PROVE  Aside
  <2>1. ctl # Idle
    BY <1>3 DEF APIError, Idle
  <2> QED
    BY <1>3, <2>1 DEF APIError, Aside
<1>4. ASSUME NEW o \in unseen, CacheSees(o)
      PROVE  Aside
  BY <1>4 DEF CacheSees, Aside
<1>5. ASSUME Crash
      PROVE  Aside
  BY <1>5 DEF Crash, Aside
<1> QED
  BY <1>1, <1>2, <1>3, <1>4, <1>5 DEF Next

\* An update or a recovery request moves the version and keeps identity and source.
LEMMA EditKeeps ==
  ASSUME ShapeInv, NEW s \in Storages,
         \/ \E a \in BOOLEAN, size \in {spec[s].size, spec[s].size + 1} : UpdateGPUStorage(s, a, size)
         \/ RecoverGPUStorage(s)
  PROVE  /\ spec'[s].uid = spec[s].uid /\ spec'[s].prepare = spec[s].prepare
         /\ spec'[s].rv = spec[s].rv + 1 /\ spec[s].rv \in Nat
         /\ spec'[s].nonce = spec[s].nonce \/ spec'[s].nonce = spec[s].rv + 1
         /\ UNCHANGED <<uids, status, history>>
<1>1. DOMAIN spec = Storages /\ spec[s] \in Objects
  BY DEF ShapeInv, TypeOK, Objects
<1>2. spec[s].rv \in Nat
  BY <1>1 DEF Objects
<1>3. CASE RecoverGPUStorage(s)
  BY <1>1, <1>2, <1>3 DEF RecoverGPUStorage, Objects
<1>4. ASSUME NEW a \in BOOLEAN, NEW size, UpdateGPUStorage(s, a, size)
      PROVE  /\ spec'[s].uid = spec[s].uid /\ spec'[s].prepare = spec[s].prepare
             /\ spec'[s].rv = spec[s].rv + 1 /\ spec'[s].nonce = spec[s].nonce
             /\ UNCHANGED <<uids, status, history>>
  BY <1>1, <1>2, <1>4 DEF UpdateGPUStorage, Objects
<1> QED
  BY <1>2, <1>3, <1>4

-----------------------------------------------------------------------------
(* What holds of names that are used once.                                 *)

LEMMA OnceInit == Init => OnceInv
<1> SUFFICES ASSUME Init PROVE OnceInv
  OBVIOUS
<1>1. ASSUME NEW s \in Storages PROVE NameInv(s)
  BY DEF Init, NameInv, Exists, Absent, NoClaim, NoAccessor, NoJob
<1> QED
  BY <1>1 DEF OnceInv, Init

LEMMA NameFrame ==
  ASSUME NEW t \in Storages, NameInv(t), spec'[t].uid = spec[t].uid, uids'[t] = uids[t],
         claim'[t] = claim[t], accessor'[t] = accessor[t], jobs'[t] = jobs[t]
  PROVE  NameInv(t)'
BY DEF NameInv, Exists

LEMMA OnceRequests ==
  ASSUME NamesUsedOnce, ShapeInv, OnceInv, NEW s \in Storages, Requests(s)
  PROVE  OnceInv'
<1>0. spec \in [Storages -> Objects] /\ uids \in [Storages -> Nat] /\ NameInv(s)
      /\ DOMAIN status = Storages
  BY DEF ShapeInv, TypeOK, Objects, OnceInv
<1>1. /\ UNCHANGED <<claim, jobs, accessor, ctl>>
      /\ \A t \in Storages \ {s} : spec'[t] = spec[t] /\ status'[t] = status[t] /\ uids'[t] = uids[t]
  BY OthersStay
<1>2. \A t \in Storages \ {s} : NameInv(t)'
  BY <1>1, NameFrame DEF OnceInv
<1>3. ASSUME ctl # Idle, ctl.s # s PROVE ReadInv'
  <2>1. ctl.s \in Storages \ {s} /\ ReadInv
    BY <1>3, CtlAt DEF ShapeInv, OnceInv
  <2> QED
    BY <1>1, <2>1 DEF ReadInv, Exists
<1>4. ASSUME ctl # Idle, ctl.s = s PROVE ReadInv /\ ctl.obj \in Objects
  BY <1>4, CtlAt DEF ShapeInv, OnceInv
<1>5. ASSUME NEW p \in PreparesOf[s], NEW a \in BOOLEAN, CreateGPUStorage(s, p, a)
      PROVE  OnceInv'
  <2>1. uids[s] = 0 /\ uids'[s] = 1 /\ spec'[s].uid = 1
    BY <1>0, <1>5 DEF CreateGPUStorage, NamesUsedOnce
  <2>2. NameInv(s)'
    BY <1>0, <1>1, <2>1 DEF NameInv, Exists
  <2>3. ctl # Idle => ctl.s # s
    BY <1>4, <2>1 DEF ReadInv
  <2> QED
    BY <1>1, <1>2, <1>3, <2>2, <2>3 DEF OnceInv
<1>6. CASE \/ \E a \in BOOLEAN, size \in {spec[s].size, spec[s].size + 1} : UpdateGPUStorage(s, a, size)
           \/ RecoverGPUStorage(s)
  <2>1. /\ spec'[s].uid = spec[s].uid /\ spec'[s].prepare = spec[s].prepare
        /\ spec'[s].rv = spec[s].rv + 1 /\ UNCHANGED <<uids, status>>
    BY <1>6, EditKeeps
  <2>2. NameInv(s)'
    BY <1>0, <1>1, <2>1, NameFrame
  <2>3. ASSUME ctl # Idle, ctl.s = s PROVE ReadInv'
    <3>1. spec[s].rv \in Nat /\ ctl.obj.rv \in Nat /\ ctl.obj.rv <= spec[s].rv
      BY <1>0, <1>4, <2>3 DEF Objects, ReadInv
    <3>2. ctl.obj.rv <= spec'[s].rv /\ ctl.obj.rv # spec'[s].rv
      BY <2>1, <3>1
    <3> QED
      BY <1>1, <1>4, <2>1, <2>3, <3>2 DEF ReadInv, Exists
  <2> QED
    BY <1>1, <1>2, <1>3, <2>2, <2>3 DEF OnceInv
<1>7. CASE DeleteGPUStorage(s)
  <2>1. spec'[s].uid = 0 /\ spec'[s].rv = spec[s].rv /\ UNCHANGED <<uids, status>> /\ Exists(s)
    BY <1>0, <1>7 DEF DeleteGPUStorage, Absent
  <2>2. NameInv(s)'
    BY <1>0, <1>1, <2>1 DEF NameInv, Exists
  <2>3. ASSUME ctl # Idle, ctl.s = s PROVE ReadInv'
    BY <1>1, <1>4, <2>1, <2>3 DEF ReadInv, Exists
  <2> QED
    BY <1>1, <1>2, <1>3, <2>2, <2>3 DEF OnceInv
<1> QED
  BY <1>5, <1>6, <1>7 DEF Requests

LEMMA OnceCluster ==
  ASSUME ShapeInv, OnceInv, NEW s \in Storages, Cluster(s)
  PROVE  OnceInv'
<1>0. /\ DOMAIN claim = Storages /\ DOMAIN accessor = Storages /\ NameInv(s)
      /\ claim[s] \in [owner : Nat, bound : BOOLEAN, size : Nat, prepared : BOOLEAN]
      /\ accessor[s] \in [owner : Nat, available : BOOLEAN]
  BY DEF ShapeInv, TypeOK, OnceInv
<1>1. /\ UNCHANGED <<spec, status, uids, ctl>>
      /\ \A t \in Storages \ {s} : claim'[t] = claim[t] /\ jobs'[t] = jobs[t] /\ accessor'[t] = accessor[t]
  BY OthersStay
<1>2. \A t \in Storages \ {s} : NameInv(t)'
  BY <1>1, NameFrame DEF OnceInv
<1>3. ASSUME NameInv(s)', Exists(s) => claim'[s].owner = claim[s].owner PROVE OnceInv'
  <2>1. ASSUME ctl # Idle PROVE ReadInv'
    <3>1. ctl.s \in Storages /\ ReadInv
      BY <2>1, CtlAt DEF ShapeInv, OnceInv
    <3>2. Exists(ctl.s) => claim'[ctl.s].owner = claim[ctl.s].owner
      BY <1>1, <1>3, <3>1
    <3> QED
      BY <1>1, <3>1, <3>2 DEF ReadInv, Exists
  <2> QED
    BY <1>1, <1>2, <1>3, <2>1 DEF OnceInv
<1>4. CASE ClaimBinds(s)
  <2>1. /\ claim'[s].owner = claim[s].owner /\ claim'[s].bound /\ UNCHANGED <<jobs, accessor>>
        /\ claim[s].owner # 0
    BY <1>0, <1>4 DEF ClaimBinds
  <2> QED
    BY <1>0, <1>1, <1>3, <2>1 DEF NameInv, Exists
<1>5. CASE CollectClaim(s)
  <2>1. /\ claim'[s] = NoClaim /\ UNCHANGED <<jobs, accessor>> /\ claim[s].owner \notin {0, spec[s].uid}
        /\ \A d \in DigestsOf(s) : jobs[s][d].state # "active"
    <3>1. DOMAIN jobs[s] = DigestsOf(s)
      BY DEF ShapeInv, JobInv
    <3> QED
      BY <1>0, <1>5, <3>1 DEF CollectClaim
  <2>2. ~Exists(s)
    BY <1>0, <2>1 DEF NameInv
  <2> QED
    BY <1>0, <1>1, <1>3, <2>1, <2>2 DEF NameInv, Exists, NoClaim
<1>6. CASE AccessorStarts(s) \/ AccessorGoesDown(s) \/ CollectAccessor(s)
  <2>1. accessor'[s].owner \in {accessor[s].owner, 0} /\ UNCHANGED <<jobs, claim>>
    BY <1>0, <1>6 DEF AccessorStarts, AccessorGoesDown, CollectAccessor, NoAccessor
  <2> QED
    BY <1>0, <1>1, <1>3, <2>1 DEF NameInv, Exists
<1>7. ASSUME NEW d \in DigestsOf(s),
             \/ JobStarts(s, d) \/ JobSucceeds(s, d) \/ JobFails(s, d)
             \/ JobExpires(s, d) \/ CollectJob(s, d)
      PROVE  OnceInv'
  <2>0. jobs[s][d] \in [owner : Nat, state : JobStates] /\ DOMAIN jobs = Storages
        /\ DOMAIN jobs[s] = DigestsOf(s)
    BY DEF ShapeInv, JobInv
  <2>1. /\ \A e \in DigestsOf(s) \ {d} : jobs'[s][e] = jobs[s][e]
        /\ jobs[s][d].state # "absent" \/ jobs'[s][d].state = "absent"
        /\ jobs'[s][d].state = "active" => claim[s].bound
    BY <1>7, <2>0 DEF JobStarts, JobSucceeds, JobFails, JobExpires, CollectJob, NoJob
  <2>2. /\ claim'[s].owner = claim[s].owner /\ claim'[s].bound = claim[s].bound
        /\ claim'[s] # claim[s] => claim[s].bound
    BY <1>0, <1>7 DEF JobStarts, JobSucceeds, JobFails, JobExpires, CollectJob, NameInv
  <2>3. accessor' = accessor
    BY <1>7 DEF JobStarts, JobSucceeds, JobFails, JobExpires, CollectJob
  <2>4. claim[s].owner = 0 => claim'[s] = NoClaim
    <3>1. ~NoClaim.bound
      BY DEF NoClaim
    <3>2. claim[s].owner = 0 => claim[s] = NoClaim
      BY <1>0 DEF NameInv
    <3> QED
      BY <2>2, <3>1, <3>2
  <2>5. NameInv(s)'
    BY <1>0, <1>1, <2>1, <2>2, <2>3, <2>4 DEF NameInv, Exists
  <2> QED
    BY <1>3, <2>2, <2>5
<1> QED
  BY <1>4, <1>5, <1>6, <1>7 DEF Cluster

LEMMA OnceReconcile ==
  ASSUME ShapeInv, OnceInv, NEW s \in Storages, Reconcile(s)
  PROVE  OnceInv'
<1>0. /\ DOMAIN claim = Storages /\ DOMAIN accessor = Storages /\ NameInv(s)
      /\ claim[s] \in [owner : Nat, bound : BOOLEAN, size : Nat, prepared : BOOLEAN]
  BY DEF ShapeInv, TypeOK, OnceInv
<1>1. /\ UNCHANGED <<spec, uids>> /\ ctl.s = s /\ ctl # Idle
      /\ \A t \in Storages \ {s} :
           claim'[t] = claim[t] /\ jobs'[t] = jobs[t] /\ accessor'[t] = accessor[t]
  BY OthersStay
<1>2. \A t \in Storages \ {s} : NameInv(t)'
  BY <1>1, NameFrame DEF OnceInv
<1>3. ReadInv /\ ctl.obj.uid # 0 /\ uids[s] # 0
  BY <1>1 DEF OnceInv, ShapeInv, SpecInv, WellSpecified, ReadInv
\* A reconcile that goes on keeps what it has read.
<1>4. ASSUME ctl'.s = s, ctl'.obj = ctl.obj, ctl'.st = ctl.st, status' = status,
             ctl'.pc \in {"prepare", "accessor", "update", "status"} => claim'[s].owner # 0
      PROVE  ReadInv'
  BY <1>1, <1>3, <1>4 DEF ReadInv, Exists
<1>5. ASSUME NEW reason, Fail(reason)
      PROVE  ctl'.s = s /\ ctl'.obj = ctl.obj /\ ctl'.st = ctl.st /\ ctl'.pc = "failed"
  BY <1>1, <1>5 DEF Fail
<1>6. CASE reconcileGPUStoragePVC(s)
  <2>1. UNCHANGED <<status, jobs, accessor>>
    BY <1>6 DEF reconcileGPUStoragePVC
  <2>2. ctl'.s = s /\ ctl'.obj = ctl.obj /\ ctl'.st = ctl.st
    BY <1>5, <1>6 DEF reconcileGPUStoragePVC
  <2>3. CASE claim[s].owner # 0 /\ claim' = claim
    <3>1. NameInv(s)'
      BY <1>0, <1>1, <2>1, <2>3, NameFrame
    <3> QED
      BY <1>2, <1>4, <2>1, <2>2, <2>3, <3>1 DEF OnceInv
  <2>4. CASE claim[s].owner # 0 /\ claim' = [claim EXCEPT ![s].size = ctl.obj.size]
    <3>1. claim'[s].owner = claim[s].owner /\ claim'[s].bound = claim[s].bound
      BY <1>0, <2>4
    <3>2. NameInv(s)'
      BY <1>0, <1>1, <2>1, <2>4, <3>1 DEF NameInv, Exists
    <3> QED
      BY <1>2, <1>4, <2>1, <2>2, <2>4, <3>1, <3>2 DEF OnceInv
  <2>5. CASE /\ claim[s].owner = 0
             /\ claim' = [claim EXCEPT ![s] = [owner |-> ctl.obj.uid, bound |-> FALSE,
                   size |-> ctl.obj.size, prepared |-> ctl.obj.prepare = "none"]]
    <3>1. claim'[s].owner = ctl.obj.uid
      BY <1>0, <2>5
    <3>2. \A d \in DigestsOf(s) : jobs[s][d].state # "active"
      <4>1. ~NoClaim.bound
        BY DEF NoClaim
      <4>2. ~claim[s].bound
        BY <1>0, <2>5, <4>1 DEF NameInv
      <4> QED
        BY <1>0, <4>2 DEF NameInv
    <3>3. Exists(s) => ctl.obj.uid = spec[s].uid
      BY <1>1, <1>3 DEF ReadInv
    <3>4. NameInv(s)'
      BY <1>0, <1>1, <1>3, <2>1, <3>1, <3>2, <3>3 DEF NameInv, Exists
    <3> QED
      BY <1>2, <1>3, <1>4, <2>1, <2>2, <3>1, <3>4 DEF OnceInv
  <2> QED
    BY <1>6, <2>3, <2>4, <2>5 DEF reconcileGPUStoragePVC
<1>7. CASE prepareWaits(s)
  <2>1. UNCHANGED objects /\ ctl.pc = "prepare"
    BY <1>7 DEF prepareWaits
  <2>2. ctl'.s = s /\ ctl'.obj = ctl.obj /\ ctl'.st = ctl.st /\ ctl'.pc = "accessor"
    <3>1. PICK p : prepareDone(p)
      BY <1>7 DEF prepareWaits
    <3> QED
      BY <1>1, <3>1 DEF prepareDone
  <2>3. NameInv(s)'
    BY <1>0, <2>1, NameFrame DEF objects
  <2>4. Exists(s) => claim[s].owner # 0
    BY <1>1, <1>3, <2>1 DEF ReadInv
  <2>5. ReadInv'
    BY <1>1, <1>3, <2>1, <2>2, <2>4 DEF ReadInv, Exists, objects
  <2> QED
    BY <1>2, <2>3, <2>5 DEF OnceInv
<1>8. CASE reconcileGPUStoragePrepareJobState(s)
  <2>1. UNCHANGED <<status, claim, accessor>> /\ ctl.pc = "prepare"
    BY <1>8 DEF reconcileGPUStoragePrepareJobState
  <2>2. ctl'.s = s /\ ctl'.obj = ctl.obj /\ ctl'.st = ctl.st
    <3>1. Fail("prepare") \/ \E p : prepareDone(p)
      BY <1>8 DEF reconcileGPUStoragePrepareJobState
    <3> QED
      BY <1>1, <1>5, <3>1 DEF prepareDone
  <2>3. \A d \in DigestsOf(s) : jobs'[s][d] = jobs[s][d] \/ jobs'[s][d].state = "pending"
    <3>1. DOMAIN jobs = Storages /\ DOMAIN jobs[s] = DigestsOf(s)
      BY DEF ShapeInv, JobInv
    <3>2. \/ jobs' = jobs
          \/ jobs' = [jobs EXCEPT ![s][storagePrepareDigest(ctl.obj)] =
                        [owner |-> ctl.obj.uid, state |-> "pending"]]
      BY <1>8 DEF reconcileGPUStoragePrepareJobState
    <3> QED
      BY <3>1, <3>2
  <2>4. NameInv(s)'
    BY <1>0, <1>1, <1>3, <2>1, <2>3 DEF NameInv, Exists
  <2>5. Exists(s) => claim[s].owner # 0
    BY <1>1, <1>3, <2>1 DEF ReadInv
  <2>6. ReadInv'
    BY <1>1, <1>3, <2>1, <2>2, <2>5 DEF ReadInv, Exists
  <2> QED
    BY <1>2, <2>4, <2>6 DEF OnceInv
<1>9. CASE \/ ensureGPUStorageAccessorAbsent(s) \/ reconcileGPUStorageAccessor(s)
           \/ updateAccessorDeployment(s)
  <2>1. UNCHANGED <<status, claim, jobs>> /\ ctl.pc \in {"accessor", "update"}
    BY <1>9 DEF ensureGPUStorageAccessorAbsent, reconcileGPUStorageAccessor,
       updateAccessorDeployment, objects
  <2>2. ctl'.s = s /\ ctl'.obj = ctl.obj /\ ctl'.st = ctl.st
    BY <1>1, <1>5, <1>9 DEF ensureGPUStorageAccessorAbsent, reconcileGPUStorageAccessor,
       updateAccessorDeployment, accessorDone
  <2>3. accessor'[s].owner \in {accessor[s].owner, 0, ctl.obj.uid}
    <3>1. \/ accessor' = accessor \/ accessor' = [accessor EXCEPT ![s] = NoAccessor]
          \/ accessor' = [accessor EXCEPT ![s] = [owner |-> ctl.obj.uid, available |-> FALSE]]
      BY <1>9 DEF ensureGPUStorageAccessorAbsent, reconcileGPUStorageAccessor,
         updateAccessorDeployment, objects
    <3> QED
      BY <1>0, <3>1 DEF NoAccessor
  <2>4. Exists(s) => ctl.obj.uid = spec[s].uid /\ claim[s].owner # 0
    BY <1>1, <1>3, <2>1 DEF ReadInv
  <2>5. NameInv(s)'
    BY <1>0, <1>1, <1>3, <2>1, <2>3, <2>4 DEF NameInv, Exists
  <2>6. ReadInv'
    BY <1>1, <1>3, <2>1, <2>2, <2>4 DEF ReadInv, Exists
  <2> QED
    BY <1>2, <2>5, <2>6 DEF OnceInv
<1>10. CASE FinishReconcile(s) \/ markStorageFailed(s)
  <2>1. UNCHANGED <<claim, jobs, accessor>> /\ ctl' = Idle
    BY <1>10 DEF FinishReconcile, markStorageFailed, updateGPUStorageStatus
  <2> QED
    BY <1>0, <1>1, <1>2, <2>1, NameFrame DEF OnceInv
<1> QED
  BY <1>6, <1>7, <1>8, <1>9, <1>10 DEF Reconcile

LEMMA OnceAside ==
  ASSUME ShapeInv, OnceInv, Aside
  PROVE  OnceInv'
<1>1. \A t \in Storages : NameInv(t)'
  BY NameFrame DEF OnceInv, Aside, objects
<1>2. CASE ctl' = Idle
  BY <1>1, <1>2 DEF OnceInv
<1>3. CASE ctl' = ctl
  BY <1>1, <1>3 DEF OnceInv, ReadInv, Exists, Aside, objects
<1>4. ASSUME NEW reason, ctl # Idle, Fail(reason)
      PROVE  OnceInv'
  <2>1. ReadInv /\ ctl'.s = ctl.s /\ ctl'.obj = ctl.obj /\ ctl'.st = ctl.st /\ ctl'.pc = "failed"
    BY <1>4 DEF OnceInv, Fail
  <2>2. ReadInv'
    BY <2>1 DEF ReadInv, Exists, Aside, objects
  <2> QED
    BY <1>1, <2>2 DEF OnceInv
<1>5. ASSUME NEW s \in Storages, Exists(s),
             ctl' = [pc |-> "claim", s |-> s, obj |-> spec[s], st |-> status[s]]
      PROVE  OnceInv'
  <2>1. uids[s] # 0 /\ spec[s].rv \in Nat
    BY <1>5 DEF OnceInv, NameInv, ShapeInv, TypeOK
  <2>2. ReadInv'
    BY <1>5, <2>1 DEF ReadInv, Exists, Aside, objects
  <2> QED
    BY <1>1, <2>2 DEF OnceInv
<1> QED
  BY <1>2, <1>3, <1>4, <1>5 DEF Aside

LEMMA OnceStep ==
  ASSUME NamesUsedOnce
  PROVE  ShapeInv /\ OnceInv /\ [Next]_vars => OnceInv'
BY StepCases, OnceRequests, OnceCluster, OnceReconcile, OnceAside

-----------------------------------------------------------------------------
(* Claims are filled before they are used.                                 *)

LEMMA FilledInit == Init => FilledInv
<1> SUFFICES ASSUME Init PROVE FilledInv
  OBVIOUS
<1>1. ASSUME NEW s \in Storages PROVE FilledStorage(s) /\ FilledSources(s)
  BY DEF Init, FilledStorage, FilledSources, Exists, Absent, NoJob
<1> QED
  BY <1>1 DEF FilledInv, Init, Idle

LEMMA FilledFrame ==
  ASSUME NEW t \in Storages, FilledStorage(t), spec'[t].uid = spec[t].uid,
         spec'[t].prepare = spec[t].prepare, status'[t] = status[t],
         claim'[t] = claim[t], accessor'[t] = accessor[t], jobs'[t] = jobs[t],
         \A x \in Storages : Gone(x) => Gone(x)'
  PROVE  FilledStorage(t)'
BY DEF FilledStorage, Exists

LEMMA SourcesFrame ==
  ASSUME NEW t \in Storages, FilledSources(t),
         \A d \in DigestsOf(t) : jobs'[t][d].state # "absent" => jobs[t][d].state # "absent",
         \A x \in Storages : /\ Gone(x) => Gone(x)'
                             /\ Exists(x) /\ claim[x].prepared
                                  => Gone(x)' \/ (Exists(x)' /\ claim'[x].prepared)
  PROVE  FilledSources(t)'
BY DEF FilledSources

LEMMA FilledRequests ==
  ASSUME NamesUsedOnce, ShapeInv, OnceInv, FilledInv, NEW s \in Storages, Requests(s)
  PROVE  FilledInv'
<1>0. spec \in [Storages -> Objects] /\ uids \in [Storages -> Nat] /\ NameInv(s)
      /\ DOMAIN status = Storages
  BY DEF ShapeInv, TypeOK, Objects, OnceInv
<1>1. /\ UNCHANGED <<claim, jobs, accessor, ctl>>
      /\ \A t \in Storages \ {s} : spec'[t] = spec[t] /\ status'[t] = status[t] /\ uids'[t] = uids[t]
  BY OthersStay
\* A name that was used stays used.
<1>2. \A x \in Storages : /\ Gone(x) => Gone(x)'
                          /\ Exists(x) => Gone(x)' \/ Exists(x)'
  <2>1. uids'[s] = uids[s] \/ (uids[s] = 0 /\ ~Exists(s))
    <3>1. CASE \E p \in PreparesOf[s], a \in BOOLEAN : CreateGPUStorage(s, p, a)
      BY <1>0, <3>1 DEF CreateGPUStorage, NamesUsedOnce
    <3>2. CASE UNCHANGED uids
      BY <3>2
    <3> QED
      BY <3>1, <3>2, EditKeeps DEF Requests, DeleteGPUStorage
  <2>2. Gone(s) => ~Exists(s)'
    <3>1. Gone(s) => \A p \in PreparesOf[s], a \in BOOLEAN : ~CreateGPUStorage(s, p, a)
      BY <1>0 DEF Gone, CreateGPUStorage, NamesUsedOnce
    <3>2. Gone(s) => FALSE
      BY <3>1 DEF Gone, Requests, UpdateGPUStorage, RecoverGPUStorage, DeleteGPUStorage
    <3> QED
      BY <3>2
  <2>3. Exists(s) => uids[s] # 0
    BY <1>0 DEF NameInv
  <2>4. \A x \in Storages \ {s} : Gone(x)' = Gone(x) /\ Exists(x)' = Exists(x)
    BY <1>1 DEF Gone, Exists
  <2> QED
    BY <2>1, <2>2, <2>3, <2>4 DEF Gone
<1>3. /\ \A t \in Storages \ {s} : FilledStorage(t)'
      /\ \A t \in Storages : FilledSources(t)'
  BY <1>1, <1>2, FilledFrame, SourcesFrame DEF FilledInv
<1>4. ASSUME ctl.pc \in {"accessor", "update", "status"}, ctl.s # s \/ (Exists(s)' => Exists(s))
      PROVE  FilledRead'
  <2>1. ctl.s \in Storages /\ FilledRead
    BY <1>4, CtlAt DEF ShapeInv, FilledInv, Idle
  <2>2. Exists(ctl.s)' => Exists(ctl.s)
    BY <1>1, <1>4, <2>1 DEF Exists
  <2> QED
    BY <1>1, <2>1, <2>2 DEF FilledRead
<1>5. CASE \E p \in PreparesOf[s], a \in BOOLEAN : CreateGPUStorage(s, p, a)
  <2>1. uids[s] = 0 /\ spec'[s].uid = 1 /\ status'[s] = NoStatus
    BY <1>0, <1>5 DEF CreateGPUStorage, NamesUsedOnce
  <2>2. /\ claim[s].owner = 0 /\ accessor[s].owner = 0
        /\ \A d \in DigestsOf(s) : jobs[s][d].state = "absent"
    BY <1>0, <2>1 DEF NameInv
  <2>3. FilledStorage(s)'
    <3>1. NoStatus.phase # "Ready" /\ NoStatus.prepare # "Succeeded"
      BY DEF NoStatus
    <3> QED
      BY <1>1, <2>1, <2>2, <3>1 DEF FilledStorage
  <2>4. ctl # Idle => ctl.s # s
    BY <2>1 DEF OnceInv, ReadInv
  <2>5. ctl.pc \in {"accessor", "update", "status"} => FilledRead'
    BY <1>4, <2>4 DEF Idle
  <2> QED
    BY <1>1, <1>3, <2>3, <2>5 DEF FilledInv
<1>6. CASE \/ \E a \in BOOLEAN, size \in {spec[s].size, spec[s].size + 1} : UpdateGPUStorage(s, a, size)
           \/ RecoverGPUStorage(s)
  <2>1. /\ spec'[s].uid = spec[s].uid /\ spec'[s].prepare = spec[s].prepare /\ UNCHANGED status
    BY <1>6, EditKeeps
  <2>2. FilledStorage(s)'
    BY <1>1, <1>2, <2>1, FilledFrame DEF FilledInv
  <2>3. ctl.pc \in {"accessor", "update", "status"} => FilledRead'
    BY <1>4, <2>1 DEF Exists
  <2> QED
    BY <1>1, <1>3, <2>2, <2>3 DEF FilledInv
<1>7. CASE DeleteGPUStorage(s)
  <2>1. ~Exists(s)'
    BY <1>0, <1>7 DEF DeleteGPUStorage, Absent, Exists
  <2>2. ctl.pc \in {"accessor", "update", "status"} => FilledRead'
    BY <1>4, <2>1
  <2> QED
    BY <1>1, <1>3, <2>1, <2>2 DEF FilledInv, FilledStorage
<1> QED
  BY <1>5, <1>6, <1>7 DEF Requests

LEMMA FilledCluster ==
  ASSUME ShapeInv, OnceInv, FilledInv, NEW s \in Storages, Cluster(s)
  PROVE  FilledInv'
<1>0. /\ DOMAIN claim = Storages /\ DOMAIN accessor = Storages /\ NameInv(s) /\ FilledStorage(s)
      /\ claim[s] \in [owner : Nat, bound : BOOLEAN, size : Nat, prepared : BOOLEAN]
      /\ accessor[s] \in [owner : Nat, available : BOOLEAN]
      /\ DOMAIN jobs = Storages /\ DOMAIN jobs[s] = DigestsOf(s)
      /\ \A d \in DigestsOf(s) : jobs[s][d] \in [owner : Nat, state : JobStates]
  <2>1. /\ DOMAIN jobs = Storages /\ DOMAIN jobs[s] = DigestsOf(s)
        /\ \A d \in DigestsOf(s) : jobs[s][d] \in [owner : Nat, state : JobStates]
    BY DEF ShapeInv, JobInv
  <2> QED
    BY <2>1 DEF ShapeInv, TypeOK, OnceInv, FilledInv
<1>1. /\ UNCHANGED <<spec, status, uids, ctl>>
      /\ \A t \in Storages \ {s} : claim'[t] = claim[t] /\ jobs'[t] = jobs[t] /\ accessor'[t] = accessor[t]
  BY OthersStay
<1>2. /\ \A x \in Storages : Gone(x)' = Gone(x)
      /\ \A t \in Storages \ {s} : FilledStorage(t)'
  <2>1. \A x \in Storages : Gone(x)' = Gone(x)
    BY <1>1 DEF Gone, Exists
  <2> QED
    BY <1>1, <2>1, FilledFrame DEF FilledInv
\* A claim in use stays filled, and no job appears.
<1>3. ASSUME Exists(s) /\ claim[s].prepared => claim'[s].prepared, FilledStorage(s)',
             \A d \in DigestsOf(s) : jobs'[s][d].state # "absent" => jobs[s][d].state # "absent"
      PROVE  FilledInv'
  <2>1. \A x \in Storages : Exists(x) /\ claim[x].prepared => Exists(x)' /\ claim'[x].prepared
    BY <1>1, <1>3 DEF Exists
  <2>2. \A t \in Storages : FilledSources(t)'
    <3>1. ASSUME NEW t \in Storages, NEW d \in DigestsOf(t), jobs'[t][d].state # "absent"
          PROVE  jobs[t][d].state # "absent"
      BY <1>1, <1>3, <3>1
    <3> QED
      BY <1>2, <2>1, <3>1, SourcesFrame DEF FilledInv
  <2>3. ASSUME ctl.pc \in {"accessor", "update", "status"} PROVE FilledRead'
    <3>1. ctl.s \in Storages /\ FilledRead
      BY <2>3, CtlAt DEF ShapeInv, FilledInv, Idle
    <3> QED
      BY <1>1, <2>1, <3>1 DEF FilledRead, Exists
  <2> QED
    BY <1>1, <1>2, <1>3, <2>2, <2>3 DEF FilledInv
<1>4. CASE ClaimBinds(s)
  <2>1. /\ claim'[s].owner = claim[s].owner /\ claim'[s].prepared = claim[s].prepared
        /\ UNCHANGED <<jobs, accessor>>
    BY <1>0, <1>4 DEF ClaimBinds
  <2>2. FilledStorage(s)'
    BY <1>0, <1>1, <1>2, <2>1 DEF FilledStorage, Exists
  <2> QED
    BY <1>3, <2>1, <2>2
<1>5. CASE CollectClaim(s)
  <2>1. ~Exists(s) /\ ~Exists(s)' /\ UNCHANGED jobs
    BY <1>0, <1>1, <1>5 DEF CollectClaim, NameInv, Exists
  <2> QED
    BY <1>3, <2>1 DEF FilledStorage
<1>6. CASE AccessorStarts(s) \/ AccessorGoesDown(s) \/ CollectAccessor(s)
  <2>1. accessor'[s].owner \in {accessor[s].owner, 0} /\ UNCHANGED <<jobs, claim>>
    BY <1>0, <1>6 DEF AccessorStarts, AccessorGoesDown, CollectAccessor, NoAccessor
  <2>2. FilledStorage(s)'
    BY <1>0, <1>1, <1>2, <2>1 DEF FilledStorage, Exists
  <2> QED
    BY <1>3, <2>1, <2>2
<1>7. ASSUME NEW d \in DigestsOf(s), JobSucceeds(s, d)
      PROVE  FilledInv'
  <2>1. /\ jobs[s][d].state = "active" /\ jobs' = [jobs EXCEPT ![s][d].state = "succeeded"]
        /\ UNCHANGED accessor
    BY <1>7 DEF JobSucceeds
  <2>2. d.prepare \in Storages => Gone(d.prepare) \/ claim[d.prepare].prepared
    BY <2>1 DEF FilledInv, FilledSources
  <2>3. /\ claim'[s].prepared = (claim[s].prepared \/ (d.prepare \in Storages => claim[d.prepare].prepared))
        /\ claim'[s].owner = claim[s].owner
    BY <1>0, <1>7 DEF JobSucceeds
  <2>4. ~claim'[s].prepared => ~claim[s].prepared /\ d.prepare \in Storages /\ Gone(d.prepare)
    BY <2>2, <2>3
  <2>5. /\ \A e \in DigestsOf(s) \ {d} : jobs'[s][e] = jobs[s][e]
        /\ jobs'[s][d].state = "succeeded"
    BY <1>0, <2>1
  <2>6. FilledStorage(s)'
    BY <1>0, <1>1, <1>2, <2>1, <2>3, <2>4, <2>5 DEF FilledStorage, Exists
  <2>7. \A e \in DigestsOf(s) : jobs'[s][e].state # "absent" => jobs[s][e].state # "absent"
    BY <2>1, <2>5
  <2> QED
    BY <1>3, <2>4, <2>6, <2>7
<1>8. ASSUME NEW d \in DigestsOf(s),
             JobStarts(s, d) \/ JobFails(s, d) \/ JobExpires(s, d) \/ CollectJob(s, d)
      PROVE  FilledInv'
  <2>1. UNCHANGED <<claim, accessor>>
    BY <1>8 DEF JobStarts, JobFails, JobExpires, CollectJob
  <2>2. \A e \in DigestsOf(s) : jobs'[s][e].state # "absent" => jobs[s][e].state # "absent"
    BY <1>0, <1>8 DEF JobStarts, JobFails, JobExpires, CollectJob, NoJob
  <2>3. \A e \in DigestsOf(s) : jobs'[s][e].state = "succeeded" => jobs[s][e].state = "succeeded"
    BY <1>0, <1>8 DEF JobStarts, JobFails, JobExpires, CollectJob, NoJob
  <2>4. FilledStorage(s)'
    BY <1>0, <1>1, <1>2, <2>1, <2>3 DEF FilledStorage, Exists
  <2> QED
    BY <1>3, <2>1, <2>2, <2>4
<1> QED
  BY <1>4, <1>5, <1>6, <1>7, <1>8 DEF Cluster

\* The reconcile goes on to the accessor with the same storage, spec and status.
GoesOn(next) ==
  /\ ctl'.pc = next /\ ctl'.s = ctl.s /\ ctl'.obj = ctl.obj /\ ctl'.st = ctl.st
  /\ ctl'.bound = ctl.bound

\* What the step that reads or starts the prepare job may do: stop, report the job
\* it found or the success it has read, or start the job.
LEMMA JobStateCases ==
  ASSUME ShapeInv, NEW s \in Storages, reconcileGPUStoragePrepareJobState(s),
         NEW d, d = storagePrepareDigest(ctl.obj)
  PROVE  /\ ctl.pc = "prepare" /\ ctl.s = s /\ ctl.bound /\ SourceReady(ctl.obj)
         /\ d \in DigestsOf(s) /\ UNCHANGED <<spec, status, uids, claim, accessor>>
         /\ \/ Fail("prepare") /\ UNCHANGED <<jobs, history>>
            \/ /\ GoesOn("accessor") /\ UNCHANGED <<jobs, history>>
               /\ ctl'.prepare.digest = d
               /\ ctl'.prepare.ready = (ctl'.prepare.phase = "Succeeded")
               /\ \/ /\ jobs[s][d].state # "absent"
                     /\ ctl'.prepare.phase = "Succeeded" <=> jobs[s][d].state = "succeeded"
                  \/ /\ ctl.st.digest = d /\ ctl.st.prepare = "Succeeded"
                     /\ ctl'.prepare.phase = "Succeeded"
            \/ /\ GoesOn("accessor") /\ jobs[s][d].state = "absent"
               /\ ~(ctl.st.digest = d /\ ctl.st.prepare = "Succeeded")
               /\ jobs' = [jobs EXCEPT ![s][d] = [owner |-> ctl.obj.uid, state |-> "pending"]]
               /\ history' = [history EXCEPT ![s][d] = Created(s, d)]
               /\ ctl'.prepare.phase = "Pending" /\ ~ctl'.prepare.ready
<1>1. /\ ctl.pc = "prepare" /\ ctl.s = s /\ ctl.bound /\ SourceReady(ctl.obj)
      /\ UNCHANGED <<spec, status, uids, claim, accessor>>
  BY DEF reconcileGPUStoragePrepareJobState
<1>2. ctl.obj \in Objects /\ d \in DigestsOf(s) /\ d \in Digests
  <2>1. ctl \in AtPrepare /\ WellSpecified(s, ctl.obj)
    BY <1>1, CtlAt DEF ShapeInv, SpecInv, Idle
  <2>2. ctl.obj \in Objects
    BY <2>1 DEF AtPrepare
  <2> QED
    BY <2>1, <2>2, DigestKnown
<1> DEFINE P(x, c) == storagePrepareProgressFromJob(ctl.obj, d, x, c)
<1>3. \A x \in PreparePhases \ {""}, c \in BOOLEAN :
        P(x, c).phase = x /\ P(x, c).digest = d /\ P(x, c).ready = (x = "Succeeded")
  <2>1. SUFFICES ASSUME NEW x \in PreparePhases \ {""}, NEW c \in BOOLEAN
                 PROVE  P(x, c).phase = x /\ P(x, c).digest = d /\ P(x, c).ready = (x = "Succeeded")
    OBVIOUS
  <2> QED
    BY DEF storagePrepareProgressFromJob, Progress
<1>4. \A p : prepareDone(p) => GoesOn("accessor") /\ ctl'.prepare = p
  BY DEF prepareDone, GoesOn
<1>5. "Succeeded" \in PreparePhases \ {""} /\ "Pending" \in PreparePhases \ {""}
  BY DEF PreparePhases
<1> DEFINE found == jobs[s][d].state # "absent" /\ ~Lagging(JobOf(s, d))
           recorded == ctl.st.digest = d /\ ctl.st.prepare = "Succeeded"
           phase == storagePreparePhase(jobs[s][d].state)
<1>6. \/ /\ found /\ prepareDone(P(phase, FALSE)) /\ UNCHANGED <<jobs, history>>
      \/ /\ recorded /\ prepareDone(P("Succeeded", FALSE)) /\ UNCHANGED <<jobs, history>>
      \/ /\ ~recorded /\ jobs[s][d].state = "absent"
         /\ jobs' = [jobs EXCEPT ![s][d] = [owner |-> ctl.obj.uid, state |-> "pending"]]
         /\ history' = [history EXCEPT ![s][d] = Created(s, d)]
         /\ prepareDone(P("Pending", TRUE))
      \/ Fail("prepare") /\ UNCHANGED <<jobs, history>>
  BY DEF reconcileGPUStoragePrepareJobState
<1>7. phase \in PreparePhases \ {""} /\ (phase = "Succeeded" <=> jobs[s][d].state = "succeeded")
  BY PhaseTypes
<1>8. CASE found /\ prepareDone(P(phase, FALSE)) /\ UNCHANGED <<jobs, history>>
  <2>1. GoesOn("accessor") /\ ctl'.prepare = P(phase, FALSE)
    BY <1>4, <1>8
  <2>2. P(phase, FALSE).phase = phase /\ P(phase, FALSE).digest = d
        /\ P(phase, FALSE).ready = (phase = "Succeeded")
    BY <1>3, <1>7
  <2> HIDE DEF P, phase
  <2> QED
    BY <1>1, <1>2, <1>7, <1>8, <2>1, <2>2
<1>9. CASE recorded /\ prepareDone(P("Succeeded", FALSE)) /\ UNCHANGED <<jobs, history>>
  <2>1. GoesOn("accessor") /\ ctl'.prepare = P("Succeeded", FALSE)
    BY <1>4, <1>9
  <2>2. P("Succeeded", FALSE).phase = "Succeeded" /\ P("Succeeded", FALSE).digest = d
        /\ P("Succeeded", FALSE).ready = TRUE
    BY <1>3, <1>5
  <2> HIDE DEF P
  <2> QED
    BY <1>1, <1>2, <1>9, <2>1, <2>2
<1>10. CASE /\ ~recorded /\ jobs[s][d].state = "absent"
            /\ jobs' = [jobs EXCEPT ![s][d] = [owner |-> ctl.obj.uid, state |-> "pending"]]
            /\ history' = [history EXCEPT ![s][d] = Created(s, d)]
            /\ prepareDone(P("Pending", TRUE))
  <2>1. GoesOn("accessor") /\ ctl'.prepare = P("Pending", TRUE)
    BY <1>4, <1>10
  <2>2. P("Pending", TRUE).phase = "Pending" /\ ~P("Pending", TRUE).ready
    BY <1>3, <1>5
  <2> HIDE DEF P
  <2> QED
    BY <1>1, <1>2, <1>10, <2>1, <2>2
<1>11. CASE Fail("prepare") /\ UNCHANGED <<jobs, history>>
  BY <1>1, <1>2, <1>11
<1> QED
  BY <1>6, <1>8, <1>9, <1>10, <1>11

LEMMA FilledReconcile ==
  ASSUME ShapeInv, OnceInv, FilledInv, NEW s \in Storages, Reconcile(s)
  PROVE  FilledInv'
<1>0. /\ DOMAIN claim = Storages /\ DOMAIN accessor = Storages /\ DOMAIN status = Storages
      /\ NameInv(s) /\ FilledStorage(s)
      /\ claim[s] \in [owner : Nat, bound : BOOLEAN, size : Nat, prepared : BOOLEAN]
  BY DEF ShapeInv, TypeOK, OnceInv, FilledInv
<1>1. /\ UNCHANGED <<spec, uids>> /\ ctl.s = s /\ ctl # Idle
      /\ \A t \in Storages \ {s} : /\ claim'[t] = claim[t] /\ jobs'[t] = jobs[t]
                                   /\ accessor'[t] = accessor[t] /\ status'[t] = status[t]
  BY OthersStay
<1>2. /\ \A x \in Storages : Gone(x)' = Gone(x)
      /\ \A t \in Storages \ {s} : FilledStorage(t)'
  <2>1. \A x \in Storages : Gone(x)' = Gone(x)
    BY <1>1 DEF Gone, Exists
  <2> QED
    BY <1>1, <2>1, FilledFrame DEF FilledInv
<1>3. ReadInv /\ ctl.obj.uid # 0
  BY <1>1 DEF OnceInv, ShapeInv, SpecInv, WellSpecified
<1>4. ASSUME UNCHANGED jobs, Exists(s) /\ claim[s].prepared => claim'[s].prepared
      PROVE  \A t \in Storages : FilledSources(t)'
  <2>1. \A x \in Storages : Exists(x) /\ claim[x].prepared => Exists(x)' /\ claim'[x].prepared
    BY <1>1, <1>4 DEF Exists
  <2> QED
    BY <1>2, <1>4, <2>1, SourcesFrame DEF FilledInv
<1>5. CASE reconcileGPUStoragePVC(s)
  <2>1. UNCHANGED <<status, jobs, accessor>> /\ ctl'.pc \notin {"accessor", "update", "status"}
    BY <1>5 DEF reconcileGPUStoragePVC, Fail
  <2>2. CASE claim' = claim \/ claim' = [claim EXCEPT ![s].size = ctl.obj.size]
    <3>1. claim'[s].owner = claim[s].owner /\ claim'[s].prepared = claim[s].prepared
      BY <1>0, <2>2
    <3>2. FilledStorage(s)'
      BY <1>0, <1>1, <1>2, <2>1, <3>1 DEF FilledStorage, Exists
    <3> QED
      BY <1>2, <1>4, <2>1, <3>1, <3>2 DEF FilledInv
  <2>3. CASE /\ claim[s].owner = 0
             /\ claim' = [claim EXCEPT ![s] = [owner |-> ctl.obj.uid, bound |-> FALSE,
                   size |-> ctl.obj.size, prepared |-> ctl.obj.prepare = "none"]]
    <3>1. claim'[s].prepared = (ctl.obj.prepare = "none")
      BY <1>0, <2>3
    <3>2. ~claim[s].prepared
      <4>1. ~NoClaim.prepared
        BY DEF NoClaim
      <4> QED
        BY <1>0, <2>3, <4>1 DEF NameInv
    <3>3. Exists(s) => ctl.obj.prepare = spec[s].prepare
      BY <1>1, <1>3 DEF ReadInv
    <3>4. FilledStorage(s)'
      BY <1>0, <1>1, <1>2, <2>1, <3>1, <3>2, <3>3 DEF FilledStorage, Exists
    <3> QED
      BY <1>2, <1>4, <2>1, <3>2, <3>4 DEF FilledInv
  <2> QED
    BY <1>5, <2>2, <2>3 DEF reconcileGPUStoragePVC
<1>6. CASE prepareWaits(s)
  <2>1. UNCHANGED <<status, claim, jobs, accessor>> /\ ctl.pc = "prepare"
    BY <1>6 DEF prepareWaits, objects
  <2>2. FilledStorage(s)'
    BY <1>0, <1>1, <1>2, <2>1, FilledFrame
  <2>3. /\ ctl'.s = s /\ ctl'.prepare.phase # "Succeeded"
        /\ ctl'.prepare.ready => ctl.obj.prepare = "none"
    BY <1>1, <1>6 DEF prepareWaits, prepareDone, Progress
  <2>4. Exists(s) /\ ctl.obj.prepare = "none" => claim[s].prepared
    BY <1>0, <1>1, <1>3, <2>1 DEF ReadInv, FilledStorage
  <2>5. FilledRead'
    BY <1>1, <2>1, <2>3, <2>4 DEF FilledRead, Exists
  <2> QED
    BY <1>2, <1>4, <2>1, <2>2, <2>5 DEF FilledInv
<1>7. CASE reconcileGPUStoragePrepareJobState(s)
  <2>0. PICK d : d = storagePrepareDigest(ctl.obj)
    OBVIOUS
  <2>1. /\ ctl.pc = "prepare" /\ ctl.s = s /\ SourceReady(ctl.obj) /\ d \in DigestsOf(s)
        /\ UNCHANGED <<status, claim, accessor>>
    BY <1>7, <2>0, JobStateCases
  <2>2. CASE Fail("prepare") /\ UNCHANGED jobs
    <3>1. ctl'.pc = "failed"
      BY <2>2 DEF Fail
    <3>2. FilledStorage(s)'
      BY <1>0, <1>1, <1>2, <2>1, <2>2, FilledFrame
    <3> QED
      BY <1>2, <1>4, <2>1, <2>2, <3>1, <3>2 DEF FilledInv
  <2>3. CASE /\ GoesOn("accessor") /\ UNCHANGED jobs
             /\ ctl'.prepare.ready = (ctl'.prepare.phase = "Succeeded")
             /\ \/ ctl'.prepare.phase = "Succeeded" <=> jobs[s][d].state = "succeeded"
                \/ ctl.st.prepare = "Succeeded"
    <3>1. FilledStorage(s)'
      BY <1>0, <1>1, <1>2, <2>1, <2>3, FilledFrame
    <3>2. Exists(s) /\ ctl'.prepare.phase = "Succeeded" => claim[s].prepared
      <4>1. d.prepare \in Storages => ~Gone(d.prepare)
        BY <2>0, <2>1 DEF SourceReady, storagePrepareDigest, Gone
      <4>2. Exists(s) /\ jobs[s][d].state = "succeeded" => claim[s].prepared
        BY <1>0, <2>1, <4>1 DEF FilledStorage
      <4>3. Exists(s) /\ ctl.st.prepare = "Succeeded" => claim[s].prepared
        BY <1>0, <1>1, <1>3 DEF ReadInv, FilledStorage
      <4> QED
        BY <2>3, <4>2, <4>3
    <3>3. FilledRead'
      BY <1>1, <2>1, <2>3, <3>2 DEF FilledRead, Exists, GoesOn
    <3> QED
      BY <1>2, <1>4, <2>1, <2>3, <3>1, <3>3 DEF FilledInv
  <2>4. CASE /\ GoesOn("accessor") /\ ctl'.prepare.phase = "Pending" /\ ~ctl'.prepare.ready
             /\ jobs' = [jobs EXCEPT ![s][d] = [owner |-> ctl.obj.uid, state |-> "pending"]]
    <3>1. /\ \A e \in DigestsOf(s) \ {d} : jobs'[s][e] = jobs[s][e]
          /\ jobs'[s][d].state = "pending"
      BY <2>1, <2>4 DEF ShapeInv, JobInv
    <3>2. FilledStorage(s)'
      BY <1>0, <1>1, <1>2, <2>1, <3>1 DEF FilledStorage, Exists
    <3>3. FilledRead'
      BY <2>4 DEF FilledRead
    <3>4. d.prepare \in Storages => Exists(d.prepare) /\ claim[d.prepare].prepared
      BY <2>0, <2>1 DEF SourceReady, storagePrepareDigest, FilledInv, FilledStorage
    <3>5. \A x \in Storages : (Exists(x) /\ claim[x].prepared)' = (Exists(x) /\ claim[x].prepared)
      BY <1>1, <2>1 DEF Exists
    <3>6. FilledSources(s)'
      BY <1>2, <3>1, <3>4, <3>5 DEF FilledSources, FilledInv
    <3>7. \A t \in Storages \ {s} : FilledSources(t)'
      BY <1>1, <1>2, <3>5, SourcesFrame DEF FilledInv
    <3> QED
      BY <1>2, <3>2, <3>3, <3>6, <3>7 DEF FilledInv
  <2> QED
    BY <1>7, <2>0, <2>2, <2>3, <2>4, JobStateCases
<1>8. CASE \/ ensureGPUStorageAccessorAbsent(s) \/ reconcileGPUStorageAccessor(s)
           \/ updateAccessorDeployment(s)
  <2>1. UNCHANGED <<status, claim, jobs>> /\ ctl.pc \in {"accessor", "update"}
    BY <1>8 DEF ensureGPUStorageAccessorAbsent, reconcileGPUStorageAccessor,
       updateAccessorDeployment, objects
  <2>2. FilledRead /\ ctl.s = s
    BY <1>1, <2>1 DEF FilledInv
  <2>3. ctl'.pc = "failed" \/ (ctl'.s = s /\ ctl'.prepare = ctl.prepare)
    BY <1>1, <1>8 DEF ensureGPUStorageAccessorAbsent, reconcileGPUStorageAccessor,
       updateAccessorDeployment, Fail, accessorDone
  <2>4. \/ accessor' = accessor \/ accessor' = [accessor EXCEPT ![s] = NoAccessor]
        \/ ctl.prepare.ready
    BY <1>8 DEF ensureGPUStorageAccessorAbsent, reconcileGPUStorageAccessor, accessorWanted,
       updateAccessorDeployment, objects
  <2>5. FilledStorage(s)'
    <3>1. CASE accessor' = accessor
      BY <1>0, <1>1, <1>2, <2>1, <3>1, FilledFrame
    <3>2. CASE accessor' = [accessor EXCEPT ![s] = NoAccessor]
      <4>1. accessor'[s].owner = 0
        BY <1>0, <3>2 DEF NoAccessor
      <4> QED
        BY <1>0, <1>1, <1>2, <2>1, <4>1 DEF FilledStorage, Exists
    <3>3. CASE ctl.prepare.ready
      BY <1>1, <2>1, <2>2, <3>3 DEF FilledStorage, FilledRead, Exists
    <3> QED
      BY <2>4, <3>1, <3>2, <3>3
  <2>6. ctl'.pc \in {"accessor", "update", "status"} => FilledRead'
    BY <1>1, <2>1, <2>2, <2>3 DEF FilledRead, Exists
  <2> QED
    BY <1>2, <1>4, <2>1, <2>5, <2>6 DEF FilledInv
<1>9. ASSUME NEW next, NEW requeue, updateGPUStorageStatus(s, next, requeue),
             Exists(s) /\ (next.phase = "Ready" \/ next.prepare = "Succeeded") => claim[s].prepared
      PROVE  FilledInv'
  <2>1. UNCHANGED <<claim, jobs, accessor>> /\ ctl' = Idle /\ ctl'.pc \notin {"accessor", "update", "status"}
    BY <1>9 DEF updateGPUStorageStatus, Idle
  <2>2. status'[s] = status[s] \/ status'[s] = next
    BY <1>0, <1>9 DEF updateGPUStorageStatus
  <2>3. FilledStorage(s)'
    BY <1>0, <1>1, <1>2, <1>9, <2>1, <2>2 DEF FilledStorage, Exists
  <2> QED
    BY <1>2, <1>4, <2>1, <2>3 DEF FilledInv
<1>10. CASE FinishReconcile(s)
  <2>1. FilledRead /\ ctl.s = s
    BY <1>1, <1>10 DEF FilledInv, FinishReconcile
  <2>2. /\ buildGPUStorageStatus.phase = "Ready" => ctl.prepare.ready
        /\ buildGPUStorageStatus.prepare = ctl.prepare.phase
    BY DEF buildGPUStorageStatus, storageReadyStatus
  <2>3. Exists(s) /\ (buildGPUStorageStatus.phase = "Ready" \/ buildGPUStorageStatus.prepare = "Succeeded")
          => claim[s].prepared
    BY <2>1, <2>2 DEF FilledRead
  <2> QED
    BY <1>9, <1>10, <2>3 DEF FinishReconcile
<1>11. CASE markStorageFailed(s)
  <2>1. /\ failedStatus.phase = "Failed" /\ failedStatus.prepare = ctl.st.prepare
    BY <1>11, WrittenTypes DEF markStorageFailed, ShapeInv
  <2>2. Exists(s) /\ failedStatus.prepare = "Succeeded" => claim[s].prepared
    BY <1>0, <1>1, <1>3, <2>1 DEF ReadInv, FilledStorage
  <2> QED
    BY <1>9, <1>11, <2>1, <2>2 DEF markStorageFailed
<1> QED
  BY <1>5, <1>6, <1>7, <1>8, <1>10, <1>11 DEF Reconcile

LEMMA FilledAside ==
  ASSUME FilledInv, Aside
  PROVE  FilledInv'
<1>1. \A t \in Storages : FilledStorage(t)' /\ FilledSources(t)'
  <2>1. \A x \in Storages : Gone(x)' = Gone(x) /\ (Exists(x) /\ claim[x].prepared)' = (Exists(x) /\ claim[x].prepared)
    BY DEF Aside, objects, Gone, Exists
  <2> QED
    BY <2>1, FilledFrame, SourcesFrame DEF FilledInv, Aside, objects
<1>2. CASE ctl' = ctl
  BY <1>1, <1>2 DEF FilledInv, FilledRead, Exists, Aside, objects
<1>3. CASE ctl' # ctl
  <2>1. ctl'.pc \notin {"accessor", "update", "status"}
    BY <1>3 DEF Aside, Idle, Fail
  <2> QED
    BY <1>1, <2>1 DEF FilledInv
<1> QED
  BY <1>2, <1>3

\* A storage is reported Ready and served only once a job has filled its claim, from
\* a source that was itself filled, where names are not used again
\* (gpustorage_controller.go:140-205).
THEOREM ClaimsAreFilledFirst ==
  NamesUsedOnce => (Spec => []PreparedBeforeUse)
<1> SUFFICES ASSUME NamesUsedOnce PROVE Spec => []PreparedBeforeUse
  OBVIOUS
<1>1. ShapeInv /\ OnceInv /\ FilledInv /\ [Next]_vars => FilledInv'
  BY StepCases, FilledRequests, FilledCluster, FilledReconcile, FilledAside
<1>2. FilledInv => PreparedBeforeUse
  BY DEF FilledInv, FilledStorage, PreparedBeforeUse
<1> QED
  BY ShapeInit, OnceInit, FilledInit, ShapeStep, OnceStep, <1>1, <1>2, PTL DEF Spec

-----------------------------------------------------------------------------
(* A recorded success of a prepare job is final.                           *)

LEMMA RecordInit == Init => RecordInv
<1> SUFFICES ASSUME Init PROVE RecordInv
  OBVIOUS
<1>1. ASSUME NEW s \in Storages PROVE RecordedStorage(s)
  BY DEF Init, RecordedStorage, RecordedStatus, Exists, Absent
<1> QED
  BY <1>1 DEF RecordInv, Init

LEMMA RecordFrame ==
  ASSUME NEW t \in Storages, RecordedStorage(t), spec'[t] = spec[t], status'[t] = status[t],
         claim'[t] = claim[t], jobs'[t] = jobs[t], history'[t] = history[t]
  PROVE  RecordedStorage(t)'
BY DEF RecordedStorage, RecordedDigest, RecordedStatus, JobOver, Exists, storagePrepareDigest

\* What a reconcile knows lasts while nothing of its storage moves but the spec.
LEMMA RecordReadFrame ==
  ASSUME RecordRead, ctl' = ctl, Exists(ctl.s)' => Exists(ctl.s), claim'[ctl.s] = claim[ctl.s],
         jobs'[ctl.s] = jobs[ctl.s], history'[ctl.s] = history[ctl.s]
  PROVE  RecordRead'
BY DEF RecordRead, JobOver, storagePrepareDigest

LEMMA RecordRequests ==
  ASSUME NamesUsedOnce, ShapeInv, OnceInv, RecordInv, NEW s \in Storages, Requests(s)
  PROVE  RecordInv'
<1>0. spec \in [Storages -> Objects] /\ uids \in [Storages -> Nat] /\ NameInv(s) /\ RecordedStorage(s)
      /\ DOMAIN status = Storages
  BY DEF ShapeInv, TypeOK, Objects, OnceInv, RecordInv
<1>1. /\ UNCHANGED <<claim, jobs, accessor, ctl>>
      /\ \A t \in Storages \ {s} : /\ spec'[t] = spec[t] /\ status'[t] = status[t]
                                   /\ uids'[t] = uids[t] /\ history'[t] = history[t]
  BY OthersStay
<1>2. \A t \in Storages \ {s} : RecordedStorage(t)'
  BY <1>1, RecordFrame DEF RecordInv
<1>3. ASSUME ctl # Idle, ctl.s # s \/ ((Exists(s)' => Exists(s)) /\ UNCHANGED history)
      PROVE  RecordRead'
  <2>1. ctl.s \in Storages /\ RecordRead
    BY <1>3, CtlAt DEF ShapeInv, RecordInv
  <2>2. (Exists(ctl.s)' => Exists(ctl.s)) /\ history'[ctl.s] = history[ctl.s]
    BY <1>1, <1>3, <2>1 DEF Exists
  <2> QED
    BY <1>1, <2>1, <2>2, RecordReadFrame
<1>4. CASE \E p \in PreparesOf[s], a \in BOOLEAN : CreateGPUStorage(s, p, a)
  <2>1. uids[s] = 0 /\ status'[s] = NoStatus /\ history'[s] = [d \in DigestsOf(s) |-> "none"]
    BY <1>0, <1>4 DEF CreateGPUStorage, NamesUsedOnce, ShapeInv, JobInv
  <2>2. NoStatus.prepare # "Succeeded"
    BY DEF NoStatus
  <2>3. RecordedStorage(s)'
    BY <2>1, <2>2 DEF RecordedStorage, RecordedStatus
  <2>4. ctl # Idle => ctl.s # s
    BY <2>1 DEF OnceInv, ReadInv
  <2> QED
    BY <1>1, <1>2, <1>3, <2>3, <2>4 DEF RecordInv
<1>5. CASE \/ \E a \in BOOLEAN, size \in {spec[s].size, spec[s].size + 1} : UpdateGPUStorage(s, a, size)
           \/ RecoverGPUStorage(s)
  <2>1. /\ spec'[s].uid = spec[s].uid /\ spec'[s].prepare = spec[s].prepare
        /\ spec'[s].rv = spec[s].rv + 1 /\ spec[s].rv \in Nat
        /\ spec'[s].nonce = spec[s].nonce \/ spec'[s].nonce = spec[s].rv + 1
        /\ UNCHANGED <<status, history>>
    BY <1>5, EditKeeps
  <2>2. RecordedStatus(s)'
    BY <1>0, <2>1 DEF RecordedStorage, RecordedStatus, Exists
  <2>3. ASSUME NEW d \in DigestsOf(s), history'[s][d] = "recorded" PROVE RecordedDigest(s, d)'
    <3>1. RecordedDigest(s, d)
      BY <1>0, <2>1, <2>3 DEF RecordedStorage
    <3>2. JobOver(s, d)'
      BY <1>1, <2>1, <3>1 DEF RecordedDigest, JobOver, Exists
    <3>3. ASSUME Exists(s) PROVE d.nonce <= spec'[s].rv /\ d.nonce # spec[s].rv + 1
      <4>1. d.nonce \in Nat
        BY StorageAssumption DEF DigestsOf
      <4>2. d.nonce <= spec[s].rv
        BY <3>1, <3>3 DEF RecordedDigest
      <4> QED
        BY <2>1, <4>1, <4>2
    <3>4. Exists(s)' = Exists(s)
      BY <2>1 DEF Exists
    <3>5. Exists(s) /\ storagePrepareDigest(spec'[s]) = d => storagePrepareDigest(spec[s]) = d
      BY <2>1, <3>3 DEF storagePrepareDigest
    <3> QED
      BY <2>1, <3>1, <3>2, <3>3, <3>4, <3>5 DEF RecordedDigest
  <2>4. Exists(s)' => Exists(s)
    BY <2>1 DEF Exists
  <2> QED
    BY <1>1, <1>2, <1>3, <2>1, <2>2, <2>3, <2>4 DEF RecordInv, RecordedStorage
<1>6. CASE DeleteGPUStorage(s)
  <2>1. ~Exists(s)' /\ UNCHANGED history
    BY <1>0, <1>6 DEF DeleteGPUStorage, Absent, Exists
  <2>2. RecordedStorage(s)'
    BY <2>1 DEF RecordedStorage, RecordedDigest, RecordedStatus, JobOver
  <2> QED
    BY <1>1, <1>2, <1>3, <2>1, <2>2 DEF RecordInv
<1> QED
  BY <1>4, <1>5, <1>6 DEF Requests

LEMMA RecordCluster ==
  ASSUME ShapeInv, OnceInv, RecordInv, NEW s \in Storages, Cluster(s)
  PROVE  RecordInv'
<1>0. /\ DOMAIN claim = Storages /\ NameInv(s) /\ RecordedStorage(s)
      /\ claim[s] \in [owner : Nat, bound : BOOLEAN, size : Nat, prepared : BOOLEAN]
      /\ DOMAIN jobs = Storages /\ DOMAIN jobs[s] = DigestsOf(s)
  <2>1. DOMAIN jobs = Storages /\ DOMAIN jobs[s] = DigestsOf(s)
    BY DEF ShapeInv, JobInv
  <2> QED
    BY <2>1 DEF ShapeInv, TypeOK, OnceInv, RecordInv
<1>1. /\ UNCHANGED <<spec, status, uids, ctl, history>>
      /\ \A t \in Storages \ {s} : claim'[t] = claim[t] /\ jobs'[t] = jobs[t]
  BY OthersStay
<1>2. \A t \in Storages \ {s} : RecordedStorage(t)'
  BY <1>1, RecordFrame DEF RecordInv
\* While the storage exists its claim stays bound, and a job that is over stays so.
<1>3. ASSUME Exists(s) => claim'[s].owner = claim[s].owner /\ (claim[s].bound => claim'[s].bound),
             \A d \in DigestsOf(s) : jobs[s][d].state \in {"absent", "succeeded"}
               => jobs'[s][d].state \in {"absent", "succeeded"}
      PROVE  RecordInv'
  <2>1. \A d \in DigestsOf(s) : JobOver(s, d) => JobOver(s, d)'
    BY <1>1, <1>3 DEF JobOver, Exists
  <2>2. RecordedStorage(s)'
    BY <1>0, <1>1, <2>1 DEF RecordedStorage, RecordedDigest, RecordedStatus, Exists,
       storagePrepareDigest
  <2>3. ASSUME ctl # Idle PROVE RecordRead'
    <3>1. ctl.s \in Storages /\ ctl.obj \in Objects /\ RecordRead /\ WellSpecified(ctl.s, ctl.obj)
      BY <2>3, CtlAt DEF ShapeInv, RecordInv, SpecInv
    <3>2. CASE ctl.s # s
      BY <1>1, <3>1, <3>2, RecordReadFrame DEF Exists
    <3>3. CASE ctl.s = s
      <4>1. storagePrepareDigest(ctl.obj) \in DigestsOf(s)
        BY <3>1, <3>3, DigestKnown
      <4>2. Exists(s)' = Exists(s) /\ storagePrepareDigest(ctl.obj)' = storagePrepareDigest(ctl.obj)
        BY <1>1 DEF Exists, storagePrepareDigest
      <4> QED
        BY <1>1, <1>3, <2>1, <3>1, <3>3, <4>1, <4>2 DEF RecordRead
    <3> QED
      BY <3>2, <3>3
  <2> QED
    BY <1>1, <1>2, <2>2, <2>3 DEF RecordInv
<1>4. CASE ClaimBinds(s)
  <2>1. claim'[s].owner = claim[s].owner /\ claim'[s].bound /\ UNCHANGED jobs
    BY <1>0, <1>4 DEF ClaimBinds
  <2> QED
    BY <1>3, <2>1
<1>5. CASE CollectClaim(s)
  <2>1. ~Exists(s) /\ UNCHANGED jobs
    BY <1>0, <1>5 DEF CollectClaim, NameInv
  <2> QED
    BY <1>3, <2>1
<1>6. CASE AccessorStarts(s) \/ AccessorGoesDown(s) \/ CollectAccessor(s)
  <2>1. UNCHANGED <<jobs, claim>>
    BY <1>6 DEF AccessorStarts, AccessorGoesDown, CollectAccessor
  <2> QED
    BY <1>3, <2>1
<1>7. ASSUME NEW d \in DigestsOf(s),
             \/ JobStarts(s, d) \/ JobSucceeds(s, d) \/ JobFails(s, d)
             \/ JobExpires(s, d) \/ CollectJob(s, d)
      PROVE  RecordInv'
  <2>1. claim'[s].owner = claim[s].owner /\ claim'[s].bound = claim[s].bound
    BY <1>0, <1>7 DEF JobStarts, JobSucceeds, JobFails, JobExpires, CollectJob
  <2>2. /\ \A e \in DigestsOf(s) \ {d} : jobs'[s][e] = jobs[s][e]
        /\ jobs[s][d].state \in {"pending", "active"} \/ jobs'[s][d].state = "absent"
    BY <1>0, <1>7 DEF JobStarts, JobSucceeds, JobFails, JobExpires, CollectJob, NoJob
  <2> QED
    BY <1>3, <2>1, <2>2
<1> QED
  BY <1>4, <1>5, <1>6, <1>7 DEF Cluster

LEMMA RecordReconcile ==
  ASSUME ShapeInv, OnceInv, RecordInv, NEW s \in Storages, Reconcile(s)
  PROVE  RecordInv'
<1>0. /\ DOMAIN claim = Storages /\ DOMAIN status = Storages /\ NameInv(s) /\ RecordedStorage(s)
      /\ claim[s] \in [owner : Nat, bound : BOOLEAN, size : Nat, prepared : BOOLEAN]
  BY DEF ShapeInv, TypeOK, OnceInv, RecordInv
<1>1. /\ UNCHANGED <<spec, uids>> /\ ctl.s = s /\ ctl # Idle
      /\ \A t \in Storages \ {s} : /\ claim'[t] = claim[t] /\ jobs'[t] = jobs[t]
                                   /\ status'[t] = status[t] /\ history'[t] = history[t]
  BY OthersStay
<1>2. /\ \A t \in Storages \ {s} : RecordedStorage(t)'
      /\ Exists(s)' = Exists(s)
  BY <1>1, RecordFrame DEF RecordInv, Exists
<1>3. ReadInv /\ RecordRead /\ WellSpecified(s, ctl.obj) /\ ctl.obj \in Objects
  BY <1>1, CtlAt DEF OnceInv, RecordInv, ShapeInv, SpecInv
<1>4. PICK d \in DigestsOf(s) : d = storagePrepareDigest(ctl.obj)
  BY <1>3, DigestKnown
\* What is known of the digest this reconcile works on, once its success is recorded.
<1>5. ASSUME history[s][d] = "recorded", d.prepare = "image"
      PROVE  /\ ctl.st.digest = d /\ ctl.st.prepare = "Succeeded" /\ JobOver(s, d)
             /\ Exists(s) /\ ctl.pc \in {"prepare", "accessor", "update", "status"} => ctl.bound
             /\ Exists(s) /\ ctl.pc \in {"accessor", "update", "status"} => ctl.prepare.phase = "Succeeded"
  BY <1>0, <1>1, <1>3, <1>4, <1>5 DEF RecordRead, RecordedStorage, RecordedDigest
<1>6. ASSUME UNCHANGED <<jobs, history>>, ctl'.s = s, ctl'.obj = ctl.obj, ctl'.st = ctl.st,
             history[s][d] = "recorded" /\ d.prepare = "image" /\ Exists(s) =>
               /\ ctl'.pc \in {"prepare", "accessor", "update", "status"} => ctl'.bound
               /\ ctl'.pc \in {"accessor", "update", "status"} => ctl'.prepare.phase = "Succeeded",
             ctl'.pc \in {"prepare", "accessor", "update", "status"} /\ Exists(s) /\ ctl'.bound => claim'[s].bound,
             ctl'.pc \in {"accessor", "update", "status"} /\ ctl'.prepare.phase = "Succeeded" =>
               ctl'.prepare.digest = d /\ JobOver(s, d)'
      PROVE  RecordRead'
  <2>1. storagePrepareDigest(ctl.obj)' = d
    BY <1>4, <1>6 DEF storagePrepareDigest
  <2> QED
    BY <1>2, <1>5, <1>6, <2>1 DEF RecordRead
<1>7. ASSUME NEW reason, Fail(reason), UNCHANGED <<status, claim, jobs, history>>
      PROVE  RecordInv'
  <2>1. ctl'.s = s /\ ctl'.obj = ctl.obj /\ ctl'.st = ctl.st /\ ctl'.pc = "failed"
    BY <1>1, <1>7 DEF Fail
  <2>2. RecordRead'
    BY <1>6, <1>7, <2>1
  <2> QED
    BY <1>0, <1>1, <1>2, <1>7, <2>2, RecordFrame DEF RecordInv
<1>8. CASE reconcileGPUStoragePVC(s)
  <2>1. UNCHANGED <<status, jobs, history>> /\ ctl.pc = "claim"
    BY <1>8 DEF reconcileGPUStoragePVC
  <2>2. CASE Fail("claim") /\ UNCHANGED claim
    BY <1>7, <2>1, <2>2
  <2>3. ASSUME NEW b, NEW c,
               ctl' = [pc |-> "prepare", s |-> s, obj |-> ctl.obj, st |-> ctl.st,
                       bound |-> b, changed |-> c],
               \/ /\ claim[s].owner # 0 /\ b = claim[s].bound
                  /\ claim' = claim \/ claim' = [claim EXCEPT ![s].size = ctl.obj.size]
               \/ /\ claim[s].owner = 0 /\ b = FALSE
        PROVE  RecordInv'
    <3>1. Exists(s) /\ claim[s].owner # 0 =>
            claim'[s].owner = claim[s].owner /\ claim'[s].bound = claim[s].bound
      BY <1>0, <2>3
    <3>2. ASSUME NEW e \in DigestsOf(s), JobOver(s, e) PROVE JobOver(s, e)'
      BY <1>2, <2>1, <3>1, <3>2 DEF JobOver
    <3>3. RecordedStorage(s)'
      BY <1>0, <1>1, <1>2, <2>1, <3>2 DEF RecordedStorage, RecordedDigest, RecordedStatus,
         storagePrepareDigest
    <3>4. history[s][d] = "recorded" /\ d.prepare = "image" /\ Exists(s) => b
      BY <1>5, <2>3 DEF JobOver
    <3>5. ctl'.pc = "prepare" /\ ctl'.s = s /\ ctl'.obj = ctl.obj /\ ctl'.st = ctl.st /\ ctl'.bound = b
      BY <2>3
    <3>6. Exists(s) /\ b => claim'[s].bound
      BY <2>3, <3>1
    <3>7. RecordRead'
      BY <1>6, <2>1, <3>4, <3>5, <3>6
    <3> QED
      BY <1>2, <3>3, <3>7 DEF RecordInv
  <2> QED
    BY <1>8, <2>2, <2>3 DEF reconcileGPUStoragePVC
<1>9. CASE prepareWaits(s)
  <2>1. UNCHANGED <<status, claim, jobs, history>> /\ ctl.pc = "prepare"
    BY <1>9 DEF prepareWaits, objects
  <2>2. GoesOn("accessor") /\ ctl'.prepare.phase # "Succeeded"
    BY <1>9 DEF prepareWaits, prepareDone, Progress, GoesOn
  <2>3. ~(history[s][d] = "recorded" /\ d.prepare = "image" /\ Exists(s))
    <3>1. ASSUME history[s][d] = "recorded", d.prepare = "image", Exists(s) PROVE FALSE
      <4>1. ctl.obj.prepare = "image"
        BY <1>4, <3>1 DEF storagePrepareDigest
      <4>2. SourceReady(ctl.obj)
        BY <4>1, StorageAssumption DEF SourceReady
      <4>3. ctl.bound
        BY <1>5, <2>1, <3>1
      <4> QED
        BY <1>9, <4>1, <4>2, <4>3 DEF prepareWaits
    <3> QED
      BY <3>1
  <2>4. Exists(s) /\ ctl.bound => claim[s].bound
    BY <1>1, <1>3, <2>1 DEF RecordRead
  <2>5. RecordRead'
    BY <1>1, <1>6, <2>1, <2>2, <2>3, <2>4 DEF GoesOn
  <2> QED
    BY <1>0, <1>1, <1>2, <2>1, <2>5, RecordFrame DEF RecordInv
<1>10. CASE reconcileGPUStoragePrepareJobState(s)
  <2>1. ctl.pc = "prepare" /\ ctl.bound /\ UNCHANGED <<status, claim>>
    BY <1>4, <1>10, JobStateCases
  <2>2. Exists(s) => claim[s].bound /\ claim[s].owner # 0
    BY <1>1, <1>3, <2>1 DEF RecordRead, ReadInv
  <2>3. CASE Fail("prepare") /\ UNCHANGED <<jobs, history>>
    BY <1>7, <2>1, <2>3
  <2>4. CASE /\ GoesOn("accessor") /\ UNCHANGED <<jobs, history>> /\ ctl'.prepare.digest = d
             /\ \/ /\ jobs[s][d].state # "absent"
                   /\ ctl'.prepare.phase = "Succeeded" <=> jobs[s][d].state = "succeeded"
                \/ /\ ctl.st.digest = d /\ ctl.st.prepare = "Succeeded"
                   /\ ctl'.prepare.phase = "Succeeded"
    <3>1. history[s][d] = "recorded" /\ d.prepare = "image" /\ Exists(s) => ctl'.prepare.phase = "Succeeded"
      BY <1>5, <2>4 DEF JobOver
    <3>2. ctl'.prepare.phase = "Succeeded" => JobOver(s, d)
      <4>1. CASE jobs[s][d].state = "succeeded"
        BY <2>2, <4>1 DEF JobOver
      <4>2. CASE ctl.st.digest = d /\ ctl.st.prepare = "Succeeded"
        <5>1. Exists(s) => history[s][d] = "recorded"
          BY <1>0, <1>1, <1>3, <4>2 DEF ReadInv, RecordedStorage, RecordedStatus
        <5> QED
          BY <1>0, <1>4, <5>1 DEF RecordedStorage, RecordedDigest, JobOver
      <4> QED
        BY <2>4, <4>1, <4>2
    <3>3. JobOver(s, d)' = JobOver(s, d)
      BY <1>2, <2>1, <2>4 DEF JobOver
    <3>4. RecordRead'
      BY <1>1, <1>6, <2>1, <2>2, <2>4, <3>1, <3>2, <3>3 DEF GoesOn
    <3> QED
      BY <1>0, <1>1, <1>2, <2>1, <2>4, <3>4, RecordFrame DEF RecordInv
  <2>5. CASE /\ GoesOn("accessor") /\ jobs[s][d].state = "absent"
             /\ ~(ctl.st.digest = d /\ ctl.st.prepare = "Succeeded")
             /\ jobs' = [jobs EXCEPT ![s][d] = [owner |-> ctl.obj.uid, state |-> "pending"]]
             /\ history' = [history EXCEPT ![s][d] = Created(s, d)]
             /\ ctl'.prepare.phase = "Pending"
    <3>1. ~(history[s][d] = "recorded" /\ d.prepare = "image")
      BY <1>5, <2>5
    <3>2. /\ \A e \in DigestsOf(s) \ {d} : jobs'[s][e] = jobs[s][e] /\ history'[s][e] = history[s][e]
          /\ history'[s][d] = Created(s, d)
      BY <1>4, <2>5 DEF ShapeInv, JobInv
    <3>3. \A e \in DigestsOf(s) : history'[s][e] = "recorded" <=> history[s][e] = "recorded"
      BY <3>2 DEF Created
    <3>4. ASSUME NEW e \in DigestsOf(s), history'[s][e] = "recorded" PROVE RecordedDigest(s, e)'
      <4>1. RecordedDigest(s, e)
        BY <1>0, <3>3, <3>4 DEF RecordedStorage
      <4>2. JobOver(s, e)'
        BY <1>2, <2>1, <3>1, <3>2, <3>3, <3>4, <4>1 DEF RecordedDigest, JobOver
      <4> QED
        BY <1>1, <1>2, <2>1, <4>1, <4>2 DEF RecordedDigest, storagePrepareDigest
    <3>5. RecordedStatus(s)'
      BY <1>0, <1>2, <2>1, <3>3 DEF RecordedStorage, RecordedStatus
    <3>6. ctl'.s = s /\ storagePrepareDigest(ctl.obj)' = d /\ ctl'.pc = "accessor"
      BY <1>1, <1>4, <2>5 DEF GoesOn, storagePrepareDigest
    <3>7. RecordRead'
      BY <1>2, <2>1, <2>2, <2>5, <3>1, <3>3, <3>6 DEF RecordRead
    <3> QED
      BY <1>2, <3>4, <3>5, <3>7 DEF RecordInv, RecordedStorage
  <2> QED
    BY <1>4, <1>10, <2>3, <2>4, <2>5, JobStateCases
<1>11. CASE \/ ensureGPUStorageAccessorAbsent(s) \/ reconcileGPUStorageAccessor(s)
            \/ updateAccessorDeployment(s)
  <2>1. UNCHANGED <<status, claim, jobs, history>> /\ ctl.pc \in {"accessor", "update"}
    BY <1>11 DEF ensureGPUStorageAccessorAbsent, reconcileGPUStorageAccessor,
       updateAccessorDeployment, objects
  <2>2. \/ Fail("accessor")
        \/ \E next \in {"update", "status"} : GoesOn(next) /\ ctl'.prepare = ctl.prepare
    BY <1>1, <1>11 DEF ensureGPUStorageAccessorAbsent, reconcileGPUStorageAccessor,
       updateAccessorDeployment, accessorDone, GoesOn
  <2>3. CASE Fail("accessor")
    BY <1>7, <2>1, <2>3
  <2>4. CASE \E next \in {"update", "status"} : GoesOn(next) /\ ctl'.prepare = ctl.prepare
    <3>1. PICK next \in {"update", "status"} : GoesOn(next) /\ ctl'.prepare = ctl.prepare
      BY <2>4
    <3>2. /\ Exists(s) /\ ctl.bound => claim[s].bound
          /\ ctl.prepare.phase = "Succeeded" => ctl.prepare.digest = d /\ JobOver(s, d)
      BY <1>1, <1>3, <1>4, <2>1 DEF RecordRead
    <3>3. JobOver(s, d)' = JobOver(s, d)
      BY <1>2, <2>1 DEF JobOver
    <3>4. RecordRead'
      BY <1>1, <1>5, <1>6, <2>1, <3>1, <3>2, <3>3 DEF GoesOn
    <3> QED
      BY <1>0, <1>1, <1>2, <2>1, <3>4, RecordFrame DEF RecordInv
  <2> QED
    BY <2>2, <2>3, <2>4
\* A status is written under the version that was read, so under the same digest.
<1>12. ASSUME NEW next, NEW requeue, updateGPUStorageStatus(s, next, requeue),
              Exists(s) /\ next.prepare = "Succeeded" =>
                \/ next.digest = d /\ JobOver(s, d)
                \/ next.digest \in DigestsOf(s) /\ history[s][next.digest] = "recorded",
              Exists(s) /\ history[s][d] = "recorded" /\ d.prepare = "image" =>
                next.digest = d /\ next.prepare = "Succeeded"
       PROVE  RecordInv'
  <2>1. UNCHANGED <<claim, jobs>> /\ ctl' = Idle
    BY <1>12 DEF updateGPUStorageStatus
  <2>2. CASE UNCHANGED <<status, history>>
    BY <1>0, <1>1, <1>2, <2>1, <2>2, RecordFrame DEF RecordInv
  <2>3. CASE /\ Writable(s) /\ status' = [status EXCEPT ![s] = next] /\ history' = Record(s, next)
    <3>1. Exists(s)
      BY <1>3, <2>3 DEF Writable, WellSpecified, Exists
    <3>2. storagePrepareDigest(spec[s]) = d /\ d.nonce <= spec[s].rv
      <4>1. /\ ctl.obj.prepare = spec[s].prepare /\ ctl.obj.nonce = spec[s].nonce
            /\ ctl.obj.rv = spec[s].rv
        BY <1>1, <1>3, <2>3, <3>1 DEF Writable, ReadInv
      <4>2. ctl.obj.nonce <= ctl.obj.rv
        BY <1>3 DEF WellSpecified
      <4> QED
        BY <1>4, <4>1, <4>2 DEF storagePrepareDigest
    <3>3. status'[s] = next
      BY <1>0, <2>3
    <3>4. \A e \in DigestsOf(s) : history'[s][e] =
            IF next.prepare = "Succeeded" /\ next.digest = e THEN "recorded" ELSE history[s][e]
      BY <2>3 DEF Record, ShapeInv, JobInv
    <3>5. RecordedStatus(s)'
      <4>1. next.prepare = "Succeeded" => next.digest \in DigestsOf(s)
        BY <1>4, <1>12, <3>1
      <4> QED
        BY <3>3, <3>4, <4>1 DEF RecordedStatus
    <3>6. ASSUME NEW e \in DigestsOf(s), history'[s][e] = "recorded" PROVE RecordedDigest(s, e)'
      <4>1. \/ history[s][e] = "recorded"
            \/ next.prepare = "Succeeded" /\ next.digest = d /\ e = d /\ JobOver(s, d)
        BY <1>12, <3>1, <3>4, <3>6
      <4>2. JobOver(s, e) /\ e.nonce <= spec[s].rv
        BY <1>0, <3>1, <3>2, <4>1 DEF RecordedStorage, RecordedDigest
      <4>3. JobOver(s, e)'
        BY <1>2, <2>1, <4>2 DEF JobOver
      <4>4. e.prepare = "image" /\ e = d => next.digest = d /\ next.prepare = "Succeeded"
        BY <1>12, <3>1, <4>1
      <4>5. storagePrepareDigest(spec[s])' = d /\ spec'[s].rv = spec[s].rv
        BY <1>1, <3>2 DEF storagePrepareDigest
      <4> QED
        BY <3>3, <4>2, <4>3, <4>4, <4>5 DEF RecordedDigest
    <3> QED
      BY <1>2, <2>1, <3>5, <3>6 DEF RecordInv, RecordedStorage
  <2> QED
    BY <1>12, <2>2, <2>3 DEF updateGPUStorageStatus
<1>13. CASE FinishReconcile(s)
  <2>1. ctl.pc = "status"
    BY <1>13 DEF FinishReconcile
  <2>2. /\ buildGPUStorageStatus.prepare = ctl.prepare.phase
        /\ buildGPUStorageStatus.digest = ctl.prepare.digest
    BY DEF buildGPUStorageStatus
  <2>3. ctl.prepare.phase = "Succeeded" => ctl.prepare.digest = d /\ JobOver(s, d)
    BY <1>1, <1>3, <1>4, <2>1 DEF RecordRead
  <2>4. Exists(s) /\ history[s][d] = "recorded" /\ d.prepare = "image" => ctl.prepare.phase = "Succeeded"
    BY <1>5, <2>1
  <2>5. PICK next, requeue : /\ updateGPUStorageStatus(s, next, requeue)
                             /\ next.prepare = ctl.prepare.phase /\ next.digest = ctl.prepare.digest
    BY <1>13, <2>2 DEF FinishReconcile
  <2> QED
    BY <1>4, <1>12, <2>3, <2>4, <2>5
<1>14. CASE markStorageFailed(s)
  <2>1. failedStatus.prepare = ctl.st.prepare /\ failedStatus.digest = ctl.st.digest
    BY <1>14, WrittenTypes DEF markStorageFailed, ShapeInv
  <2>2. PICK next, requeue : /\ updateGPUStorageStatus(s, next, requeue)
                             /\ next.prepare = ctl.st.prepare /\ next.digest = ctl.st.digest
    BY <1>14, <2>1 DEF markStorageFailed
  <2>3. Exists(s) /\ ctl.st.prepare = "Succeeded" =>
          ctl.st.digest \in DigestsOf(s) /\ history[s][ctl.st.digest] = "recorded"
    BY <1>0, <1>1, <1>3 DEF ReadInv, RecordedStorage, RecordedStatus
  <2> QED
    BY <1>5, <1>12, <2>2, <2>3
<1> QED
  BY <1>8, <1>9, <1>10, <1>11, <1>13, <1>14 DEF Reconcile

LEMMA RecordAside ==
  ASSUME ShapeInv, RecordInv, Aside
  PROVE  RecordInv'
<1>1. /\ \A t \in Storages : RecordedStorage(t)' /\ Exists(t)' = Exists(t)
      /\ UNCHANGED <<claim, jobs, history>>
  BY RecordFrame DEF RecordInv, Aside, objects, Exists
<1>2. CASE ctl' = Idle
  BY <1>1, <1>2 DEF RecordInv
<1>3. CASE ctl' = ctl
  <2>1. ASSUME ctl # Idle PROVE RecordRead'
    <3>1. ctl.s \in Storages /\ RecordRead
      BY <2>1, CtlAt DEF ShapeInv, RecordInv
    <3> QED
      BY <1>1, <1>3, <3>1, RecordReadFrame
  <2> QED
    BY <1>1, <1>3, <2>1 DEF RecordInv
<1>4. ASSUME NEW reason, ctl # Idle, Fail(reason)
      PROVE  RecordInv'
  <2>1. RecordRead /\ ctl'.s = ctl.s /\ ctl'.obj = ctl.obj /\ ctl'.st = ctl.st /\ ctl'.pc = "failed"
    BY <1>4 DEF RecordInv, Fail
  <2>2. RecordRead'
    BY <1>1, <2>1 DEF RecordRead, storagePrepareDigest
  <2> QED
    BY <1>1, <2>2 DEF RecordInv
<1>5. ASSUME NEW s \in Storages, Exists(s),
             ctl' = [pc |-> "claim", s |-> s, obj |-> spec[s], st |-> status[s]]
      PROVE  RecordInv'
  <2>1. ctl'.pc = "claim" /\ ctl'.s = s /\ ctl'.obj = spec[s] /\ ctl'.st = status[s]
    BY <1>5
  <2>2. RecordRead'
    BY <1>1, <1>5, <2>1 DEF RecordRead, RecordInv, RecordedStorage, RecordedDigest,
       storagePrepareDigest
  <2> QED
    BY <1>1, <2>2 DEF RecordInv
<1> QED
  BY <1>2, <1>3, <1>4, <1>5 DEF Aside

\* Once the status records that an image job succeeded, that job is never started
\* again, whatever is lost, fails or is edited in between, where names are not used
\* again (gpustorage_controller.go:243-246).
THEOREM RecordedSuccessesStay ==
  NamesUsedOnce => (Spec => RecordedSuccessIsFinal)
<1> SUFFICES ASSUME NamesUsedOnce PROVE Spec => RecordedSuccessIsFinal
  OBVIOUS
<1>1. ShapeInv /\ OnceInv /\ RecordInv /\ [Next]_vars => RecordInv'
  BY StepCases, RecordRequests, RecordCluster, RecordReconcile, RecordAside
<1> DEFINE Final == \A s \in Storages : \A d \in DigestsOf(s) :
                      Started(s, d) /\ d.prepare = "image" => history[s][d] # "recorded"
<1>2. ShapeInv /\ OnceInv /\ RecordInv /\ [Next]_vars => [Final]_vars
  <2> SUFFICES ASSUME ShapeInv, OnceInv, RecordInv, [Next]_vars,
                      NEW s \in Storages, NEW d \in DigestsOf(s), Started(s, d),
                      d.prepare = "image", history[s][d] = "recorded"
               PROVE  FALSE
    OBVIOUS
  <2>1. jobs'[s] # jobs[s] /\ jobs'[s][d].state = "pending" /\ jobs[s][d].state = "absent"
    BY DEF Started
  <2>2. PICK t \in Storages : Requests(t) \/ Cluster(t) \/ Reconcile(t)
    BY <2>1, StepCases DEF Aside, objects
  <2>3. t = s /\ ~Requests(t)
    BY <2>1, <2>2, OthersStay
  <2>4. ~Cluster(s)
    <3>1. DOMAIN jobs = Storages /\ DOMAIN jobs[s] = DigestsOf(s)
      BY DEF ShapeInv, JobInv
    <3>2. ASSUME NEW e \in DigestsOf(s),
                 \/ JobStarts(s, e) \/ JobSucceeds(s, e) \/ JobFails(s, e)
                 \/ JobExpires(s, e) \/ CollectJob(s, e)
          PROVE  FALSE
      <4>1. jobs'[s][d] = jobs[s][d] \/ jobs'[s][d].state # "pending"
        <5>1. CASE e # d
          BY <3>1, <3>2, <5>1 DEF JobStarts, JobSucceeds, JobFails, JobExpires, CollectJob
        <5>2. CASE e = d /\ JobStarts(s, e)
          BY <2>1, <5>2 DEF JobStarts
        <5>3. CASE e = d /\ JobSucceeds(s, e)
          BY <2>1, <5>3 DEF JobSucceeds
        <5>4. CASE e = d /\ JobFails(s, e)
          BY <2>1, <5>4 DEF JobFails
        <5>5. CASE e = d /\ (JobExpires(s, e) \/ CollectJob(s, e))
          BY <3>1, <5>5 DEF JobExpires, CollectJob, NoJob
        <5> QED
          BY <3>2, <5>1, <5>2, <5>3, <5>4, <5>5
      <4> QED
        BY <2>1, <4>1
    <3>3. ASSUME ClaimBinds(s) \/ CollectClaim(s) \/ AccessorStarts(s) \/ AccessorGoesDown(s)
                 \/ CollectAccessor(s)
          PROVE  FALSE
      BY <2>1, <3>3 DEF ClaimBinds, CollectClaim, AccessorStarts, AccessorGoesDown, CollectAccessor
    <3> QED
      BY <3>2, <3>3 DEF Cluster
  <2>5. Reconcile(s) /\ ctl.s = s /\ ctl # Idle
    BY <2>2, <2>3, <2>4, OthersStay
  <2>6. reconcileGPUStoragePrepareJobState(s)
    BY <2>1, <2>5 DEF Reconcile, reconcileGPUStoragePVC, prepareWaits, objects,
       ensureGPUStorageAccessorAbsent, reconcileGPUStorageAccessor, updateAccessorDeployment,
       FinishReconcile, markStorageFailed, updateGPUStorageStatus
  <2>7. PICK e : e = storagePrepareDigest(ctl.obj)
    OBVIOUS
  <2>8. /\ e \in DigestsOf(s) /\ ~(ctl.st.digest = e /\ ctl.st.prepare = "Succeeded")
        /\ jobs' = [jobs EXCEPT ![s][e] = [owner |-> ctl.obj.uid, state |-> "pending"]]
    BY <2>1, <2>6, <2>7, JobStateCases
  <2>9. d = e
    BY <2>1, <2>8 DEF ShapeInv, JobInv
  <2> QED
    BY <2>5, <2>7, <2>8, <2>9 DEF RecordInv, RecordRead
<1> QED
  BY ShapeInit, OnceInit, RecordInit, ShapeStep, OnceStep, <1>1, <1>2, PTL
     DEF Spec, RecordedSuccessIsFinal
=============================================================================
