------------------------ MODULE RuntimeServiceProofs ------------------------
(***************************************************************************)
(* Proofs about RuntimeService for any number of requests, units and       *)
(* storages.  What one storage deletion can miss holds however many        *)
(* processes serve requests; exclusive mounts and unique operation IDs     *)
(* hold when one process serves them all.                                  *)
(***************************************************************************)
EXTENDS RuntimeService, TLAPS

\* Which kinds of request come to which place, and what names they carry.
PlaceInv ==
  \A r \in Requests :
     /\ req[r].pc \notin {"new", "done"} => req[r].kind \in Kinds
     /\ req[r].pc \in {"new", "done"} => req[r].kind = "none"
     /\ req[r].pc = "exist" => req[r].kind \in {"create", "update"}
     /\ req[r].pc = "lock" => req[r].kind \in {"create", "update", "edit"}
     /\ req[r].pc = "find" => req[r].kind = "create"
     /\ req[r].pc = "get" =>
          req[r].kind \in {"update", "edit", "deleteUnit", "deleteStorage"}
     /\ req[r].pc = "exclusive" => req[r].kind \in {"create", "update"}
     /\ req[r].pc = "write" => req[r].kind \in {"create", "update", "edit", "createStorage"}
     /\ req[r].pc = "remove" => req[r].kind \in {"deleteUnit", "deleteStorage"}
     /\ req[r].kind \in {"create", "update", "edit", "deleteUnit"} => req[r].name \in Units
     /\ req[r].kind \in {"createStorage", "deleteStorage"} => req[r].name \in Storages

\* Resource versions never run ahead of the API server's clock.
VersionInv ==
  /\ \A u \in Units : unit[u].version <= clock
  /\ \A r \in Requests : req[r].base <= clock

BaseInv == TypeOK /\ PlaceInv /\ VersionInv /\ DeletionSeesOlderMounts

USE DEF Kinds, Places, Unit, Request, NewRequest, At

LEMMA BaseInit == Init => BaseInv
  BY ServiceAssumption DEF Init, BaseInv, TypeOK, PlaceInv, VersionInv,
     DeletionSeesOlderMounts, InCriticalSection, MutexHeld

\* What a request may write as it returns: nothing, or one unit under a new
\* resource version.
WritesOnce ==
  /\ active' \subseteq Units
  /\ storages' \subseteq Storages
  /\ unit' \in [Units -> Unit]
  /\ clock' \in {clock, clock + 1}
  /\ \A u \in Units :
       \/ unit'[u] = unit[u] /\ (u \in active' => u \in active)
       \/ unit'[u].version = clock' /\ clock' = clock + 1

LEMMA ReturnKeepsBase ==
  ASSUME BaseInv, NEW r \in Requests, Return(r), WritesOnce
  PROVE  BaseInv'
<1> USE ServiceAssumption DEF BaseInv
<1>1. /\ req' \in [Requests -> Request]
      /\ req'[r] = [NewRequest EXCEPT !.pc = "done"]
      /\ \A q \in Requests : q # r => req'[q] = req[q]
  BY DEF Return, TypeOK, Request
<1>2. MutexHeld'
  BY <1>1 DEF Return, TypeOK, MutexHeld, InCriticalSection
<1>3. TypeOK'
  BY <1>1, <1>2 DEF Return, TypeOK, WritesOnce
<1>4. PlaceInv'
  BY <1>1 DEF PlaceInv
<1>5. VersionInv'
  <2>1. \A u \in Units : unit'[u].version <= clock'
    BY DEF VersionInv, TypeOK, WritesOnce
  <2>2. req'[r].base = 0
    BY <1>1
  <2>3. \A q \in Requests : req'[q].base <= clock'
    BY <1>1, <2>2 DEF VersionInv, TypeOK, WritesOnce
  <2> QED
    BY <2>1, <2>3 DEF VersionInv
<1>6. DeletionSeesOlderMounts'
  BY <1>1 DEF DeletionSeesOlderMounts, VersionInv, TypeOK, WritesOnce
<1> QED
  BY <1>3, <1>4, <1>5, <1>6

LEMMA QuietReturnKeepsBase ==
  ASSUME BaseInv, NEW r \in Requests, Return(r), UNCHANGED <<active, unit, storages, clock>>
  PROVE  BaseInv'
<1>1. WritesOnce
  BY DEF WritesOnce, BaseInv, TypeOK
<1> QED
  BY <1>1, ReturnKeepsBase

\* A request that moves on writes nothing; its kind, name, operation and mounts
\* stay, and so does the mutex unless the request takes it.
MovesOn(r) ==
  /\ UNCHANGED <<active, unit, storages, clock>>
  /\ req' \in [Requests -> Request]
  /\ \A q \in Requests : q # r => req'[q] = req[q]
  /\ req'[r].kind = req[r].kind /\ req'[r].name = req[r].name
  /\ req'[r].base <= clock
  /\ \/ unitMu' = unitMu /\ (InCriticalSection(r)' <=> InCriticalSection(r))
     \/ Lock(r)

\* The place a request of kind k may move on to.
PlaceFor(k, p) ==
  \/ k = "create" /\ p \in {"exist", "lock", "find", "exclusive", "write"}
  \/ k = "update" /\ p \in {"exist", "lock", "get", "exclusive", "write"}
  \/ k = "edit" /\ p \in {"lock", "get", "write"}
  \/ k \in {"deleteUnit", "deleteStorage"} /\ p \in {"get", "remove"}
  \/ k = "createStorage" /\ p = "write"

LEMMA MoveKeepsBase ==
  ASSUME BaseInv, NEW r \in Requests, MovesOn(r),
         req[r].kind \in Kinds, PlaceFor(req[r].kind, req'[r].pc),
         \/ req'[r].pc # "remove"
         \/ req[r].kind = "deleteUnit"
         \/ MountedBy(req[r].name) = {}
  PROVE  BaseInv'
<1> USE ServiceAssumption DEF BaseInv
<1>1. /\ req' \in [Requests -> Request]
      /\ \A q \in Requests : q # r => req'[q] = req[q]
      /\ req'[r].kind = req[r].kind /\ req'[r].name = req[r].name
  BY DEF MovesOn
<1>2. MutexHeld' /\ unitMu' \in [Processes -> Requests \cup {None}]
  <2>1. CASE unitMu' = unitMu /\ (InCriticalSection(r)' <=> InCriticalSection(r))
    BY <1>1, <2>1 DEF TypeOK, MutexHeld, InCriticalSection
  <2>2. CASE Lock(r)
    BY <1>1, <2>2 DEF TypeOK, MutexHeld, InCriticalSection, Lock, PlaceInv
  <2> QED
    BY <2>1, <2>2 DEF MovesOn
<1>3. TypeOK'
  BY <1>1, <1>2 DEF TypeOK, MovesOn
<1>4. PlaceInv'
  BY <1>1 DEF PlaceInv, PlaceFor, TypeOK
<1>5. VersionInv'
  BY <1>1 DEF VersionInv, MovesOn, TypeOK
<1>6. DeletionSeesOlderMounts'
  BY <1>1 DEF DeletionSeesOlderMounts, MovesOn, TypeOK, MountedBy
<1> QED
  BY <1>3, <1>4, <1>5, <1>6

LEMMA BaseStep == BaseInv /\ [Next]_vars => BaseInv'
<1> SUFFICES ASSUME BaseInv, [Next]_vars PROVE BaseInv'
  OBVIOUS
<1>1. ASSUME NEW r \in Requests, NEW k \in Kinds, NEW n \in Units \cup Storages,
             NEW o \in Operations \cup {None}, NEW ms \in SUBSET Storages,
             NEW p \in {"exist", "lock", "get", "write"}, Begin(r, k, n, o, ms, p),
             p = "exist" => k = "create",
             p = "lock" => k \in {"update", "edit"},
             p = "get" => k \in {"deleteUnit", "deleteStorage"},
             p = "write" => k = "createStorage",
             k \in {"create", "update", "edit", "deleteUnit"} => n \in Units,
             k \in {"createStorage", "deleteStorage"} => n \in Storages
      PROVE  BaseInv'
  BY <1>1, ServiceAssumption DEF Begin, BaseInv, TypeOK, PlaceInv, VersionInv,
     DeletionSeesOlderMounts, InCriticalSection, MutexHeld
<1>2. ASSUME NEW r \in Requests, ensureGPUStoragesExist(r) PROVE BaseInv'
  <2>1. CASE Return(r)
    BY <1>2, <2>1, QuietReturnKeepsBase DEF ensureGPUStoragesExist
  <2>2. CASE ~Return(r)
    <3>1. MovesOn(r)
      BY <1>2, <2>2 DEF ensureGPUStoragesExist, GoTo, MovesOn, BaseInv, TypeOK, PlaceInv, VersionInv,
         InCriticalSection
    <3>2. PlaceFor(req[r].kind, req'[r].pc) /\ req[r].kind \in Kinds
      BY <1>2, <2>2 DEF ensureGPUStoragesExist, GoTo, BaseInv, TypeOK, PlaceInv, PlaceFor
    <3>3. req'[r].pc # "remove" \/ req[r].kind = "deleteUnit" \/ MountedBy(req[r].name) = {}
      BY <1>2, <2>2 DEF ensureGPUStoragesExist, GoTo, BaseInv, TypeOK
    <3> QED
      BY <3>1, <3>2, <3>3, MoveKeepsBase
  <2> QED
    BY <2>1, <2>2
<1>3. ASSUME NEW r \in Requests, Lock(r) PROVE BaseInv'
  <2>1. MovesOn(r)
    BY <1>3 DEF Lock, MovesOn, BaseInv, TypeOK, VersionInv
  <2>2. /\ PlaceFor(req[r].kind, req'[r].pc) /\ req[r].kind \in Kinds
        /\ req'[r].pc # "remove"
    BY <1>3 DEF Lock, BaseInv, TypeOK, PlaceInv, PlaceFor
  <2> QED
    BY <2>1, <2>2, MoveKeepsBase
<1>4. ASSUME NEW r \in Requests, findExistingGPUUnitOperation(r) PROVE BaseInv'
  <2>1. CASE Return(r)
    BY <1>4, <2>1, QuietReturnKeepsBase DEF findExistingGPUUnitOperation
  <2>2. CASE ~Return(r)
    <3>1. MovesOn(r)
      BY <1>4, <2>2 DEF findExistingGPUUnitOperation, GoTo, MovesOn, BaseInv, TypeOK, PlaceInv, VersionInv,
         InCriticalSection
    <3>2. PlaceFor(req[r].kind, req'[r].pc) /\ req[r].kind \in Kinds
      BY <1>4, <2>2 DEF findExistingGPUUnitOperation, GoTo, BaseInv, TypeOK, PlaceInv, PlaceFor
    <3>3. req'[r].pc # "remove" \/ req[r].kind = "deleteUnit" \/ MountedBy(req[r].name) = {}
      BY <1>4, <2>2 DEF findExistingGPUUnitOperation, GoTo, BaseInv, TypeOK
    <3> QED
      BY <3>1, <3>2, <3>3, MoveKeepsBase
  <2> QED
    BY <2>1, <2>2
<1>5. ASSUME NEW r \in Requests, ensureGPUStoragesExclusivelyMountable(r) PROVE BaseInv'
  <2>1. CASE Return(r)
    BY <1>5, <2>1, QuietReturnKeepsBase DEF ensureGPUStoragesExclusivelyMountable
  <2>2. CASE ~Return(r)
    <3>1. MovesOn(r)
      BY <1>5, <2>2 DEF ensureGPUStoragesExclusivelyMountable, GoTo, MovesOn, BaseInv, TypeOK, PlaceInv, VersionInv,
         InCriticalSection
    <3>2. PlaceFor(req[r].kind, req'[r].pc) /\ req[r].kind \in Kinds
      BY <1>5, <2>2 DEF ensureGPUStoragesExclusivelyMountable, GoTo, BaseInv, TypeOK, PlaceInv, PlaceFor
    <3>3. req'[r].pc # "remove" \/ req[r].kind = "deleteUnit" \/ MountedBy(req[r].name) = {}
      BY <1>5, <2>2 DEF ensureGPUStoragesExclusivelyMountable, GoTo, BaseInv, TypeOK
    <3> QED
      BY <3>1, <3>2, <3>3, MoveKeepsBase
  <2> QED
    BY <2>1, <2>2
<1>6. ASSUME NEW r \in Requests, getActiveGPUUnit(r) PROVE BaseInv'
  <2>1. CASE Return(r)
    BY <1>6, <2>1, QuietReturnKeepsBase DEF getActiveGPUUnit
  <2>2. CASE ~Return(r)
    <3>1. MovesOn(r)
      BY <1>6, <2>2 DEF getActiveGPUUnit, MovesOn, BaseInv, TypeOK, PlaceInv, VersionInv,
         InCriticalSection
    <3>2. PlaceFor(req[r].kind, req'[r].pc) /\ req[r].kind \in Kinds
      BY <1>6, <2>2 DEF getActiveGPUUnit, BaseInv, TypeOK, PlaceInv, PlaceFor
    <3>3. req'[r].pc # "remove" \/ req[r].kind = "deleteUnit" \/ MountedBy(req[r].name) = {}
      BY <1>6, <2>2 DEF getActiveGPUUnit, BaseInv, TypeOK
    <3> QED
      BY <3>1, <3>2, <3>3, MoveKeepsBase
  <2> QED
    BY <2>1, <2>2
<1>7. ASSUME NEW r \in Requests, mountedGPUUnitsForStorage(r) PROVE BaseInv'
  <2>1. CASE Return(r)
    BY <1>7, <2>1, QuietReturnKeepsBase DEF mountedGPUUnitsForStorage
  <2>2. CASE ~Return(r)
    <3>1. MovesOn(r)
      BY <1>7, <2>2, SMTT(30) DEF mountedGPUUnitsForStorage, MovesOn, BaseInv, TypeOK, PlaceInv, VersionInv,
         InCriticalSection
    <3>2. PlaceFor(req[r].kind, req'[r].pc) /\ req[r].kind \in Kinds
      BY <1>7, <2>2 DEF mountedGPUUnitsForStorage, BaseInv, TypeOK, PlaceInv, PlaceFor
    <3>3. req'[r].pc # "remove" \/ req[r].kind = "deleteUnit" \/ MountedBy(req[r].name) = {}
      BY <1>7, <2>2 DEF mountedGPUUnitsForStorage, BaseInv, TypeOK
    <3> QED
      BY <3>1, <3>2, <3>3, MoveKeepsBase
  <2> QED
    BY <2>1, <2>2
<1>8. ASSUME NEW r \in Requests, createDRAAllocatedGPUUnit(r) PROVE BaseInv'
  <2> DEFINE u == req[r].name
             new == [op |-> req[r].op, mounts |-> req[r].mounts, version |-> clock + 1]
  <2>1. u \in Units /\ new \in Unit
    BY <1>8 DEF createDRAAllocatedGPUUnit, BaseInv, TypeOK, PlaceInv
  <2>2. \/ UNCHANGED <<active, unit, clock>>
        \/ /\ active' = active \cup {u}
           /\ clock' = clock + 1
           /\ unit' = [unit EXCEPT ![u] = new]
    BY <1>8 DEF createDRAAllocatedGPUUnit
  <2>3. UNCHANGED storages /\ new.version = clock + 1
    BY <1>8 DEF createDRAAllocatedGPUUnit
  <2> HIDE DEF u, new
  <2>4. WritesOnce
    BY <2>1, <2>2, <2>3 DEF WritesOnce, BaseInv, TypeOK
  <2> QED
    BY <1>8, <2>4, ReturnKeepsBase DEF createDRAAllocatedGPUUnit
<1>9. ASSUME NEW r \in Requests, updateGPUUnitObject(r) PROVE BaseInv'
  <2> DEFINE u == req[r].name
             next == IF req[r].kind = "edit" THEN unit[u].mounts ELSE req[r].mounts
             new == [op |-> unit[u].op, mounts |-> next, version |-> clock + 1]
  <2>1. u \in Units /\ next \in SUBSET Storages
    BY <1>9 DEF updateGPUUnitObject, BaseInv, TypeOK, PlaceInv
  <2>2. new \in Unit /\ new.version = clock + 1
    <3> HIDE DEF u, next
    <3> QED
      BY <2>1 DEF BaseInv, TypeOK
  <2>3. \/ UNCHANGED <<unit, clock>>
        \/ clock' = clock + 1 /\ unit' = [unit EXCEPT ![u] = new]
    BY <1>9 DEF updateGPUUnitObject
  <2>4. UNCHANGED <<active, storages>>
    BY <1>9 DEF updateGPUUnitObject
  <2> HIDE DEF u, next, new
  <2>5. WritesOnce
    BY <2>1, <2>2, <2>3, <2>4 DEF WritesOnce, BaseInv, TypeOK
  <2> QED
    BY <1>9, <2>5, ReturnKeepsBase DEF updateGPUUnitObject
<1>10. ASSUME NEW r \in Requests,
              \/ removeGPUUnit(r) \/ removeGPUStorage(r)
              \/ createGPUStorageObject(r) \/ RequestFails(r)
       PROVE  BaseInv'
  <2>1. WritesOnce /\ Return(r)
    BY <1>10 DEF removeGPUUnit, removeGPUStorage, createGPUStorageObject, RequestFails,
       WritesOnce, BaseInv, TypeOK, PlaceInv
  <2> QED
    BY <2>1, ReturnKeepsBase
<1>11. CASE UNCHANGED vars
  BY <1>11 DEF vars, BaseInv, TypeOK, PlaceInv, VersionInv, DeletionSeesOlderMounts,
     InCriticalSection, MutexHeld
<1> QED
  BY <1>1, <1>2, <1>3, <1>4, <1>5, <1>6, <1>7, <1>8, <1>9, <1>10, <1>11
     DEF Next, Step, CreateGPUUnit, UpdateGPUUnit, EditGPUUnit, DeleteGPUUnit,
         CreateGPUStorage, DeleteGPUStorage

\* The service's objects and requests are always well typed, and a request holds
\* unitMu exactly from Lock to the deferred Unlock, on any number of processes.
THEOREM TypeCorrect == Spec => []TypeOK
<1>1. BaseInv => TypeOK
  BY DEF BaseInv
<1> QED
  BY BaseInit, BaseStep, <1>1, PTL DEF Spec

\* DeleteGPUStorage, which holds no mutex, can only miss mounts that were written
\* after it read the mount index, on any number of processes.
THEOREM DeletionSeesWhatWasThere == Spec => []DeletionSeesOlderMounts
<1>1. BaseInv => DeletionSeesOlderMounts
  BY DEF BaseInv
<1> QED
  BY BaseInit, BaseStep, <1>1, PTL DEF Spec

-----------------------------------------------------------------------------
(* One process serves every request.                                       *)

SingleReplica == \A q, r \in Requests : ProcessOf[q] = ProcessOf[r]

\* A create that is past findExistingGPUUnitOperation: what it looked for is
\* still not there.
FindInv ==
  \A r \in Requests :
     req[r].kind = "create" /\ req[r].pc \in {"exclusive", "write"} =>
        /\ req[r].name \notin active
        /\ \A u \in active : unit[u].op # req[r].op

\* The storages a request has found free are still mounted by nobody else.
CheckedInv ==
  \A r \in Requests :
     req[r].kind \in {"create", "update"} /\ req[r].pc \in {"exclusive", "write"} =>
        /\ req[r].pc = "write" => req[r].todo = {}
        /\ \A s \in req[r].mounts \ req[r].todo, u \in active :
             s \in unit[u].mounts => req[r].kind = "update" /\ u = req[r].name

SerialInv == FindInv /\ CheckedInv /\ ExclusiveMount /\ OneUnitPerOperation

LEMMA OneInside ==
  ASSUME SingleReplica, TypeOK, NEW q \in Requests, NEW r \in Requests,
         InCriticalSection(q), InCriticalSection(r)
  PROVE  q = r
<1>1. unitMu[ProcessOf[q]] = q /\ unitMu[ProcessOf[r]] = r
  BY ServiceAssumption DEF TypeOK, MutexHeld
<1> QED
  BY <1>1 DEF SingleReplica

LEMMA SerialInit == Init => SerialInv
  BY DEF Init, SerialInv, FindInv, CheckedInv, ExclusiveMount, OneUnitPerOperation

\* A request that returns, with units only removed, leaves everything in place.
LEMMA ReturnKeepsSerial ==
  ASSUME BaseInv, SerialInv, NEW r \in Requests, Return(r),
         active' \subseteq active, UNCHANGED unit
  PROVE  SerialInv'
<1>1. /\ req'[r].kind = "none"
      /\ \A q \in Requests : q # r => req'[q] = req[q]
  BY DEF Return, BaseInv, TypeOK
<1>2. FindInv'
  BY <1>1 DEF SerialInv, FindInv
<1>3. CheckedInv'
  BY <1>1 DEF SerialInv, CheckedInv
<1>4. ExclusiveMount' /\ OneUnitPerOperation'
  BY DEF SerialInv, ExclusiveMount, OneUnitPerOperation
<1> QED
  BY <1>2, <1>3, <1>4 DEF SerialInv

\* A request in its critical section that writes a unit and returns: nobody else
\* is past a check that the write could overtake.
LEMMA WriteKeepsSerial ==
  ASSUME SingleReplica, BaseInv, SerialInv, NEW r \in Requests, Return(r),
         InCriticalSection(r), ExclusiveMount', OneUnitPerOperation'
  PROVE  SerialInv'
<1>1. /\ req'[r].kind = "none"
      /\ \A q \in Requests : q # r => req'[q] = req[q]
  BY DEF Return, BaseInv, TypeOK
<1>2. ASSUME NEW q \in Requests, q # r,
             req[q].kind \in {"create", "update"}, req[q].pc \in {"exclusive", "write"}
      PROVE  FALSE
  <2>1. InCriticalSection(q)
    BY <1>2 DEF InCriticalSection
  <2> QED
    BY <1>2, <2>1, OneInside DEF BaseInv
<1>3. FindInv' /\ CheckedInv'
  BY <1>1, <1>2 DEF FindInv, CheckedInv
<1> QED
  BY <1>3 DEF SerialInv

\* A request that moves on, with FindInv and CheckedInv true of it.
LEMMA MoveKeepsSerial ==
  ASSUME SerialInv, NEW r \in Requests, UNCHANGED <<active, unit>>,
         \A q \in Requests : q # r => req'[q] = req[q],
         req'[r].kind = "create" /\ req'[r].pc \in {"exclusive", "write"} =>
            /\ req'[r].name \notin active
            /\ \A u \in active : unit[u].op # req'[r].op,
         req'[r].kind \in {"create", "update"} /\ req'[r].pc \in {"exclusive", "write"} =>
            /\ req'[r].pc = "write" => req'[r].todo = {}
            /\ \A s \in req'[r].mounts \ req'[r].todo, u \in active :
                 s \in unit[u].mounts => req'[r].kind = "update" /\ u = req'[r].name
  PROVE  SerialInv'
<1>1. FindInv'
  BY DEF SerialInv, FindInv
<1>2. CheckedInv'
  BY DEF SerialInv, CheckedInv
<1>3. ExclusiveMount' /\ OneUnitPerOperation'
  BY DEF SerialInv, ExclusiveMount, OneUnitPerOperation
<1> QED
  BY <1>1, <1>2, <1>3 DEF SerialInv

LEMMA SerialStep ==
  SingleReplica /\ BaseInv /\ SerialInv /\ [Next]_vars => SerialInv'
<1> SUFFICES ASSUME SingleReplica, BaseInv, SerialInv, [Next]_vars PROVE SerialInv'
  OBVIOUS
<1>1. ASSUME NEW r \in Requests, NEW k, NEW n, NEW o, NEW ms,
             NEW p \in {"exist", "lock", "get", "write"}, Begin(r, k, n, o, ms, p),
             p = "write" => k = "createStorage"
      PROVE  SerialInv'
  BY <1>1, MoveKeepsSerial DEF Begin, BaseInv, TypeOK
<1>2. ASSUME NEW r \in Requests, ensureGPUStoragesExist(r) PROVE SerialInv'
  <2>1. CASE Return(r)
    BY <1>2, <2>1, ReturnKeepsSerial DEF ensureGPUStoragesExist
  <2>2. CASE ~Return(r)
    BY <1>2, <2>2, MoveKeepsSerial DEF ensureGPUStoragesExist, GoTo, BaseInv, TypeOK, PlaceInv
  <2> QED
    BY <2>1, <2>2
<1>3. ASSUME NEW r \in Requests, Lock(r) PROVE SerialInv'
  BY <1>3, MoveKeepsSerial DEF Lock, BaseInv, TypeOK
<1>4. ASSUME NEW r \in Requests, findExistingGPUUnitOperation(r) PROVE SerialInv'
  <2>1. CASE Return(r)
    BY <1>4, <2>1, ReturnKeepsSerial DEF findExistingGPUUnitOperation
  <2>2. CASE ~Return(r)
    BY <1>4, <2>2, MoveKeepsSerial DEF findExistingGPUUnitOperation, GoTo, BaseInv, TypeOK
  <2> QED
    BY <2>1, <2>2
<1>5. ASSUME NEW r \in Requests, ensureGPUStoragesExclusivelyMountable(r) PROVE SerialInv'
  <2>1. CASE Return(r)
    BY <1>5, <2>1, ReturnKeepsSerial DEF ensureGPUStoragesExclusivelyMountable
  <2>2. CASE ~Return(r)
    BY <1>5, <2>2, MoveKeepsSerial DEF ensureGPUStoragesExclusivelyMountable, GoTo,
       MountedBy, BaseInv, TypeOK, PlaceInv, SerialInv, FindInv, CheckedInv
  <2> QED
    BY <2>1, <2>2
<1>6. ASSUME NEW r \in Requests, getActiveGPUUnit(r) PROVE SerialInv'
  <2>1. CASE Return(r)
    BY <1>6, <2>1, ReturnKeepsSerial DEF getActiveGPUUnit
  <2>2. CASE ~Return(r)
    BY <1>6, <2>2, MoveKeepsSerial DEF getActiveGPUUnit, BaseInv, TypeOK
  <2> QED
    BY <2>1, <2>2
<1>7. ASSUME NEW r \in Requests, mountedGPUUnitsForStorage(r) PROVE SerialInv'
  <2>1. CASE Return(r)
    BY <1>7, <2>1, ReturnKeepsSerial DEF mountedGPUUnitsForStorage
  <2>2. CASE ~Return(r)
    BY <1>7, <2>2, MoveKeepsSerial DEF mountedGPUUnitsForStorage, BaseInv, TypeOK
  <2> QED
    BY <2>1, <2>2
<1>8. ASSUME NEW r \in Requests, createDRAAllocatedGPUUnit(r) PROVE SerialInv'
  <2>1. InCriticalSection(r) /\ Return(r)
    BY <1>8 DEF createDRAAllocatedGPUUnit, InCriticalSection
  <2>2. ExclusiveMount'
    BY <1>8 DEF createDRAAllocatedGPUUnit, BaseInv, TypeOK, PlaceInv, SerialInv, CheckedInv,
       ExclusiveMount
  <2>3. OneUnitPerOperation'
    BY <1>8 DEF createDRAAllocatedGPUUnit, BaseInv, TypeOK, PlaceInv, SerialInv, FindInv,
       OneUnitPerOperation
  <2> QED
    BY <2>1, <2>2, <2>3, WriteKeepsSerial
<1>9. ASSUME NEW r \in Requests, updateGPUUnitObject(r) PROVE SerialInv'
  <2>1. InCriticalSection(r) /\ Return(r)
    BY <1>9 DEF updateGPUUnitObject, InCriticalSection
  <2>2. ExclusiveMount'
    BY <1>9 DEF updateGPUUnitObject, BaseInv, TypeOK, PlaceInv, SerialInv, CheckedInv,
       ExclusiveMount
  <2>3. OneUnitPerOperation'
    BY <1>9 DEF updateGPUUnitObject, BaseInv, TypeOK, PlaceInv, SerialInv,
       OneUnitPerOperation
  <2> QED
    BY <2>1, <2>2, <2>3, WriteKeepsSerial
<1>10. ASSUME NEW r \in Requests,
              \/ removeGPUUnit(r) \/ removeGPUStorage(r)
              \/ createGPUStorageObject(r) \/ RequestFails(r)
       PROVE  SerialInv'
  BY <1>10, ReturnKeepsSerial DEF removeGPUUnit, removeGPUStorage, createGPUStorageObject,
     RequestFails
<1>11. CASE UNCHANGED vars
  BY <1>11 DEF vars, SerialInv, FindInv, CheckedInv, ExclusiveMount, OneUnitPerOperation
<1> QED
  BY <1>1, <1>2, <1>3, <1>4, <1>5, <1>6, <1>7, <1>8, <1>9, <1>10, <1>11
     DEF Next, Step, CreateGPUUnit, UpdateGPUUnit, EditGPUUnit, DeleteGPUUnit,
         CreateGPUStorage, DeleteGPUStorage

\* With one process, two active units never mount one storage: unitMu makes the
\* mount check and the write of CreateGPUUnit and UpdateGPUUnit one step.
THEOREM MountsAreExclusive == SingleReplica => (Spec => []ExclusiveMount)
<1> SUFFICES ASSUME SingleReplica PROVE Spec => []ExclusiveMount
  OBVIOUS
<1>1. BaseInv /\ SerialInv /\ [Next]_vars => (BaseInv /\ SerialInv)'
  BY BaseStep, SerialStep
<1>2. SerialInv => ExclusiveMount
  BY DEF SerialInv
<1> QED
  BY BaseInit, SerialInit, <1>1, <1>2, PTL DEF Spec

\* With one process, an operation ID is carried by at most one active unit, also
\* when requests with that ID differ in name.
THEOREM OperationsAreUnique == SingleReplica => (Spec => []OneUnitPerOperation)
<1> SUFFICES ASSUME SingleReplica PROVE Spec => []OneUnitPerOperation
  OBVIOUS
<1>1. BaseInv /\ SerialInv /\ [Next]_vars => (BaseInv /\ SerialInv)'
  BY BaseStep, SerialStep
<1>2. SerialInv => OneUnitPerOperation
  BY DEF SerialInv
<1> QED
  BY BaseInit, SerialInit, <1>1, <1>2, PTL DEF Spec
=============================================================================
