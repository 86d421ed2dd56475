--------------------------- MODULE RuntimeService ---------------------------
(***************************************************************************)
(* The write side of the runtime API (pkg/service): concurrent requests    *)
(* that create, update and delete GPUUnit and GPUStorage objects in the    *)
(* Kubernetes API server.  A request is served by one process (a           *)
(* runtime-api replica, or the activator, which embeds the same service);  *)
(* unitMu is a mutex of that process.  Each read and each write of the API *)
(* server is a step of its own; the clients are not cached.                *)
(*                                                                         *)
(* Responses are left out: a create that finds a unit of its operation     *)
(* returns it when the request hash matches and a conflict otherwise, and  *)
(* writes nothing either way.                                              *)
(***************************************************************************)
EXTENDS Naturals

CONSTANTS Requests,    \* requests that are served, each once
          Processes,   \* processes that embed the service
          ProcessOf,   \* the process that serves a request
          Units,       \* GPUUnit names
          Storages,    \* GPUStorage names
          Operations,  \* operation IDs of create requests
          None

ASSUME ServiceAssumption ==
  /\ ProcessOf \in [Requests -> Processes]
  /\ None \notin Requests
  /\ Units \cap Storages = {}

VARIABLES active,      \* names of the GPUUnit objects that exist
          unit,        \* for each of them: operation ID, storage mounts, resource version
          storages,    \* names of the GPUStorage objects that exist
          clock,       \* the API server's resource version
          unitMu,      \* the request that holds the mutex of each process
          req          \* each request: where it is and its locals

vars == <<active, unit, storages, clock, unitMu, req>>

Unit == [op : Operations \cup {None}, mounts : SUBSET Storages, version : Nat]

Kinds == {"create", "update", "edit", "deleteUnit", "createStorage", "deleteStorage"}
Places == {"new", "exist", "lock", "find", "get", "exclusive", "write",
           "remove", "done"}

Request == [pc : Places, kind : Kinds \cup {"none"},
            name : Units \cup Storages \cup {None}, op : Operations \cup {None},
            mounts : SUBSET Storages, todo : SUBSET Storages, base : Nat]

NewRequest ==
  [pc |-> "new", kind |-> "none", name |-> None, op |-> None, mounts |-> {},
   todo |-> {}, base |-> 0]

Init ==
  /\ active = {}
  /\ unit = [u \in Units |-> [op |-> None, mounts |-> {}, version |-> 0]]
  /\ storages \in SUBSET Storages
  /\ clock = 0
  /\ unitMu = [p \in Processes |-> None]
  /\ req = [r \in Requests |-> NewRequest]

\* Request r is at place p.
At(r, p) == req[r].pc = p

\* MUTANT of Return: the mutex is not freed.
ReturnLocked(r) ==
  /\ req' = [req EXCEPT ![r] = [NewRequest EXCEPT !.pc = "done"]]
  /\ UNCHANGED unitMu

\* Request r returns; the deferred Unlock frees the mutex if r holds it.
Return(r) ==
  /\ req' = [req EXCEPT ![r] = [NewRequest EXCEPT !.pc = "done"]]
  /\ unitMu' = [p \in Processes |-> IF unitMu[p] = r THEN None ELSE unitMu[p]]

\* Request r goes on to place p, where it looks at each storage of ss.
GoTo(r, p, ss) ==
  /\ req' = [req EXCEPT ![r].pc = p, ![r].todo = ss]
  /\ UNCHANGED unitMu

-----------------------------------------------------------------------------
(* Requests.                                                               *)

Begin(r, k, n, o, ms, p) ==
  /\ At(r, "new")
  /\ req' = [req EXCEPT ![r] = [pc |-> p, kind |-> k, name |-> n, op |-> o,
                                mounts |-> ms, todo |-> ms, base |-> 0]]
  /\ UNCHANGED <<active, unit, storages, clock, unitMu>>

\* The storages are looked up before the mutex is taken.
CreateGPUUnit(r, u, o, ms) == Begin(r, "create", u, o, ms, "exist")
UpdateGPUUnit(r, u, ms) == Begin(r, "update", u, None, ms, "lock")

\* An update that leaves storageMounts out and changes other fields.
EditGPUUnit(r, u) == Begin(r, "edit", u, None, {}, "lock")

DeleteGPUUnit(r, u) == Begin(r, "deleteUnit", u, None, {}, "get")
CreateGPUStorage(r, s) == Begin(r, "createStorage", s, None, {}, "write")
DeleteGPUStorage(r, s) == Begin(r, "deleteStorage", s, None, {}, "get")

-----------------------------------------------------------------------------
(* Checks.                                                                 *)

\* MUTANT of ensureGPUStoragesExist: an update goes on to write at once.
ensureGPUStoragesExistOnly(r) ==
  /\ At(r, "exist")
  /\ \/ /\ req[r].todo = {}
        /\ IF req[r].kind = "create" THEN GoTo(r, "lock", {}) ELSE GoTo(r, "write", {})
     \/ \E s \in req[r].todo :
          IF s \in storages THEN GoTo(r, "exist", req[r].todo \ {s}) ELSE Return(r)
  /\ UNCHANGED <<active, unit, storages, clock>>

ensureGPUStoragesExist(r) ==
  /\ At(r, "exist")
  /\ \/ /\ req[r].todo = {}
        /\ IF req[r].kind = "create" THEN GoTo(r, "lock", {})
                                     ELSE GoTo(r, "exclusive", req[r].mounts)
     \/ \E s \in req[r].todo :
          IF s \in storages THEN GoTo(r, "exist", req[r].todo \ {s}) ELSE Return(r)
  /\ UNCHANGED <<active, unit, storages, clock>>

Lock(r) ==
  /\ At(r, "lock")
  /\ unitMu[ProcessOf[r]] = None
  /\ unitMu' = [unitMu EXCEPT ![ProcessOf[r]] = r]
  /\ req' = [req EXCEPT ![r].pc = IF req[r].kind = "create" THEN "find" ELSE "get"]
  /\ UNCHANGED <<active, unit, storages, clock>>

\* MUTANT of findExistingGPUUnitOperation: only the name is looked up.
findExistingByName(r) ==
  /\ At(r, "find")
  /\ IF req[r].name \in active THEN Return(r) ELSE GoTo(r, "exclusive", req[r].mounts)
  /\ UNCHANGED <<active, unit, storages, clock>>

\* A unit of the same operation (replay, or conflict when the hash differs) or
\* of the same name (conflict) ends the request.
findExistingGPUUnitOperation(r) ==
  /\ At(r, "find")
  /\ IF req[r].name \in active \/ \E u \in active : unit[u].op = req[r].op
     THEN Return(r)
     ELSE GoTo(r, "exclusive", req[r].mounts)
  /\ UNCHANGED <<active, unit, storages, clock>>

\* storageMountIndex: the units that mount s, now.
MountedBy(s) == {u \in active : s \in unit[u].mounts}

\* An update may keep what its own unit mounts.
ensureGPUStoragesExclusivelyMountable(r) ==
  LET own == IF req[r].kind = "update" THEN {req[r].name} ELSE {}
  IN  /\ At(r, "exclusive")
      /\ \/ req[r].todo = {} /\ GoTo(r, "write", {})
         \/ \E s \in req[r].todo :
              IF MountedBy(s) \subseteq own
              THEN GoTo(r, "exclusive", req[r].todo \ {s})
              ELSE Return(r)
      /\ UNCHANGED <<active, unit, storages, clock>>

\* getActiveGPUUnit: an update works on the object read here.
getActiveGPUUnit(r) ==
  /\ At(r, "get") /\ req[r].kind \in {"update", "edit", "deleteUnit"}
  /\ IF req[r].name \notin active
     THEN Return(r)
     ELSE /\ req' = [req EXCEPT
               ![r].base = unit[req[r].name].version,
               ![r].pc = CASE req[r].kind = "update" -> "exist"
                           [] req[r].kind = "edit" -> "write"
                           [] req[r].kind = "deleteUnit" -> "remove",
               ![r].todo = req[r].mounts]
          /\ UNCHANGED unitMu
  /\ UNCHANGED <<active, unit, storages, clock>>

\* MUTANT of mountedGPUUnitsForStorage: the mount index is not consulted.
skipMountCheck(r) ==
  /\ At(r, "get") /\ req[r].kind = "deleteStorage"
  /\ IF req[r].name \notin storages
     THEN Return(r)
     ELSE /\ req' = [req EXCEPT ![r].pc = "remove", ![r].base = clock]
          /\ UNCHANGED unitMu
  /\ UNCHANGED <<active, unit, storages, clock>>

\* DeleteGPUStorage reads the storage and the mount index; no mutex is held.
mountedGPUUnitsForStorage(r) ==
  /\ At(r, "get") /\ req[r].kind = "deleteStorage"
  /\ IF req[r].name \notin storages \/ MountedBy(req[r].name) # {}
     THEN Return(r)
     ELSE /\ req' = [req EXCEPT ![r].pc = "remove", ![r].base = clock]
          /\ UNCHANGED unitMu
  /\ UNCHANGED <<active, unit, storages, clock>>

-----------------------------------------------------------------------------
(* Writes.                                                                 *)

\* operator.Create: the API server refuses a name that exists.
createDRAAllocatedGPUUnit(r) ==
  LET u == req[r].name
  IN  /\ At(r, "write") /\ req[r].kind = "create"
      /\ IF u \in active
         THEN UNCHANGED <<active, unit, clock>>
         ELSE /\ active' = active \cup {u}
              /\ clock' = clock + 1
              /\ unit' = [unit EXCEPT ![u] = [op |-> req[r].op, mounts |-> req[r].mounts,
                                              version |-> clock + 1]]
      /\ Return(r)
      /\ UNCHANGED storages

\* operator.Update: the API server refuses an object whose version is not the
\* one that was read.  An update that changes nothing is not written.
updateGPUUnitObject(r) ==
  LET u == req[r].name
      next == IF req[r].kind = "edit" THEN unit[u].mounts ELSE req[r].mounts
  IN  /\ At(r, "write") /\ req[r].kind \in {"update", "edit"}
      /\ IF /\ u \in active
            /\ unit[u].version = req[r].base
            /\ req[r].kind = "edit" \/ next # unit[u].mounts
         THEN /\ clock' = clock + 1
              /\ unit' = [unit EXCEPT ![u] = [op |-> unit[u].op, mounts |-> next,
                                              version |-> clock + 1]]
         ELSE UNCHANGED <<unit, clock>>
      /\ Return(r)
      /\ UNCHANGED <<active, storages>>

\* operator.Delete removes whatever carries the name by now.
removeGPUUnit(r) ==
  /\ At(r, "remove") /\ req[r].kind = "deleteUnit"
  /\ active' = active \ {req[r].name}
  /\ Return(r)
  /\ UNCHANGED <<unit, storages, clock>>

removeGPUStorage(r) ==
  /\ At(r, "remove") /\ req[r].kind = "deleteStorage"
  /\ storages' = storages \ {req[r].name}
  /\ Return(r)
  /\ UNCHANGED <<active, unit, clock>>

createGPUStorageObject(r) ==
  /\ At(r, "write") /\ req[r].kind = "createStorage"
  /\ storages' = storages \cup {req[r].name}
  /\ Return(r)
  /\ UNCHANGED <<active, unit, clock>>

\* A call of the API server fails, the quota check refuses a create, or the
\* process dies: the request ends and its mutex is free.  (One that waits for
\* the mutex makes no call that could fail.)
RequestFails(r) ==
  /\ req[r].pc \notin {"new", "lock", "done"}
  /\ Return(r)
  /\ UNCHANGED <<active, unit, storages, clock>>

Step(r) ==
  \/ ensureGPUStoragesExist(r) \/ Lock(r) \/ findExistingGPUUnitOperation(r)
  \/ ensureGPUStoragesExclusivelyMountable(r) \/ getActiveGPUUnit(r)
  \/ mountedGPUUnitsForStorage(r)
  \/ createDRAAllocatedGPUUnit(r) \/ updateGPUUnitObject(r) \/ removeGPUUnit(r)
  \/ createGPUStorageObject(r) \/ removeGPUStorage(r) \/ RequestFails(r)

Next ==
  \E r \in Requests :
     \/ \E u \in Units, ms \in SUBSET Storages :
          UpdateGPUUnit(r, u, ms) \/ \E o \in Operations : CreateGPUUnit(r, u, o, ms)
     \/ \E u \in Units : EditGPUUnit(r, u) \/ DeleteGPUUnit(r, u)
     \/ \E s \in Storages : CreateGPUStorage(r, s) \/ DeleteGPUStorage(r, s)
     \/ Step(r)

Spec == Init /\ [][Next]_vars

\* Every request goes on; calls of the API server and sync.Mutex do not block
\* for ever.
FairSpec == Spec /\ \A r \in Requests : WF_vars(Step(r))

-----------------------------------------------------------------------------
(* Properties.                                                             *)

\* The part of a request that runs between Lock and the deferred Unlock.
InCriticalSection(r) ==
  \/ req[r].kind = "create" /\ req[r].pc \in {"find", "exclusive", "write"}
  \/ req[r].kind \in {"update", "edit"} /\ req[r].pc \in {"get", "exist", "exclusive", "write"}

MutexHeld ==
  \A r \in Requests, p \in Processes :
     unitMu[p] = r <=> InCriticalSection(r) /\ p = ProcessOf[r]

\* Type invariant of the API objects and of the requests; a request holds the
\* mutex of its process exactly while it is in its critical section.
TypeOK ==
  /\ active \subseteq Units
  /\ unit \in [Units -> Unit]
  /\ storages \subseteq Storages
  /\ clock \in Nat
  /\ unitMu \in [Processes -> Requests \cup {None}]
  /\ req \in [Requests -> Request]
  /\ MutexHeld

\* One active unit owns a storage: ensureGPUStoragesExclusivelyMountable and
\* the write that follows it are not torn apart by other requests.
ExclusiveMount ==
  \A a, b \in active : a # b => unit[a].mounts \cap unit[b].mounts = {}

\* At most one active unit carries an operation ID, whatever names and payloads
\* concurrent create requests with that ID have.
OneUnitPerOperation ==
  \A a, b \in active : unit[a].op = unit[b].op => a = b

\* A storage deletion can only miss a mount that was written after its look at
\* the mount index: whoever mounted the storage before blocks it.
DeletionSeesOlderMounts ==
  \A r \in Requests, u \in active :
     At(r, "remove") /\ req[r].kind = "deleteStorage" /\ req[r].name \in unit[u].mounts
       => unit[u].version > req[r].base

\* README.md: "Storage deletion is blocked by the API while an active GPUUnit
\* still references that storage."
DeletionBlockedWhileMounted ==
  [][\A s \in storages : s \notin storages' => MountedBy(s) = {}]_vars

\* Every request that was begun returns: no request waits for unitMu for ever.
RequestsReturn == \A r \in Requests : ~At(r, "new") ~> At(r, "done")
=============================================================================
