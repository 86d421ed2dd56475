---------------------------- MODULE UnitRequests ----------------------------
(***************************************************************************)
(* What the runtime API (pkg/api/server.go over pkg/service) and the       *)
(* activator make of create, update and delete requests: which ones they   *)
(* refuse, what is stored for the others, and whether the controller and   *)
(* the worker sidecar can use what is stored.                              *)
(*                                                                         *)
(* A request is handled in one step here; RuntimeService has the           *)
(* interleavings inside a request.  The activator's read of a template and *)
(* the creation of a worker from it are separate steps, and the API may be *)
(* restarted with another package catalogue at any time.                   *)
(***************************************************************************)
EXTENDS UnitContract

CONSTANTS Catalogues,      \* package catalogues of the API's configuration file
          CreateRequests,  \* bodies of POST /gpu-units
          UpdateRequests,  \* bodies of PUT /gpu-units/:name
          Names,           \* texts in the place of :name
          StorageNames,
          Invocations,     \* [id, requestID, suffix]: suffix as it is abbreviated in a name
          WorkerConfigs,   \* worker sidecar settings of the operator
          MaxUnits,        \* bound on the units alive at a time
          MaxEdits         \* bound on restarts, updates and changes of storages

VARIABLES units,       \* the GPUUnit objects
          storages,    \* the names of the GPUStorage objects
          catalogue,   \* the API's normalised catalogue
          offered,     \* every package it ever had
          inflight,    \* the create request the activator has built, if any
          answer,      \* to the create request of the last step, if it was one
          edits        \* restarts, updates and changes of storages so far

vars == <<units, storages, catalogue, offered, inflight, answer, edits>>

SpecFields == {"packageID", "fields", "image", "gpu", "allocation", "template", "access",
               "ssh", "serverless", "storageMounts"}

\* A valid name that is not cut makes a valid client name.
ClientNameFits(word) == word \notin Malformed => clientNameOf(Plain(word)).word \notin Malformed

\* The API's requests are bodies of JSON, which has no allocation (gpuunit.go:25).
\* Names that requests and invocations lead to have their place in the order.
ASSUME RequestAssumption ==
  /\ \A q \in CreateRequests :
       /\ DOMAIN q = SpecFields \cup {"operationID", "name"}
       /\ q.name \in Texts /\ q.name.word \in DOMAIN NameOrder /\ ClientNameFits(q.name.word)
       /\ q.allocation = NoAllocation
       /\ SSHBody(q.ssh) /\ ServerlessBody(q.serverless) /\ MountList(q.storageMounts)
  /\ \A q \in UpdateRequests :
       /\ \A s \in q.ssh : SSHBody(s)
       /\ \A s \in q.serverless : ServerlessBody(s)
       /\ \A m \in q.storageMounts : MountList(m)
  /\ \A i \in Invocations :
       LET worker == <<"unit">> \o i.requestID.word \o <<"worker", i.suffix>>
       IN  worker \in Seq(STRING) /\ worker \in DOMAIN NameOrder /\ ClientNameFits(worker)
  /\ \A c \in WorkerConfigs : /\ c.dispatchRetry.maxDeliver \in Int
                              /\ c.dispatchRetry.backoff \in Seq(Texts)
  /\ MaxEdits \in Nat

NoAnswer == [asked |-> {}, status |-> 0, unit |-> {}]

Init ==
  /\ units = {} /\ storages = StorageNames
  /\ \E c \in Catalogues : catalogue \in NormalizedCatalog(c)
  /\ offered = catalogue
  /\ inflight = {} /\ answer = NoAnswer /\ edits = 0

Edit ==
  /\ edits < MaxEdits
  /\ edits' = IF <<units', storages', catalogue'>> = <<units, storages, catalogue>> THEN edits ELSE edits + 1

\* A relative path says something else than the rooted one: it is refused.
CleanRooted(path) == IF path.form = "relative" THEN path ELSE Clean(path)

MountSaid(m) == <<ToLower(TrimSpace(m.name)), CleanRooted(TrimSpace(m.mountPath))>>
SaidMounts(ms) == {MountSaid(m) : m \in ToSet(ms)}

\* What a create request says, whatever its spelling and the order of mounts.
Said(raw) ==
  [operationID |-> TrimSpace(raw.operationID),
   name |-> ToLower(TrimSpace(raw.name)), packageID |-> ToLower(TrimSpace(raw.packageID)),
   rest |-> [f \in {"fields", "image", "gpu", "template", "access", "ssh", "serverless"} |-> raw[f]],
   mounts |-> SaidMounts(raw.storageMounts), count |-> Len(raw.storageMounts)]

-----------------------------------------------------------------------------
(***************************************************************************)
(* Answers.                                                                *)
(***************************************************************************)
\* writeServiceError
statusOf ==
  [validation |-> 400, notFound |-> 404, conflict |-> 409, capacity |-> 409, other |-> 500]

\* The answer of the API.  It is kept until the next step if it is one to a
\* create request: asked has what the request says.
Answer(asked, status, us) ==
  answer' = IF asked = {} THEN NoAnswer
            ELSE [asked |-> asked, status |-> status, unit |-> {u.name : u \in us}]

Refuse(asked, kind) ==
  /\ Answer(asked, statusOf[kind], {})
  /\ UNCHANGED units

-----------------------------------------------------------------------------
(***************************************************************************)
(* The service.                                                            *)
(***************************************************************************)
mountedGPUUnitsForStorage(s) ==
  {u \in units : \E i \in DOMAIN u.spec.storageMounts : u.spec.storageMounts[i].name = s}
ensureGPUStoragesExist(mounts) == \A i \in DOMAIN mounts : mounts[i].name \in storages
ensureGPUStoragesExclusivelyMountable(name, mounts) ==
  \A i \in DOMAIN mounts : \A u \in mountedGPUUnitsForStorage(mounts[i].name) : u.name = name

\* A unit from the normalised request n.  It is stored with the hash of n,
\* which stands for n itself.  The model remembers what the request said and
\* the package it was expanded from.
buildActiveUnitFromRequest(n, asked) ==
  [name |-> n.name, operationID |-> n.operationID, hash |-> n,
   spec |-> [f \in SpecFields |-> n[f]],
   asked |-> asked, package |-> Lookup(catalogue, n.packageID)]

\* The quota refuses the unit, or it is stored; the API server may answer with
\* an error all the same. A name that appears between the look-up and the write
\* needs a second process, the subject of RuntimeService.
createDRAAllocatedGPUUnit(asked, n) ==
  LET u == buildActiveUnitFromRequest(n, asked) IN
  \/ Refuse(asked, "capacity")
  \/ /\ Cardinality(units) < MaxUnits
     /\ units' = units \cup {u}
     /\ Answer(asked, 201, {u}) \/ Answer(asked, statusOf.other, {})

\* MUTANT of findExistingGPUUnitOperation: only the name is looked up.
findExistingByName(n) ==
  LET named == {u \in units : u.name = n.name}
  IN  IF \E u \in named : u.hash = n THEN [found |-> named, conflict |-> FALSE]
      ELSE [found |-> {}, conflict |-> named # {}]

findExistingGPUUnitOperation(n) ==
  LET same == {u \in units : u.operationID = n.operationID}
      named == {u \in units : u.name = n.name}
  IN  IF same # {} THEN IF \A u \in same : u.hash = n
                        THEN [found |-> same, conflict |-> FALSE]
                        ELSE [found |-> {}, conflict |-> TRUE]
      ELSE [found |-> {}, conflict |-> named # {}]

\* The storages are looked up before the operation is.
CreateNormalized(asked, n) ==
  LET existing == findExistingGPUUnitOperation(n) IN
  IF ~ensureGPUStoragesExist(n.storageMounts) THEN Refuse(asked, "notFound")
  ELSE IF existing.conflict THEN Refuse(asked, "conflict")
  ELSE IF existing.found # {} THEN Answer(asked, 200, existing.found) /\ UNCHANGED units
  ELSE IF ~ensureGPUStoragesExclusivelyMountable(Blank, n.storageMounts)
       THEN Refuse(asked, "conflict")
  ELSE createDRAAllocatedGPUUnit(asked, n)

\* Every read of the API server may fail.
CreateGPUUnit(asked, raw, catalog) ==
  LET normalized == NormalizeCreateGPUUnitRequest(raw, catalog) IN
  \/ normalized = {} /\ Refuse(asked, "validation")
  \/ \E n \in normalized : CreateNormalized(asked, n)
  \/ normalized # {} /\ Refuse(asked, "other")

\* MUTANT of updatedAccess: access stays unless the request has one.
updatedAccessIfGiven(spec, req, ports) ==
  IF IsZeroGPUUnitAccess(req.access) THEN {spec.access}
  ELSE NormalizeGPUUnitAccess(req.access, ports)

\* Without an access in the request the old one is kept if it fits the ports
\* and is the default one otherwise.
updatedAccess(spec, req, ports) ==
  LET given == ~IsZeroGPUUnitAccess(req.access)
      access == NormalizeGPUUnitAccess(IF given THEN req.access ELSE spec.access, ports)
  IN  IF access = {} /\ ~given THEN NormalizeGPUUnitAccess(NoAccess, ports) ELSE access

Given(p, old) == IF p = {} THEN old ELSE CHOOSE v \in p : TRUE

updatedSpecs(spec, req) ==
  LET template == IF IsZeroGPUUnitTemplate(req.template) THEN spec.template ELSE req.template
  IN  {[spec EXCEPT !.image = Default(req.image, @), !.template = template, !.access = access,
                    !.ssh = Given(req.ssh, @), !.serverless = Given(req.serverless, @),
                    !.storageMounts = Given(req.storageMounts, @)]
         : access \in updatedAccess(spec, req, template.ports)}

UpdateNormalized(u, req) ==
  LET specs == updatedSpecs(u.spec, req)
      write(s) == units' = (units \ {u}) \cup {[u EXCEPT !.spec = s]}
  IN  IF specs = {} THEN Refuse({}, "validation")
      ELSE IF \E m \in req.storageMounts : ~ensureGPUStoragesExist(m) THEN Refuse({}, "notFound")
      ELSE IF \E m \in req.storageMounts : ~ensureGPUStoragesExclusivelyMountable(u.name, m)
           THEN Refuse({}, "conflict")
      ELSE \E s \in specs :
             /\ IF s = u.spec THEN UNCHANGED units ELSE write(s)
             /\ Answer({}, 200, {}) \/ Answer({}, statusOf.other, {})

-----------------------------------------------------------------------------
(***************************************************************************)
(* The handlers of the API.                                                *)
(***************************************************************************)
\* The API starts again; a catalogue that is not valid stops it.
ConfigureRuntimePackages(c) ==
  /\ \E n \in NormalizedCatalog(c) : catalogue' = n /\ offered' = offered \cup n
  /\ answer' = NoAnswer
  /\ UNCHANGED <<units, storages, inflight>>
  /\ Edit

handleCreateGPUUnit(raw) ==
  /\ CreateGPUUnit({Said(raw)}, raw, catalogue)
  /\ UNCHANGED <<storages, catalogue, offered, inflight, edits>>

unitsNamed(name) == {u \in units : u.name \in NormalizeName(name)}

updatesOf(name, raw) == UNION {NormalizeUpdateGPUUnitRequest(n, raw) : n \in NormalizeName(name)}
updatesOfAll(name, raws) == UNION {updatesOf(name, raw) : raw \in raws}

\* The handler normalises the request and the service does it again.
handleUpdateGPUUnit(name, raw) ==
  LET once == updatesOf(name, raw)
      twice == updatesOfAll(name, once)
      found == unitsNamed(name)
  IN  /\ IF once = {} THEN Refuse({}, "validation")
         ELSE IF found = {} THEN Refuse({}, "notFound")
         ELSE IF twice = {} THEN Refuse({}, "validation")
         ELSE \/ \E u \in found, req \in twice : UpdateNormalized(u, req)
              \/ Refuse({}, "other")
      /\ UNCHANGED <<storages, catalogue, offered, inflight>>
      /\ Edit

handleDeleteGPUUnit(name) ==
  LET found == unitsNamed(name) IN
  /\ IF NormalizeName(name) = {} THEN Refuse({}, "validation")
     ELSE IF found = {} THEN Refuse({}, "notFound")
     ELSE \/ units' = units \ found /\ Answer({}, 204, {})
          \/ Refuse({}, "other")
  /\ UNCHANGED <<storages, catalogue, offered, inflight, edits>>

handleDeleteGPUStorage(s) ==
  /\ IF s \notin storages THEN Refuse({}, "notFound") /\ UNCHANGED storages
     ELSE IF mountedGPUUnitsForStorage(s) # {}
          THEN Refuse({}, "conflict") /\ UNCHANGED storages
     ELSE /\ storages' = storages \ {s}
          /\ Answer({}, 204, {})
          /\ UNCHANGED units
  /\ UNCHANGED <<catalogue, offered, inflight>>
  /\ Edit

\* A storage is its name here: its volume is the subject of StorageController.
handleCreateGPUStorage(s) ==
  /\ IF s \in storages THEN Refuse({}, "conflict") /\ UNCHANGED storages
     ELSE /\ storages' = storages \cup {s}
          /\ Answer({}, 201, {})
          /\ UNCHANGED units
  /\ UNCHANGED <<catalogue, offered, inflight>>
  /\ Edit

-----------------------------------------------------------------------------
(***************************************************************************)
(* The activator, a process of its own with a service and no catalogue.    *)
(***************************************************************************)
listServerlessUnits(id) == {u \in units : u.spec.serverless.enabled /\ u.spec.serverless.requestID = id}

\* A request ID has no underscore, which sanitizeWorkerNameToken would replace, and
\* is short enough for the name not to be cut.
generatedWorkerStem(id) == <<"unit">> \o id.word
isActivatorManagedWorker(u) ==
  /\ u.spec.serverless.requestID # Blank
  /\ IsStrictPrefix(generatedWorkerStem(u.spec.serverless.requestID) \o <<"worker">>, u.name.word)

\* The first unit by name that is no worker of the activator, or the first.
templateUnit(us) ==
  LET own == {u \in us : ~isActivatorManagedWorker(u)}
  IN  CHOOSE t \in (IF own = {} THEN us ELSE own) :
        \A u \in (IF own = {} THEN us ELSE own) : NameOrder[t.name.word] <= NameOrder[u.name.word]

workerRequest(spec, i) ==
  [operationID |-> Plain(<<"activate", i.id>>),
   name |-> Plain(generatedWorkerStem(spec.serverless.requestID) \o <<"worker", i.suffix>>),
   packageID |-> spec.packageID, fields |-> spec.fields, image |-> spec.image, gpu |-> spec.gpu,
   allocation |-> spec.allocation, template |-> spec.template, access |-> spec.access,
   ssh |-> spec.ssh, serverless |-> spec.serverless, storageMounts |-> spec.storageMounts]

\* MUTANT of buildCreateRequest: the worker shares the claim of its template.
buildCreateRequestWithClaim(t, i) == workerRequest(t.spec, i)

buildCreateRequest(t, i) == workerRequest([t.spec EXCEPT !.allocation.claimName = Blank], i)

\* acquireWorker has found no worker that is ready and waited in vain for one.
acquireWorker(i) ==
  LET us == listServerlessUnits(i.requestID) IN
  /\ inflight = {}
  /\ us # {}
  /\ inflight' = {[req |-> buildCreateRequest(templateUnit(us), i), from |-> templateUnit(us).spec]}
  /\ answer' = NoAnswer
  /\ UNCHANGED <<units, storages, catalogue, offered, edits>>

\* It calls CreateGPUUnit of its own service; the limit on pending activations
\* is the subject of WorkerPool.
createWorker ==
  \E c \in inflight :
    /\ CreateGPUUnit({}, c.req, {})
    /\ inflight' = {}
    /\ UNCHANGED <<storages, catalogue, offered, edits>>

Next ==
  \/ \E c \in Catalogues : ConfigureRuntimePackages(c)
  \/ \E q \in CreateRequests : handleCreateGPUUnit(q)
  \/ \E n \in Names, q \in UpdateRequests : handleUpdateGPUUnit(n, q)
  \/ \E n \in Names : handleDeleteGPUUnit(n)
  \/ \E s \in StorageNames : handleDeleteGPUStorage(s) \/ handleCreateGPUStorage(s)
  \/ \E i \in Invocations : acquireWorker(i)
  \/ createWorker

Spec == Init /\ [][Next]_vars

-----------------------------------------------------------------------------
(***************************************************************************)
(* Properties.                                                             *)
(***************************************************************************)
\* Unit names are unique, no operation owns two units, and the answers have
\* the statuses of the API.
TypeOK ==
  /\ \A u, v \in units : u # v => u.name # v.name /\ u.operationID # v.operationID
  /\ storages \subseteq StorageNames
  /\ catalogue \subseteq offered
  /\ Cardinality(inflight) <= 1 /\ edits \in 0..MaxEdits
  /\ answer.status \in {0, 200, 201, 204, 400, 404, 409, 500}

\* Whatever was created and updated, the controller accepts what is stored: the
\* access names a port of the template, the ssh and serverless specs resolve,
\* and the API, the activator and the controller agree on whether the unit is
\* serverless and under which request ID (runtime_unit_helpers.go).
StoredSpecsRender ==
  \A u \in units :
    /\ normalizeControllerGPUUnitAccess(u.spec.access, u.spec.template.ports) = {u.spec.access}
    /\ resolveUnitSSHSpec(u.name, u.spec.ssh) # {}
    /\ \E s \in resolveUnitServerlessSpec(u.spec.serverless) :
         /\ s.enabled = u.spec.serverless.enabled
         /\ s.enabled = unitServerlessEnabled(u.spec.serverless)
         /\ s.requestID = u.spec.serverless.requestID

\* A unit of a package has exactly the resources some configured version of
\* the package has, and so do the workers cloned from it, although the
\* activator has no catalogue to check them against (package_catalog.go,
\* NormalizeCreateGPUUnitRequestWithCatalog).
PackagedUnitsMatchCatalog ==
  \A u \in units : \E p \in offered :
    /\ p.id = u.spec.packageID
    /\ p.fields = u.spec.fields /\ p.gpu = u.spec.gpu
    /\ p.allocation = [u.spec.allocation EXCEPT !.claimName = Blank]

\* No two units ask for the same resource claim, workers and their templates
\* included (buildCreateRequest, NormalizeDRAAllocation).
ClaimsAreExclusive ==
  \A u, v \in units : u # v => u.spec.allocation.claimName # v.spec.allocation.claimName

\* A create request that repeats one whose unit exists is answered with that
\* unit, unless a read of the API server fails, even when the first answer was an error, the unit was updated since,
\* or the request is spelled otherwise (README.md:673).  It takes that the
\* package did not change and that the storages it names still exist.
RetryIsRecognised ==
  [][\A u \in units :
       ( /\ answer'.asked = u.asked /\ u.asked # {}
         /\ Lookup(catalogue, u.spec.packageID) = u.package
         /\ ensureGPUStoragesExist(u.hash.storageMounts) )
       => /\ units' = units
          /\ answer'.status \in {200, 500}
          /\ answer'.status = 200 => answer'.unit = {u.name}]_vars

\* The same for every retry, as README.md:673 has it.  The code does not: it
\* looks the storages up first (unit_service.go:35) and hashes the package.
EveryRetryIsRecognised ==
  [][\A u \in units : answer'.asked = u.asked /\ u.asked # {} => answer'.status \in {200, 500}]_vars

\* What the controller makes of a spec, apart from the names of the unit's own.
Rendered(spec) ==
  [resources |-> <<spec.packageID, spec.fields, spec.gpu, [spec.allocation EXCEPT !.claimName = Blank]>>,
   image |-> spec.image, template |-> spec.template, access |-> spec.access,
   ssh |-> spec.ssh, mounts |-> spec.storageMounts,
   serverless |-> resolveUnitServerlessSpec(spec.serverless)]

\* A worker runs what the unit it was cloned from ran when it was read, though
\* its spec was normalised once more on the way (activator/service.go:311).
CloneIsFaithful ==
  [][\A c \in inflight \ inflight' : \A w \in units' \ units : Rendered(w.spec) = Rendered(c.from)]_vars

\* Units with ssh register different domains at the FRP server.  Workers do not:
\* the domain made up for the template from its name (gpuunit_types.go:162) is
\* stored, and copied into the worker's request as if it had been given.
SSHDomainsAreDistinct ==
  \A u, v \in units :
    u # v /\ u.spec.ssh.enabled /\ v.spec.ssh.enabled
      => u.spec.ssh.text["clientDomain"] # v.spec.ssh.text["clientDomain"]

\* The configuration a serverless unit's sidecar loads from its environment is
\* the one the operator was given: same request ID, paths and port, the same
\* number of deliveries and the same delay before each (desiredUnitServerlessSidecar,
\* workersidecar/config.go).
RenderedConfigSurvives ==
  \A u \in units, c \in WorkerConfigs :
    u.spec.serverless.enabled =>
      \A n \in NormalizedWorkerConfig(c), env \in desiredUnitServerlessSidecar(u.name, u.spec.serverless, c) :
        \E got \in LoadConfigFromEnv(env), s \in resolveUnitServerlessSpec(u.spec.serverless) :
          /\ got.workerName = u.name /\ got.healthPort = n.healthPort
          /\ \A f \in {"requestID", "socketPath", "invokePath", "healthPath"} : got[f] = s[f]
          /\ got.dispatchRetry.maxDeliver = n.dispatchRetry.maxDeliver
          /\ \A d \in 1..n.dispatchRetry.maxDeliver :
               DelayForDelivery(got.dispatchRetry, d)
                 = BackoffDurations(n.dispatchRetry)[IF d <= Len(n.dispatchRetry.backoff) THEN d
                                                     ELSE Len(n.dispatchRetry.backoff)]
=============================================================================
