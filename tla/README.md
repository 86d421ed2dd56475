# A TLA+ model of gpu-operator-runtime

gpu-operator-runtime runs GPU workloads on Kubernetes. A REST API writes `GPUUnit` and
`GPUStorage` objects, controllers turn them into Deployments, Services, volume claims and jobs,
and a serverless path carries invocations through NATS JetStream to worker pods and their
results to ScyllaDB. The modules in this directory model the parts of it in which several
processes act on shared state; TLC checks them on small instances and TLAPS proves the main
results for every instance.

## 1. The system

| Part | State it keeps | Operations | Interacts with |
|---|---|---|---|
| Queue consumer loop (`pkg/serverless/nats.go`) | position of each message in a JetStream durable consumer; dead-letter subject | fetch, decode, handle, Ack, Nak with delay, dead-letter and Term | used by the activator, the sidecars and the result store |
| Serverless ingress (`pkg/service/serverless_service.go`, `nats.go`) | reply subscriptions of synchronous callers | publish an invocation, wait for a reply | invocation stream |
| Activator (`pkg/activator`) | worker registry, metric table | `ProcessInvocation`, `acquireWorker`, lifecycle reconcile, `HandleWorkerMetric` | API server (creates and deletes units), invocation, dispatch, result and metric subjects |
| Worker sidecar (`pkg/workersidecar`) | in-flight counter | `HandleDispatch`, heartbeats | dispatch, result and metric subjects, the framework container |
| Result store (`pkg/resultconsumer`, `pkg/resultstore`) | one row per invocation | `HandleResult` | result subject |
| Runtime API service (`pkg/service`) | `unitMu`; the objects themselves live in the API server | create, update, delete of units; create, resize, recover, delete of storages | API server; embedded in the API replicas and in the activator |
| GPUStorage controller (`internal/controller/gpustorage_controller.go`) | status; claim, prepare job, accessor | `Reconcile` | API server |
| GPUUnit controller (`internal/controller/gpuunit_controller.go`) | status; Service, key file, device claim, egress policy, Deployment | `Reconcile` | API server; reads storages and pods without watching them |
| Contracts and packages (`pkg/contract`), HTTP handlers (`pkg/api`) | the package catalogue | normalise, refuse and expand requests, map errors to status codes | the service; the controller and the activator read what they stored |
| Retry policy and sidecar settings (`pkg/serverless/reliability.go`, `worker_config.go`, `pkg/workersidecar/config.go`) | none that changes | normalise, write to and read from the environment | the operator writes, the sidecar reads |
| Proxy, telemetry, other configuration, image accelerator | none that changes | pure or read-only | |

What makes the code hard to test:

* Every queue is at least once: answers get lost, AckWait expires under a slow handler, and a
  process may die at any point, also on the last delivery the server grants.
* One invocation crosses three queues, and each retry of one may repeat work in the next. The
  message IDs are what keeps repetition harmless, but only for the stream's duplicates window
  (24 h by default), while messages live longer (72 h).
* Checks and writes against the API server are separate steps. A mutex serialises some of them
  in one process; the manifests start two API replicas, and the activator embeds the same
  service.
* Controllers read a cache and act on what they read; a job, a claim or a source storage may
  change between two reconciles.
* One spec is normalised by the API, by the controller, by the sidecar and, for a worker cloned
  from a unit, by the API's code again in the activator. They have to agree on every spec that a
  sequence of requests can store, and a retry is recognised only if normalisation is stable.

PROJECT.json lists the hazards one by one, with the property that would notice each.

## 2. Modules

```
AtLeastOnce            what a queue promises
  ^ refined by
DeliveryQueue          consumeJSONMessages over a JetStream durable consumer
  ^ instantiated three times by
InvocationPipeline     API -> activator -> sidecar -> result store
WorkerPool             the activator's workers for one request ID
RuntimeService         unit and storage requests on one or more API processes
StorageController      GPUStorage objects and their controller
UnitController         a GPUUnit and its controller
PackageCatalog         texts, runtime packages and their expansion
  ^ extended by
SidecarConfig          retry policy and sidecar settings, written and read back
  ^ extended by
UnitContract           create and update requests; the controller's view of a stored spec
  ^ extended by
UnitRequests           what API and activator store and answer, with failures and restarts
<module>Proofs         theorems about DeliveryQueue, InvocationPipeline, WorkerPool, RuntimeService,
                       StorageController, UnitController and UnitRequests, and lemmas about the
                       normalisers of UnitContract
MC<module>             instances for TLC
```

Operators marked MUTANT are faulty variants of the definition they name. No specification uses
them; putting one in place of the original shows that the property it is kept for can fail.

### DeliveryQueue

State: per message its place at the server (`status`: absent, waiting, out to a process, gone),
the number of deliveries, and what happened to it (handled, dead-lettered, cut off); per process
the step of `consumeJSONMessages` it is at and the delivery it holds. A message is a pair of a
message ID and a number: while the duplicates window of an ID lasts, publishing it again stores
nothing; once it has ended (`WindowEnds`, counted in `lapsed`) the same ID makes a new message
(`Copy`), `MaxCopies` of them at most. `MessageExpires` is the stream's `MaxAge`. One action per step of the
loop: `Fetch`, `HandlerOK`, `HandlerErr`, `Ack`, `NakWithDelay`, `publishDeadLetter`, `Term`,
plus `AnswerLost` (Ack, Nak and Term are core NATS publications whose error is only logged),
`AckWaitExpires` (the server's timer) and `Crash`. An answer that reaches the server for a delivery
it has already replaced changes nothing. The delay of a Nak is abstracted: a message that waits
may be delivered at any time. The metadata of a delivery is taken to be readable:
`deliveryCount` falls back to 1 when it is not, which JetStream messages never meet.

`AtLeastOnce` is the abstract queue: a message is delivered at most `MaxDeliver` times and leaves
the queue handled, dead-lettered, expired or, on its last delivery only, cut off.

### InvocationPipeline

Three instances of `DeliveryQueue` (`IQ` invocations, `DQ` dispatches, `RQ` results) and the
handlers between them. A message's identity is the message ID the code gives it: an invocation,
a pair (invocation, worker), an invocation. Results may be stored a second time after the
duplicates window of their ID (`ForgetResultId`, `MaxCopiesR`); `Expire` drops messages of all
three streams where `MayExpire` is set. For invocations and dispatches the window is left out
(`NeverLapses`): an ID used again after a day is a new invocation, and a dispatch repeated after a
day runs once more, as a second worker's does. `ProcessInvocation` is split where it touches shared
state: `acquireWorker` picks a live worker or fails; `dispatchToWorker` publishes, and may fail
after the stream has stored the message (`dispatchUnconfirmed`). `HandleDispatch` is `Invoke`
(the call of the framework container and its outcome), `PersistResult` (js.Publish with
deduplication) and the reply. Workers are created and deleted at any time; a deleted worker's
dispatches stay in the stream.

### RuntimeService

The API server holds units and storages; a request is one call of the service on one process
(`ProcessOf`). Each request is at one step: the lookup of the storages (before the mutex), the
wait for `unitMu`, the idempotency lookup, the mount check, the write. `DeleteGPUStorage` reads
the mount index and then deletes, without the mutex. Every object carries the version at which it
was written, the model's measure of "after". `RequestFails` ends a request at any step: an error
of the API server, a failed validation or quota check.

### WorkerPool

The pool of one serverless request ID. `unit` is what the API server holds, `registry` and
`table` are the activator's memory (`WorkerRegistry.entries`, `LifecycleManager.workers`).
`acquireWorker` is split where it lists, waits and creates: `listServerlessUnits`, sync, pick, wait
for the first pending worker, create within the pending limit, wait for the created one,
dispatch. The read that finds a worker ready and the registration (`registerReady`) are two steps.
An error gives the delivery back (`finishErr`): after `MaxDeliver` of them the invocation is
dead-lettered. The lifecycle goroutine lists, syncs, prewarms (`ensureMinAvailable`) and deletes idle
workers one at a time (`removeIdleWorker`); metrics arrive in any order, again or never. Units
become ready, unready, fail and are deleted by users; `MaxDisturbed` bounds the last three. A
deletion removes the object only: its pod, and the sidecar in it, goes on consuming until the
garbage collector ends it (`SidecarStops`). A call may always fail, for instance every create from a
template that mounts storages, whose clone asks for the same ones. Time is a counter that
advances only where a comparison with a timeout can tell.

### StorageController

Several `GPUStorage` objects, because one may be copied from another. Reconcile is split where it
reads or writes the API server: claim, prepare job, accessor, status. The prepare digest is the
pair (spec, recovery nonce) that the code hashes. The cluster binds claims, runs jobs, deletes
finished ones after their TTL, starts accessors and collects garbage. An object just created
may be missing from the controller's cache (`unseen`). Owned objects carry the uid of their
owner, which the code does not look at. The accessor's Deployment is written in every reconcile
that finds it (`updateAccessorDeployment`): the template wanted is compared with one that has the
API server's defaults, which never equals it; when the Deployment has changed since it was
read, the write is a conflict and the storage is marked Failed. Service and Deployment are one
object here: they are looked up in this order, and nothing reads the Service.

The comparison before a status write clears `lastTransitionTime` in the very slice that is
written, although the CRDs require it. `AcceptsBareConditions` says whether the API server takes
such a status; the runs have it TRUE, as the fake client of the repository's tests does, and
section 6 says what happens otherwise. `UnitController` has the same constant.

### UnitController

One `GPUUnit`, since units are reconciled independently. A spec is a record of what the code
tells apart: image, ports, sidecars, whether the package has device selectors, and why it cannot
be rendered. The five owned objects (service, key file, claim, policy, deployment) are
reconciled in the order of the code, one step each (`partUnchanged`, `partWritten`,
`partRefused`), from cached copies that lag behind the API server (`cache`, `stale`); a write
with an outdated copy is refused. `DeepEqual` says what `reflect.DeepEqual` says of a stored object
and the one just built: a Deployment always differs, since the API server completes its pod
template, and so does a claim without selectors. `serving` is the template of the pod that is
available, `failing` the container that keeps the newest pod from starting. An edit that does
not render stands for what `kubectl` or an older API version can leave in an object. A unit
is `Stranded` when it was marked for a missing storage, the storage is back and nothing is queued:
Reconcile returned nil after marking it, and storages are not watched.

### PackageCatalog, SidecarConfig, UnitContract

Operators, one per normaliser of the code. A text is a word and a form, the way it is written:
with spaces, in capitals, with a leading dot, a path without its slash or not clean. So trimming,
lowering, `path.Clean`, joining and splitting do what they do in the code, without characters.
A normaliser returns a set: empty where the code returns a `ValidationError`, with several members
where the outcome depends on the order in which Go walks a map (capacity keys that differ in
their spaces). Numbers, quantities and durations are those of the constants.

### UnitRequests

A request is normalised, checked against units and storages and answered in one step; the
interleavings inside a request are RuntimeService's subject. `units` holds for each unit its spec,
the hash of its request (the normalised request itself) and, for the properties only, what the
request said and the package it was expanded from. `ConfigureRuntimePackages` is a restart of
the API with another catalogue. `acquireWorker` and `createWorker` are the activator's read of a
template and the creation of a worker from it; in between the template may be updated or
deleted. A failed call answers 500, and a failed write may have been stored all the same. Length
limits of names are not modelled.

## 3. Runs

| Run | Question | Bounds |
|---|---|---|
| queue | Can a message vanish, be delivered again after its dead letter, break `AtLeastOnce` or stay unsettled? | 2 messages under one ID, the second undecodable and after the duplicates window; 2 processes; 3 deliveries |
| pipeline_results | When is a stored result replaced, when a caller answered? | 1 synchronous invocation, 1 worker, 2 result stores, deliveries 1/2/2, 2 copies of a result, expiry |
| pipeline_ends | Is an invocation ever lost, is repeated work bounded, does every invocation end where somebody sees it? | 1 invocation, 1 worker, 1 result store, deliveries 2/2/1, no expiry |
| service_one_process | With one process: exclusive mounts, unique operations, what a deletion can miss; does every request return? | 3 requests, 2 unit names, 1 storage, 2 operation IDs |
| service_two_replicas | *violated*: exclusive mounts with two processes | 2 requests |
| storage_image | Does a storage serve only what a job has filled, and is a recorded success final? | 1 storage filled from an image, 1 edit, 1 fault, deletion |
| storage_live | The same for a copy; does every storage reach what its spec asks for? | 2 storages, the second copied from the first, no edits, 2 faults |
| pool_activate | Is the number of workers under way bounded? Is a delivery ever given back before a worker was asked for? Is every invocation settled? | 2 invocations of 3 deliveries, one goroutine, 3 unit names, limit 1, 2 disturbances |
| pool_idle | Does idle deletion keep the minimum, is nothing dispatched to a deleted worker? | 1 invocation, 2 unit names, minimum 1, 3 instants |
| unit | Are pods always isolated, does no status of an old spec land on a new one, does the unit converge? | 2 generations of 3 specs, 1 fault |
| unit_claim | *violated*: does a unit without device selectors converge? | 1 spec, no fault |
| contract | Are retries recognised, clones faithful, claims and resources right, and can controller and sidecar use whatever is stored? | 5 create and 4 update requests, 2 units alive, 4 catalogues, 2 storages, 1 invocation, 2 edits |

Bounds. The races are between a message's current holder and a former one, so two processes and
two deliveries show them; the third delivery separates "last" from "not first". pipeline_results
has what can make two results of one invocation meet: a dispatch that runs twice, two replicas,
each result delivered twice, a window that ends. One outcome is enough there: a result names its
handler and its execution, so those of two runs differ anyway, and no guard reads the outcome.
pipeline_ends gives invocation and dispatch a first delivery that may be lost and a last one;
redelivery of results is the same loop, whose liveness run queue checks with three deliveries. Both
runs have one worker; several workers, outcomes, copies and deliveries are covered by the proofs of
section 5. In the service a race needs two requests on one storage and a third to get in between. A
pending limit of 1 is reached with two invocations, and two disturbances are a worker that
fails and a template that vanishes, or the loss of both units an invocation waits for. In contract two units are a template and its
worker, and two edits are an update and the deletion of the storage it freed, two updates in a
row, or a restart and an update; the requests cover every spelling, an override of the package,
an operation used twice and updates that lose the primary port. In the controllers one edit is what a reconcile in progress can
miss, and one fault (a failed call, a crash, a lost object, pod or storage) can hit any step; the
storages of a unit start ready in run unit and pending in unit_claim. `MaxGen`, `MaxEdits`,
`MaxUid`, `MaxFaults`, `MaxTime` and `MaxMetrics` bound what would be unbounded.

Symmetry (of the two result stores) and a view are used in pipeline_results only, which has no
liveness property. The view identifies states that differ in how a message was closed, in the
delivery count of a closed one and in histories, none of which a step or its properties read.

`CHECK_DEADLOCK FALSE` appears where the system may stop: all messages settled, all requests
answered, a deleted object collected. Both pipeline runs check for deadlocks.

## 4. Fairness

* `DeliveryQueue`: weak fairness of each process's loop and of the server's timer, strong fairness
  of fetching a message: the processes poll, and the server delivers what waits in the order of
  the stream, so a message that is available again and again is fetched in the end. The loop
  blocks only on the server and the handlers run under contexts with timeouts; the container is
  restarted by its Deployment. Crashes and lost answers are not fair, but the delivery limit
  bounds them.
* `InvocationPipeline`: the same for the three kinds of processes. `EveryInvocationEnds` has two
  conditions. Workers stay up from some point on, since a dispatch to a deleted worker waits in the
  stream without a consumer. And no process dies on a last delivery and nothing reaches MaxAge,
  since neither leaves a trace; crashes on earlier deliveries are not excused. Without the
  conditions the statement is `NoTracelessEnd` of section 6.
* `RuntimeService`: weak fairness of each request's own steps, the wait for `unitMu` included;
  the number of requests is finite, so nobody waits behind an endless stream of others.
* `WorkerPool`: weak fairness of the consumer, for whichever invocation it fetches next, and of
  the handler's next step: every wait has a deadline. Nothing is assumed of units becoming ready,
  of calls that succeed or of the order of deliveries, so invocations may end as dead letters; what
  `NoInvocationBlocks` excludes is one that holds the only goroutine for ever.
* `StorageController`: weak fairness of the reconcile in progress, of the watch and of the
  cluster; strong fairness of `StartReconcile` for each storage, since one worker alternates
  between them in the order of the queue. `PromptReconcile` is an assumption about time: a
  finished job's TTL (300 s) outlasts the reconcile that records its result. `Converges` excepts
  a storage that is left with an error of its prepare step for ever (`AlwaysConverges`, section 6).
* `UnitController`: weak fairness of the reconcile, of each watch and of the garbage collector.
  Pods and storages need not make progress; the status has to tell what they do. A unit that
  is `Stranded` is excepted (`UnitRecovers`, section 6).

## 5. Proofs

`DeliveryQueueProofs`, for any set of messages and processes and any `MaxDeliver >= 1`:
`TypeCorrect`, `NoMessageDroppedSilently`, `DeadLetteredStaysDead` and
`QueueRefinesAtLeastOnce`. None of the properties is inductive by itself. `QueueInv` adds what a
process's step says about the message it holds (`ProcessInv`: it is at `term` only if the
dead letter is stored, at `ack` only if the handler returned), what the server's state says about
the record (`ServerInv`, `RecordInv`) and that a dead letter of a decodable payload is only
written on the last delivery (`LastDeliveryInv`): that is what makes it final, since the server
delivers nothing after it.

`RuntimeServiceProofs`, for any requests, storages, names and operation IDs:
`TypeCorrect` and `DeletionSeesWhatWasThere` hold for any number of processes;
`MountsAreExclusive` and `OperationsAreUnique` assume `SingleReplica`, that all requests are
served by one process. `BaseInv` ties the version a request has read to the versions of the
objects; `SerialInv` says that what the holder of `unitMu` has established (`FindInv`: no active
unit has its operation ID; `CheckedInv`: nobody else mounts its storages) still holds when it
writes, because no other request is in a critical section. service_two_replicas shows that
the assumption is needed.

`InvocationPipelineProofs`, for any invocations, workers, processes and delivery limits of the three
streams: `TypeCorrect`, `QueuesAreDeliveryQueues`, `InvocationsAreNotLost`,
`StoredResultsAreStable`, `RetriesAreBounded` and `RepliesFollowPersistence`. Every step of the
pipeline is a step or a stutter of each queue, so `QueueInv` of the three instances is available
(`QueuesInv`) and only what links the queues had to be found: what a handler holds between its
steps (`HandInv`), that executions and dispatches are paid for by deliveries (`ExecutionInv`,
`FanOutInv`: while the activator works on an invocation, one of its deliveries is not spent yet), that a message handled in one stream has left its successor
in the next (`ChainInv`: this is "publish before Ack") and that the row holds a result the stream
has stored, a second of which exists only after the window of the first (`ResultInv`).
`NoInvocationLost` then follows the chain with `NoSilentDrop` of each queue.

`UnitControllerProofs`, for any specs, generations and faults: `TypeCorrect`,
`StatusFollowsSpec` and `PodsStayIsolated`. `UnitInv` consists of `ShapeInv` (the reconcile's step
says what it has read), `CacheInv` (a cached copy that is not the API server's object has an
event under way) and `AppliedInv` (the objects the reconcile has dealt with carry its spec, unless
an event about them is under way or the unit is queued again). `PodsStayIsolated` rests on
`GuardInv`, that the order of the parts puts claim and policy before the Deployment, and assumes
`OnlyOwnerDeletesGuards`, that claim and policy are not in `Losable`, as in run unit: what somebody
else deletes is missing until the next reconcile, and no order of writes could prevent that.

`WorkerPoolProofs`, for any invocations, names and times: `TypeCorrect`, `PendingWorkersBounded`,
`DeletedWorkersGetNoDispatch`, `DeliveriesAreNotWasted`, `DeletionCostsNoMore` and
`DeletionsKeepMinimum`. The bound on deliveries rests on `DeliveryInv`: an unsettled invocation has
a delivery left, or the goroutine is at work on its last. `ScaledInv` carries
`DeliveriesAreNotWasted`: a list that shows a managed unit, and a create that was made or refused,
are traces of a pool that was scaled up, and they last. `PendingInv` says
that the workers activation has on the way are all pending in the list the invocation goroutine
took, however old it is: that goroutine alone creates them. `GoneInv` says that what the
lifecycle goroutine deleted is in no list taken since, and not in the registry between a Sync and
the Pick after it. `MinimumInv` names the units that a deletion relies on: until it deletes, the
units ready in its list and no longer ready are at most as many as were disturbed; while it
deletes, a set of at least the minimum is outside its victims and only disturbed units of it are
not ready. `DeletionCostsNoMore` states what follows, each disturbance costing at most one ready
unit; `DeletionsKeepMinimum` is the case without them (`MaxDisturbed = 0`), as the comment of the
property has it.

`StorageControllerProofs`, for any storages, sources, edits and faults: `TypeCorrect`, and
`ClaimsAreFilledFirst` and `RecordedSuccessesStay` where names are used once
(`NamesUsedOnce`, `MaxUid = 1`). The assumption is needed: with a second use the new storage adopts
its predecessor's claim and job, which is the divergence `ContentIsReady` of section 6. `ShapeInv`
ties the step of the reconcile to what it has read. `OnceInv` is what a name used once gives: all
owned objects belong to the one storage of that name, and what the reconcile has read is that
storage or a former state of it. `FilledInv` says that a job that has succeeded, a recorded
success and a Ready status each imply a filled claim, for the source of a copy too and also when
the source has been deleted since; `RecordInv` that a recorded digest is the one of a job that is
over, so that neither its TTL nor a status lost to a conflict starts it again.

`UnitRequestsProofs`, for any catalogues, requests, invocations, settings and restarts: `TypeCorrect`,
`PackagesAreKept`, `ClaimsStayExclusive`, `SpecsRender`, `SidecarsAreConfigured`,
`ClonesAreFaithful` and `RetriesAreRecognised`, that is every property of run contract. Three
inductive invariants carry them:

* `RequestsInv`: every package ever offered is in normal form, the resources of a stored unit are
  those of such a package under a claim named after the unit (`ProperUnit`), and the request the
  activator has built is the same with its claim left blank (`ProperRequest`). A claim's name
  determines its unit's, and a template exists among the units found, since names are ranked.
* `NormalInv`: every stored spec is one that another normalisation leaves alone (`NormalSpec`; a
  framework path that means the root is the exception, and the controller reads both forms the
  same), every name makes a valid ssh client name, and the activator's request says what the spec
  it read said (`NormalClones`), whatever has become of the template since. Updates are normalised
  twice and merged into the old spec part by part; the access has to fit the ports that result.
  `SpecsRender` and `SidecarsAreConfigured` follow state by state, `ClonesAreFaithful` from the
  step that creates the worker.
* `KnownInv`: whoever says what a unit's request said, in whatever spelling and with the mounts in
  whatever order, gets the normal form that the unit's hash was taken from, given the same package
  (`KnownUnit`), and a catalogue names a package once. That sorting forgets the order only of
  lists without repetitions is why `SameMounts` compares lengths: a list of as many mounts as there
  are different ones has none. With unique operation IDs, the look-up finds the unit and nothing
  else.

The lemmas about single normalisers are in `UnitContractProofs`: each of template, access, ssh,
serverless settings and mounts, normalised once, stays as it is and is accepted by the
controller, and `SidecarReads` follows a configuration through the environment and back. Two of
them are about sequences the code builds element by element. What sorting by rank returns
(`InOrder`) is a counting argument: the numbers of smaller members are an injection of the set
into 0..N-1, hence onto it. That joining delays that have no commas and splitting them again
changes nothing (`JoinKeeps`) needs an induction, which is done by the least counterexample in a
set of numbers (`LeastNumber`).

The assumptions: `RequestAssumption` says that requests have the fields of the code's structs with
values of their types and no allocation (`json:"-"`), that names have a rank in the order of
strings, and that a valid name makes a valid ssh client name (`ClientNameFits`). The last holds for
names of up to 42 characters, which `prefixedRuntimeName` does not cut after `ssh-` and the
namespace; a longer one that is cut right after a dot does not satisfy it, and lengths are not
modelled. `NameOrderAssumption` says that the order of names is total, and `DurationAssumption`
that no text `time.ParseDuration` accepts has a comma.

The inductive invariants were checked with TLC, on instances like those of section 3, before
they were proved.

Left to TLC: the liveness properties (`EveryMessageSettled`, `EveryInvocationEnds`,
`RequestsReturn`, `NoInvocationBlocks`, `Converges`, `UnitConverges`), which the prover does
not reach. Every other property of a passing run is proved.

## 6. Divergences

With a run of their own:

* service_two_replicas: `unitMu` is local to a process while two API replicas run; README.md:678
  promises 409.
* unit_claim: `desiredDRASelectors` returns an empty slice where the stored claim has none, so
  from the second reconcile on a unit of a package without selectors, as in both shipped
  catalogs, is Failed with `UnitDRAClaimSyncFailed` (unit_dra_helpers.go:142).

The modules also state what the following documents say; TLC refutes each statement with the
constants given (others as in the module's passing runs).

| Statement | What happens | Constants |
|---|---|---|
| `DeliveryQueue!QueuedWorkPreserved` (README.md:230) | a message whose last delivery is cut off by a crash is neither handled nor dead-lettered | `MaxDeliver = 2` |
| `DeliveryQueue!OneDeadLetterRecord` (README.md:369) | the dead letter of an undecodable payload has the time in its message ID, and a redelivery stores a second one | `MaxDeliver = 2` |
| `InvocationPipeline!ReplyIsPersistedResult` (nats.go:222) | a dispatch executed again answers its caller with a result other than the stored one | as pipeline_results |
| `InvocationPipeline!ResultNeverReplaced` (README.md:369) | a result published again after the duplicates window is stored as a new message and replaces the row a client may have read | as pipeline_results |
| `InvocationPipeline!NoTracelessEnd` (README.md:230) | a crash on a last delivery, or a worker that is deleted with its dispatch waiting, ends an invocation without result and without dead letter | as pipeline_ends |
| `RuntimeService!DeletionBlockedWhileMounted` (README.md:675) | the deletion's check is not atomic with the deletion, and a create looks its storages up before it takes the mutex | 2 requests, one process |
| `StorageController!ContentIsReady` (gpustorage_types.go:60) | a storage created again under its name adopts its predecessor's claim and finished job | `MaxUid = 2`, `NoEdits`, else as storage_image |
| `StorageController!AttemptsAreRequested` (gpustorage_types.go:63) | a failed job is deleted by its TTL and started again without a recovery request | `NoEdits`, nothing deletable, else as storage_image |
| `StorageController!SeededOnce` (README.md:665) | a copy whose source is not Ready for a while forgets its success and is copied again | as storage_live |
| `StorageController!AlwaysConverges` (gpustorage_controller.go:47) | a failed call in the prepare step is recorded as an invalid spec, not returned and not retried | as storage_live |
| `StorageController!Converges`, `UnitController!UnitConverges` | an API server that validates the CRDs (gpustorages.yaml:172, gpuunits.yaml:332) refuses every status with conditions, since their times were cleared (gpustorage_controller.go:462, gpuunit_controller.go:383): no status is ever written | `AcceptsBareConditions = FALSE`, else as storage_live and unit |
| `WorkerPool!MinAvailableEnforced` (lifecycle.go:103) | prewarm names of one request ID are equal for 28 hours, so a second prewarm worker is refused | `MinAvailable = 3`, as pool_idle |
| `WorkerPool!IdleTimeoutEnforced` (lifecycle.go:103) | a worker created again under a name inherits its predecessor's last activity and is deleted at once | `MinAvailable = 0`, `MaxTime = 3`, as pool_idle |
| `UnitController!UnitRecovers` (gpuunit_controller.go:59) | a unit marked for a missing or unreadable storage is not reconciled when the storage is back | as unit |
| `UnitController!SSHReadyIsServed` (gpuunit_types.go:70) | during a rolling update the old pod, without SSH, counts as available | as unit, `MaxFaults = 0` |
| `UnitRequests!EveryRetryIsRecognised` (README.md:673) | a retry gets 404 when the storage it names was unmounted by an update and deleted since, and 409 when the package was changed since | as contract |
| `UnitRequests!SSHDomainsAreDistinct` (gpuunit_types.go:162) | a worker cloned from a unit with ssh keeps the domain that was made up from the other unit's name | as contract |

Also met while modelling, outside what the modules tell apart: a heartbeat interval of `0s` passes
both normalisations and panics in `time.NewTicker` (workersidecar/service.go:213); names are cut at
63 characters after a prefix was added (runtime_unit_helpers.go:830); a framework path `//` is
stored as `/` by a create and as the default by an update, which normalises twice (the controller
takes the default in both cases); an update with nothing but a scheme puts the primary port back to
the first one.

## 7. Not modelled, and the plan

Not modelled: the content of rendered Kubernetes objects beyond what comparisons, ssh and sidecar
settings need, the contract of storages and invocations, the handlers that only read, the proxy,
telemetry, the configuration of the other processes, image acceleration and generated code; they
keep no state and ordinary tests reach them.
controller-runtime lists everything again once in a while (its default is about ten hours, the
repository does not set it); the model has no such resync, so "for ever" in section 6 means until
then or until an edit. Names are taken to be short and without the characters that
`sanitizeWorkerNameToken` replaces: neither its substitutions nor its cut are modelled.

Planned, in this order:

1. A second synchronous caller of one invocation in `InvocationPipeline`, whose reply subject no
   message carries.
2. A mounted storage and a unit together: `UnitController` over `StorageController`'s promises
   instead of the three states of `storage`.
3. The length of names: what `prefixedRuntimeName` cuts, and with it the part of `ClientNameFits`
   that is assumed.
