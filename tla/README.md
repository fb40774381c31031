# TLA+ models of the Composable DRA Driver

The Composable DRA Driver is a single Go process that keeps asking a fabric
manager which devices of each PCIe fabric are free, publishes them to Kubernetes
as DRA `ResourceSlice`s, one pool per device model and fabric, and labels every
node with the fabric its machine is on, so that the scheduler offers a node the
devices it could be given. This directory holds models of it in TLA+, runs that
check them with TLC and proofs that TLAPS checks. Paths below are relative to
the repository's root.

## The system

| Component | State | Operations | Interacts with |
|---|---|---|---|
| Main goroutine (`main.go`, `Action`) | the signal channel, `ctx`, `errChan` | start the manager in a goroutine, wait for a signal or the manager's end, cancel, wait for the cleanup | manager: `ctx`, `errChan` |
| Manager startup (`StartCDIManager`) | none that outlives it | build clients, start caches, read the ConfigMap, start a slice controller per driver; any failure ends the process | all others |
| Scan loop (`startCheckResourcePoolLoop`) | the locals of the scan under way | read caches, ask FM and CM, update pools, hand them over, label nodes; any failed question abandons the scan | caches, clients, pools, controllers, API server |
| Resource pools (`namedDriverResources`) | pools with devices and generation | `initDriverResources`, `updatePool`, `generatePool` | scan loop writes, controllers are handed copies |
| Slice controllers (`k8s.io/dynamic-resource-allocation`, library) | desired pools, work queue | `StartController`, `Update`, `Stop`; create and delete slices | API server |
| Cleanup (`cleanupResourceSlices`) | slices still to delete | stop the controllers, list per driver, delete | API server |
| Node and BareMetalHost caches (`pkg/kube_utils`) | informer stores | start and sync, `ListProviderIDs`, `FindNodeNameByProviderID`, `FindMachineUUIDByProviderID` | API server, scan loop |
| FM and CM clients (`pkg/client`) | none (HTTP) | `GetFMMachineList`, `GetFMAvailableReservedResources`, `GetCMNodeGroups`, `GetCMNodeGroupInfo`, `GetCMNodeDetails` | token source |
| IM token source (`pkg/client/token.go`) | the cached token | `Token` | caches (secret), identity manager |
| Configuration (`pkg/config`, flags) | read once per life | option checks, `GetDeviceInfos`, `GetLabelPrefix` | startup, caches (ConfigMap) |
| Deployment (`deployment.yaml`) | replicas, update strategy | rolling update, restart | kubelet |

What is hard about it:

- *The world moves during a scan.* A scan is a series of questions, one after
  another, about things that change: nodes come and go, machines move between
  fabrics, devices are attached, node groups change members. An answer is used
  together with older answers.
- *Scans are abandoned half way.* Pools are changed in memory, then handed over,
  then nodes are labelled one by one; each question and each label may fail.
- *Versions.* Readers of a pool tell newer from older slices by the generation.
- *Ends and new beginnings.* A signal may arrive during startup, in a scan or
  between scans; a crash skips the cleanup; the next life starts with empty maps
  and generation 1 beside the slices of the one before.
- *Copies.* Nodes, ConfigMap and Secret are read from informer caches that are empty at
  first and lag later; labels are written back with such a copy. Options, ConfigMap
  and certificate are read once and kept for the life of the process.
- *Time.* Tokens age while they are cached and while a request carries them; a rotation
  may fail for long; a signal does not reach a call to the identity manager.
- *Two processes.* In a rolling update the new process publishes while the old one
  still runs and then cleans up, under the same driver and pool names.

What makes the components correct:

| Component | Correct when | Where |
|---|---|---|
| pools and hand-over | no change of a pool stays unannounced | `ControllersInformed` |
| pools | a reader can tell versions apart: generation 1 first, plus one exactly when the devices change, never gone | `PoolViewKept` |
| pools | a scan publishes all it found, or nothing | `ScanIsOneStep` |
| scan loop | a labelled node finds all pools of its fabric | `LabelBacked` |
| scan loop | one undisturbed scan makes labels and counts right, later ones keep them right, and so they settle on what the managers report | `ScansSettle`, `LimitsSettle`, `EventuallyAccurate`, `EventuallyOwnLimits` |
| scan loop | in a world where no scan can succeed, scans change nothing | `UnscannableUntouched` |
| main, manager, cleanup | a process told to stop does, and leaves nothing behind but what failed calls were about | `ShutdownEnds`, `CleanExit` |
| manager, controllers, cleanup | the process that remains gets its pools, and nothing else, published; they stay | `IdleHavePublished`, `PublishedStays`, `EventuallyPublished` |
| cleanup | only slices of the process's own pools are deleted; only its own slices | `CleanupSparesPools`; `CleanupSparesOthers` (does not hold) |
| start | only sound settings are scanned with; they are the cluster's; no process ends without a cause; a restart cures what is cured | `SoundSettings`, `RunsAsConfigured`, `EndsForCause`, `EventuallyRuns` |
| token source | a token is fresh when it can be, an expired one is used for a cause only | `FreshWhenPossible`, `ExpiresForCause`, `Recovers` |
| token source | the wait for a token holds up a stop once at most | `StopIsPrompt` |
| caches | no lookup before the cache has synced | `ScansKnowNodes`; `ScansKnowHosts` (does not hold) |
| caches, labels | an update from a stale copy undoes nothing, and every node gets its label and keeps it | `OthersKept`, `LabelsSettle`, `EventuallyLabelled` |
| labels | no node keeps the label of a fabric it has left | `EventuallyNoFalseLabel` (does not hold) |

## The modules

| Module | What it is |
|---|---|
| `ResourcePools` | operators on pools, shared by the modules that run code |
| `PoolView` | abstract: what readers of the pools may rely on |
| `ResourcePoolLoop` | the scan loop in a changing world; implements `PoolView` |
| `DriverLifecycle` | processes, goroutines, controllers and cleanup |
| `Startup` | what a process reads when it starts: options, discovery, Secret, ConfigMap |
| `TokenSource` | the IM token and the calls that carry it, over time |
| `NodeCache` | the informers and the label updates, with resource versions |
| `QuietScans`, `QuietLabels` | `ResourcePoolLoop` and `NodeCache` with history: what one undisturbed scan achieves |
| `MCResourcePoolLoop`, `MCQuietScans`, `MCDriverLifecycle`, `MCStartup`, `MCNodeCache`, `MCQuietLabels` | small instances for TLC |
| `ResourcePools_proofs`, `ResourcePoolLoop_proofs`, `DriverLifecycle_proofs`, `Startup_proofs`, `TokenSource_proofs`, `NodeCache_proofs`, `QuietScans_proofs`, `QuietLabels_proofs` | lemmas and theorems |

The modules look at one system from several sides, and each leaves out what another
has. `ResourcePoolLoop` is a whole scan with every answer it uses; its lookups see the
nodes as they are. `NodeCache` has the caches between the two and only the part of
a scan that reads and writes nodes. `TokenSource` is the inside of each of
`ResourcePoolLoop`'s calls to the FM and the CM: what may come out is an answer or a
failure, `APICallFails` there. `DriverLifecycle` has the whole of a life, with scans as single
steps; `Startup` is the inside of its `StartController` and `StartupFails`.

Definitions whose names end in `_` and a word (`updatePool_skipsEmpty`,
`LoopEnds_never`, ...) are faulty variants of the definition after them: plausible
mistakes each property must be able to tell from the code. Nothing else uses them.

### ResourcePools

A pool is named by the pair of its model (its place in `deviceInfos`) and its
fabric. The code concatenates `k8sDeviceName`, `-fabric` and the number of the
fabric, which no two pairs share because the configuration rejects two models with
one name. Of a pool's content the model keeps the number of devices and the
generation: the devices are numbered copies of one another, and attributes, binding
conditions and node selector are functions of the pool's name. `scannedPools` is
the double loop of `manageCDIResourceSlices` over machines and models;
`needUpdate` its map of changed drivers; `handedOver` what `Update` leaves.

### ResourcePoolLoop

| State | Code |
|---|---|
| `nodeStore`, `bmhStore` | the Node and BareMetalHost objects, as the informer stores show them |
| `fabricOf`, `free` | FM: machine list, available reserved resources |
| `members`, `specs` | CM: node groups and the resspecs of a machine |
| `labels` | the driver's labels on the nodes: fabric, size bounds per model |
| `pools` | `m.namedDriverResources` |
| `desired` | the pools the slice controllers were last handed |
| `scan` | the step the scan is at and its local variables; a local that is not read again is dropped |
| `upsets` | counts failures and changes of the world (bound) |

Each question to a cache, the FM, the CM or the API server is one action, so
anything may change between any two answers. The actions are in the order of the
code: `ListProviderIDs`; for every provider id, in any order (a map is ranged over),
`FindNodeNameByProviderID` and, with `UseCapiBmh`, `FindMachineUUIDByProviderID`;
`getMachineList`; with `UseCM`, `getNodeGroups` and one `getNodeGroupInfo` per group;
`CreateMachines` (in any order, again a map); `getAvailableNums` for the first machine
of each fabric and every model; `getMinMaxNums` for the first machine of each node
group and every model; `manageCDIResourceSlices`; one `LabelNode` per machine. A
`Labels` value of `None` stands for a label that was never set; the label per model that a
pool's node selector also asks for is written by nobody in `src/` and is left out. Every early
return of the code is the disjunct that sets `scan` to `NoScan`: no provider id, no
machine UUID, no machine on a fabric, two nodes with one provider id, a machine the
FM has forgotten, a count above 128 (here `MaxDevices`); a call that fails or times
out is `APICallFails`. Node changes are limited to what the API server permits: a
provider id is set once, and a deleted node takes its labels with it.

### DriverLifecycle

| State | Code |
|---|---|
| `main` | `Action`: waiting in its first `select`, draining after the signal, exited; or down |
| `manager` | where `StartCDIManager` is; `returned` and `failed` are what `errChan` holds |
| `cancelled` | `ctx` |
| `controllers` | the drivers whose slice controller runs |
| `pools`, `held` | `namedDriverResources` and the controllers' copies |
| `toClean`, `victims` | the loops of `cleanupResourceSlices` |
| `slices` | `ResourceSlice` objects; `owner` is history, no action reads it |
| `missed` | history: the slices that failed calls of the cleanup were about |
| `lives`, `scans`, `failures` | bounds |

A scan is one step here: it succeeds with any counts for any fabrics (`ScanOutcomes` of
`ResourcePools`), or fails. `ScanIsOneStep` states of `ResourcePoolLoop` that this is what its scans
do to the pools.
`StartupFails` covers every `return err` before the cleanup is deferred, with
any number of controllers already started: they are not stopped by the code and
end with the process. The slice controller is the library's; it is modelled by
what the driver relies on: it creates the slice a pool lacks, with a generation
above those it finds, and deletes what does not belong, in steps of their own.
Its copies are its own (`StartController` and `Update` copy what they are handed).

### Startup

| State | Code |
|---|---|
| `flags` | the options, from arguments or environment, as `newApp` sees them |
| `configMap`, `secret`, `bmh`, `dra` | the objects and resources of the API server |
| `configMapCache`, `secretCache` | the stores of the informers, `None` before their first list |
| `step` | where `main` and `StartCDIManager` are |
| `bmhInformer`, `certificate`, `deviceInfos`, `labelPrefix`, `controllers` | what the start leaves: `KubeControllers`, the HTTP client, `CDIManager` |
| `outdated` | history: edited since the process was launched |

An option is unset, bad or good. `Required`, `Before` and `FlagActions` are the
three stages the library calls in this order; an `Action` runs only for an option that is
set, which is why an empty cluster id is a matter of `Before`. A device model keeps what
is compared between entries (index, model, name) and its driver; whether each field is
well formed is one Boolean. A ConfigMap that is absent is no error in the code, and none here;
a certificate that cannot be parsed is none either (`"wrong"`). When the group version
of BareMetalHosts is not served, discovery fails and with it the start; when it is
served without them, there is no informer and the first scan that finds a node ends the process
(`ScanPanics`).

### TokenSource

| State | Code |
|---|---|
| `step` | where the manager goroutine is: between scans, in `Token()`, in a call to the IM, about to send, in a request |
| `token` | `cachedIMTokenSource.token`, as the time it has left |
| `sent` | the credentials `getIdManagerSecret` has read, which the call under way carries |
| `answer` | what the IM has answered and is on its way: a token, or `Refused` |
| `waited` | how long the call under way has taken |
| `cancelled`, `sinceSignal` | `ctx`, and for how long it has been cancelled |
| `im`, `secret` | the credentials the IM accepts (none when it is down), the Secret in the cache |
| `stale` | history: the token of this question is one that could not be rotated |
| `steady` | history: nothing was upset since a token was last asked for |

Every call of `client.go` to the FM and the CM has the same shape: `Token()`, one request
under `ctx` with a timeout of 60 s, one answer. A scan is any number of them. The
credentials are read once per rotation and this copy is sent, so that the Secret, and what
the IM accepts, may change while it is on its way: the IM judges what was sent (`IMIssues`,
`IMRefuses`), and its answer takes its time. Time
passes between scans and in calls (`Tick`); a request under a cancelled `ctx` ends
before time passes, a call to the IM does not, because `idManagerTokenSource.Token` runs
under `context.Background()`. The token that is cached may have expired in the meantime and is
used all the same when no other can be had.

### NodeCache

| State | Code |
|---|---|
| `nodes`, `version` | the Node objects and the resource version of the API server |
| `hosts`, `served` | the BareMetalHosts |
| `fabricOf` | the FM's machine list |
| `cache`, `news`, `unsynced` | the node informer's store, what is listed or watched and not in it yet, how much of that is of the first list |
| `hostCache` | the BareMetalHost informer's store |
| `step`, `pending`, `uuids`, `machines`, `held` | where `Run` or the scan is, and its locals |
| `startedAt` | history: the resource version at which the informers listed |

Each lookup reads the cache as it is then, so two lookups of one scan may see
different states of a node. `UpdateNode` sends the copy `GetNode` made: the API server
takes it when its resource version is the current one and answers with a conflict
otherwise, which abandons the scan (`UpdateConflicts`). An update that changes nothing
leaves the version. `CallFails` includes the update that is done and not answered.
`bmhAvailable` is the struct's field, which is never set. The order in which the first
list is delivered is any; the watch delivers in the order of the changes.

### QuietScans and QuietLabels

The liveness properties say that labels and pools are right in the end. These two
modules say, as invariants, by when. Two history variables are added, which no step
of the scans reads: `quiet` while nothing was upset since the scan under way
began (in `QuietLabels`: on caches that had caught up), and `settled` from the end of such
a scan until something is upset. `ScansSettle`, `LimitsSettle` and
`LabelsSettle` say that what `EventuallyAccurate`, `EventuallyOwnLimits` and `EventuallyLabelled`
promise in the end holds whenever `settled` does: one undisturbed scan is enough, and none
of the scans that follow takes anything back. In `QuietLabels` those scans may be far from
undisturbed: they begin before the caches show the labels, write old copies, meet conflicts
and are abandoned. `UnscannableUntouched` is about the opposite: a world
in which two nodes share a provider id or a fabric in use has too many free devices, where
scans are to change nothing at all.

## The runs

| Run | Result | Distinct states | Question |
|---|---|---|---|
| `scan` | pass | 391 000 | safety and refinement, scans as single steps: two nodes on two fabrics, two models of two drivers, counts to 2 (3 is too large), three upsets |
| `settled` | pass | 2 846 000 | one undisturbed scan is enough, and one that cannot succeed does nothing: two machines on one fabric in two node groups or one, two models, with BareMetalHosts and the CM, every kind of upset |
| `accurate` | pass | 611 000 | liveness in the same instance with one model: labels, limits and counts settle |
| `stale_pool` | violation | | the pool of an abandoned fabric is never right again |
| `restart` | pass | 50 000 | one process, two lives, two drivers, one failure or crash anywhere |
| `rollout` | pass | 240 000 | two processes at once, publishing and cleaning |
| `rollout_cleanup` | violation | | the cleanup of one deletes slices of the other |
| `startup` | pass | 327 000 | every combination of options and every list of up to two models; edits, failures and stops in any order around and during starts |
| `token` | pass | 39 000 | tokens age, rotations fail, credentials change while others are under way, a signal comes anywhere |
| `labels` | pass | 620 000 | nodes labelled from lagging caches while they come, go and are replaced, beside another writer, moves, failures, crashes |
| `hosts` | violation | | a scan before the BareMetalHosts are in the cache |
| `stale_label` | violation | | a machine leaves its fabric, the label stays |

**Bounds.** Two nodes, machines and fabrics are enough for two machines on one
fabric and on two, for a provider id held twice, and for a machine that moves while
another stays. Two models, one per driver, tell a controller that was informed
from one that was not; in `settled`, whose machines have different limits, they tell a node
labelled with the limits of one machine of its group from one with limits of both. Three upsets in `scan` allow a change within a scan, a
failure of that scan and a change before the next; three in `settled`, `accurate` and `labels` allow a
change that is seen half way, a failure, and a change that ends what was settled. Upsets may fall at every
step of any scan and scans are not bounded: it is the upsets that run out, which
is what "once the world is quiet" means in the liveness properties. The counts go
one above `MaxDevices`, so the rejected count happens; generations are bounded by
the upsets. In `DriverLifecycle`, `MaxScans` counts only scans that publish; two
allow a pool to change once after its first publication, and two lives a restart
over what the first left. `MaxGeneration` stops two controllers that outbid one
another in `rollout` and only applies while the other process is alive, so
that it never holds up the process that remains. The lifecycle runs do not check
deadlock: a process whose lives are used up has stopped for good, as it should.

`startup` has two parts: any options in a cluster that has what is needed, where
nothing may be upset (`upsets` starts at its bound), and sound options in a cluster without a ConfigMap, where two
things happen at any moment, so that the ConfigMap can come and another edit or a stop can fall
between two reads of one start. Two entries are enough for every way models can clash.
The units of `token` are 30 s: margin one, timeout two, lifetimes above their sum, so
that a token can be cached, become old in the cache, and expire on its way. `labels` starts with one
node and has two names and two machines; three upsets allow a second node, a replaced one,
and, for example, a foreign write, a lost answer and a crash around one update.
In `token` and `startup` deadlock is not checked: a process that was told to
stop has stopped, and one that runs has nothing more to do in `Startup`.

**Fairness.** `ResourcePoolLoop` assumes weak fairness of the scan as a whole
(`WF_vars(LoopStep)`): it is one goroutine that `wait.Until` calls again after every
scan, successful or not, and each of its calls returns because the HTTP clients have
a timeout. Failures and changes are never owed; when they happen is free.
`DriverLifecycle` assumes weak fairness of each process's manager and of its exit
once `errChan` has a value, and of each controller's work on a pool while `ctx`
is not cancelled (after that it may be cut off anywhere). Starts, signals,
crashes and `StartupFails` are never owed.
`Startup` and `NodeCache` assume that a process that ended is started again (the Deployment's
pods are restarted by the kubelet), that informers list and watches deliver in the end, and
that the start and the scans go on; in `Startup` this includes that some scan finds a
node. `TokenSource` assumes that time passes and that a call that nothing has upset is
answered or timed out. Edits, failures, crashes and signals are never owed.

**What the properties mean.** `EventuallyAccurate` requires of the world only
`Scannable`: no provider id is held twice and no fabric in use reports more than
`MaxDevices`. Without it every scan is abandoned, for all nodes, which is what the
code does (`UnscannableUntouched`). `LimitsSettle` and `EventuallyOwnLimits` promise each node the limits of one machine
of its group, the same one for all models, because the code asks for one machine per group; which one may change
from scan to scan. When the machines of a group have one specification, as the code takes for granted, these are the
node's own limits (`UniformGroupsOwnLimits`). `CleanExit` holds for
a process that was the only one and exits by itself. Failed calls of the cleanup are logged and
not repeated: a failed list excuses the slices of its driver, a failed delete its slice, and no
other. `FreshWhenPossible` wants nothing to have been upset since a token was asked for:
credentials that are corrected while the refused ones are under way come too late for that
question, which the code sends with the old token. `RunsAsConfigured` and
`EventuallyRuns` excuse a process under which something was edited (`outdated`): nothing is
read twice, so a new ConfigMap, a new certificate or a definition of BareMetalHosts that
was installed later takes a restart. `ExpiresForCause` allows two causes: no
rotation could be had, or the request itself took longer than the margin, which at 60 s against 30 s it may
without any failure. `EventuallyLabelled` speaks of nodes whose machine is on a fabric;
what becomes of the label when it is on none is `EventuallyNoFalseLabel`.

## Disagreements between text and code

- `README.md:14` promises a view of the devices that are available. `stale_pool`:
  only pools of fabrics that some machine of the current scan is on are
  updated, and no pool is ever removed (`manager.go:541-556`). A machine leaves a
  fabric, the pool keeps its last count for good. The last count may be another
  fabric's: the machine list is read first, the free devices are asked for by
  machine, and the fabric in the answer is not compared.
- `manager.go:196-198` says that matching pool names guards against deleting the slices
  of another driver with the same driver name. `rollout_cleanup`: two processes of
  this driver share both names, `deployment.yaml:12` leaves the default strategy,
  which starts the new one before it stops the old one, and the old one's cleanup
  deletes the new one's slices. `rollout` shows that the new one's controllers
  restore them.

- `kube_utils.go:202-206` waits for the cache of BareMetalHosts when they are available.
  `hosts`: line 104 sets a new variable of the same name, the field stays false, and
  the first scan may begin with no host in the cache. `labels` shows that later scans repair
  it.
- `README.md:15` promises labels that inform about the devices. `stale_label`: a machine
  that is on no fabric any more drops out of the scan, and its node keeps the label.

Not a disagreement with any text, but worth knowing: without any ConfigMap the start goes on
with no models and the prefix `""` (`manager.go:133`); the process keeps running, `/fabric` is
no label key, so that every label update is refused, and a ConfigMap that is created a moment later
is never read. This is why `EventuallyRuns` must excuse a process under which something
was edited.

## The proofs

`ResourcePoolLoop_proofs` proves, for any finite set of nodes and any fabrics,
models, drivers, groups and bounds:

- `TypeCorrect`, `Informed`, `LabelsBacked`: the invariants of the run `scan`;
- `Refinement`: `Spec => PoolViewKept`, the scan loop implements `PoolView`;
- `ScanOneStep`: `Spec => ScanIsOneStep`, seen from outside a scan is the one step
  `DriverLifecycle` has in its place.

*Assumptions.* The named ASSUMEs of the modules: there is at least one model and each
has a driver; nodes are finite; without BareMetalHosts a provider id is taken for
a machine UUID; resspecs name known models; the sentinels (`None`, `Absent`,
`NoPool`) differ from the values they stand in for.

*Argument.* `LabelBacked` and `ControllersInformed` are not inductive. When a node is
labelled, its pools must already be there, and they were written by another step, from
counts gathered by yet others. `IInv` therefore adds `ScanShape`, what each step of a
scan leaves to those after it: a found node at the step that looks up its host; a
UUID found is in a list; when pools are updated, every fabric scanned has a count
within bounds for every model; when nodes are labelled, the pools of every fabric
scanned are handed over and, with the CM, the limits of each group in use are
known. There is one lemma per action. `HandedOver` is the fact behind
`ControllersInformed`: controllers that held the old pools hold the new ones when
those of `needUpdate` are updated. `UpdatePool` is the fact behind the refinement: a
counted pool is the old one or one generation newer with other devices. The
refinement maps `view` to `desired`: `manageCDIResourceSlices` is a `Publish`
or a stutter, by `ControllersInformed` and `UpdatePool`, every other step a stutter. For
`ScanOneStep` the same step is one of `ScanOutcomes`: when pools are updated, some fabric was
scanned, and every one of them has all its counts (`ScanShape`).

`QuietScans_proofs` proves `OneScanSettles` and `OneScanSettlesLimits`. While nothing is upset,
what a scan has gathered is what it would gather now: `LookupsTrue`, `AnswersTrue`, `MachinesTrue` and
`CountsTrue` say so of every local, and each step hands that on to the next. `AskedOnce` says of the limits
that the machine asked is the first of its group until all its models are known, so that they are of one machine. At the end,
every reachable node was in the list, was counted and labelled. A later scan that is quiet too
finds the same fabrics and counts, so that what it writes is what is there; it may find
the limits of another machine of a group. `UnscannableChangesNothing` (`UnscannableUntouched`) adds
`ResolvedUnambiguous`: the provider ids that are looked up belong to one node each, so a scan gets past the lookups
only in a world where all do; and every count it gathered is within bounds.
`UniformGroupsOwnLimits` is the remark on uniform groups above.

`QuietLabels_proofs` proves `OneScanLabels`, for caches that lag behind. There the locals of a later scan
are not what it would find now. What holds instead has three parts. The copies are
`Alike`: without an upset, the API server, the cache and the news differ in version and
labels only. Nothing found is wrong (`FoundTrue`): so no update takes a right
label away. In a scan that began on caches that had caught up nothing is missing either
(`FoundAll`): a node still to be labelled is `Untouched`, its copy is the node, so its
update meets no conflict.

`DriverLifecycle_proofs` proves `ProcessTypeCorrect` and `ExitsClean` (`CleanExit`), for any number of
processes, drivers, lives and failures. `CleanExit` depends on what several goroutines
did in turn: `Goroutines` says which combinations of `main`, `manager` and running controllers occur,
`ManagerShape` what each phase of the cleanup leaves to the next, and `Cleaned` that, for a
process that is alone, a slice of one of its pools can only be of a driver still to be listed or one of the
victims still to be deleted, or one that a failed call was about. `CleanupOnlyOwnPools`
(`CleanupSparesPools`) needs `PublishedPools` on top: what the controllers hold is what the manager has
in memory, and victims are slices of pools that are in it.

`IdleControllersPublished` (`IdleHavePublished`) and `PublishedForGood` (`PublishedStays`) are the part
of `EventuallyPublished` that is not about fairness: when the controllers of a process that is alone are done they have
achieved what they are for, and nothing undoes it. The first needs that every pool has a running
controller (`ManagerShape`) and that it holds what the manager has in memory (`PublishedPools`). For the
second, `PublishedIdle` says that the one slice of a published pool is the one its controller would choose to
keep, whatever generation an earlier life gave it, and `SliceSteps` that while a process is alone only its controllers touch
slices: a cleanup, or a controller, of any other process has ended with it.

`TokenSource_proofs` proves `TokenTypeCorrect`, `TokensExpireForCause`, `QuestionsSetOutFresh`
(`FreshWhenPossible`) and `StopsPromptly`, for any margin, timeout and lifetimes above the sum of both. The invariant adds up time: what a token
on its way has left and what the call has taken exceed timeout and margin, so it is
fresh when it arrives, and what a token in a request has left and what the request has taken exceed the
margin. `SteadyShape` says that, when the IM accepts what the Secret holds and nothing was upset since a token was
asked for, the credentials under way are those of the Secret and the answer to them is no refusal. `StopShape` says that no time passes after a signal outside a call to the IM and that none of
the calls after it is one.

`NodeCache_proofs` proves `CacheTypeCorrect`, `NoNodeMissed` and `NoUpdateLost`, for any finite set of
nodes. `CopiesTrue` and `HeldTrue`: every copy, in the cache, on its way or held by the scan, with the current
version of its node equals the node, so an update that is taken changes the fabric label
and nothing else. `Listed`: what existed when the informers listed, and has not changed since, is in
the cache or among the news that `Run` still waits for.

`Startup_proofs` proves `SettingsTypeCorrect`, `OnlySoundSettings`, `RunsAsTheClusterSays` and `LivesEndForCause` (`EndsForCause`), for any entries and
lists of any length. `CachesTrue` and `SettingsTrue` say what each step of the start leaves to those
after it, and that a copy that is not the object itself makes the life outdated; that is also why a read
that ends a life that is not outdated blames the object, not the copy.

*Assumptions of these.* Bounds and times are natural numbers, sentinels are none of the
values they stand in for, a token outlives the call that fetches it by more than the margin, nodes
are finite.

*Only model-checked.* Liveness, which depends on fairness and ENABLED, outside the
prover's reach: `EventuallyAccurate`, `EventuallyOwnLimits`, `EventuallyLabelled`, `EventuallyPublished`,
`ShutdownEnds`, `EventuallyRuns` and `Recovers`. What they say that is not about
fairness is proved: for the first three, that one undisturbed scan is enough
and its result stays; for `EventuallyPublished`, that controllers with nothing left to do have published and
it stays; for `EventuallyRuns`, that no process ends without a cause (`LivesEndForCause`); for `Recovers`, that no question
sets out with an old token once nothing is wrong. What loops over lists compute for every length
(induction over data) is left to TLC too.

## Not modelled

- *Length of the grace period.* A call to the IM may hold up the stop for 60 s
  and the cleanup may take 30 s more, the kubelet's default patience is 30 s.
  `StopIsPrompt` bounds the wait and `DriverLifecycle` has the kill as a crash that may come anywhere; that
  the two together exceed the default is arithmetic about a deployment that sets no grace period.
- *Clocks and tokens.* Skew between the driver's clock and the IM's; a token without `exp`
  (it counts as expired from the start and is asked for again for every question) or with a
  lifetime below margin and timeout.
- *Request and response formats* (`request.go`, JSON, status codes, TLS), the string
  validators of `config.go` and of the options, flags for logging,
  `.github`, `Dockerfile`, RBAC: no behaviour over time. The validators appear as what they
  decide. Attribute names are checked as label names, not as the names of device
  attributes; what the API server accepts in a slice is outside `src/`, so that gap is
  listed as a hazard and not checked.
- *Negative counts* of the FM: nothing in `src/` says what one would mean.
- `ResourcePoolLoop` has one life of the process and starts with unlabelled nodes;
  `DriverLifecycle`, `NodeCache` and `Startup` have the restarts. A node whose label map is nil, on which
  the code would panic, does not occur: the kubelet always sets labels.
- In `NodeCache`, BareMetalHosts do not change and signals are left out; in `Startup` the
  signal is a stop like any other.
- The slice controllers' informer lag and work queue; an API call in flight that lands
  after `Stop` or after the process is gone.

## Plan

Done: the operators, the scan loop with its refinement and its place in the lifecycle, the
lifecycle, the start, the token source, the caches; the invariants and the action properties of all of
them are proved, and of the liveness what does not depend on fairness, but for `ShutdownEnds`.

1. The steps a process that was told to stop may still take, as a measure that each of them lowers.
2. Size labels in `NodeCache`, and BareMetalHosts that lose and get their annotation.
3. The slice controllers' own cache, from the library's code.
