-------------------------- MODULE DriverLifecycle --------------------------
(***************************************************************************)
(* Driver processes from start to exit and the ResourceSlices they leave   *)
(* in the API server: the main goroutine (main.go), the manager goroutine  *)
(* (StartCDIManager, cleanupResourceSlices), the slice controllers it      *)
(* starts, one per driver name, signals, crashes and restarts, and two     *)
(* processes at once, which deployment.yaml allows while it is rolled out  *)
(* (one replica, the default strategy).                                    *)
(*                                                                         *)
(* A scan is one step here: it ends with counts for some fabrics or fails  *)
(* (ResourcePoolLoop is its detail, see ScanIsOneStep there).  The slice   *)
(* controller is library code (k8s.io/dynamic-resource-allocation) and     *)
(* external: it makes the slices of its driver name those of the pools it  *)
(* was handed, creating first and deleting after.                          *)
(*                                                                         *)
(* Bounds: MaxLives starts per process, MaxScans scans that publish per    *)
(* life, MaxFailures failed calls and crashes in all, and controllers that *)
(* fight over a pool create no slice of a generation above MaxGeneration.  *)
(***************************************************************************)
EXTENDS ResourcePools

CONSTANTS
    Processes,        \* the processes of the driver that may exist
    MaxLives, MaxScans, MaxFailures, MaxGeneration

ASSUME BoundsAssumption ==
    /\ MaxLives \in Nat
    /\ MaxScans \in Nat
    /\ MaxFailures \in Nat
    /\ MaxGeneration \in Nat

VARIABLES
    main,          \* the main goroutine of every process
    manager,       \* the goroutine that runs StartCDIManager
    cancelled,     \* whether ctx is cancelled
    controllers,   \* the drivers whose controller runs
    pools,         \* namedDriverResources
    held,          \* the pools the controllers were handed
    toClean,       \* cleanupResourceSlices: the drivers still to list
    victims,       \* and the slices still to delete
    missed,        \* history: the slices that failed calls of the cleanup were about
    lives, scans, failures,    \* counters of the bounds
    slices         \* the ResourceSlices in the API server

process == <<main, manager, cancelled, controllers, pools, held, toClean, victims, missed>>
counters == <<lives, scans, failures>>
vars == <<process, counters, slices>>

ResourceSlice ==
    [pool : PoolNames, devices : 0 .. MaxDevices, generation : Nat \ {0},
     owner : Processes]    \* owner: who created it; the code cannot tell

TypeOK ==
    /\ main \in [Processes -> {"down", "waiting", "draining", "exited"}]
    /\ manager \in [Processes -> {"none", "starting", "waiting", "scanning",
                                  "stopping", "cleaning", "returned", "failed"}]
    /\ cancelled \in [Processes -> BOOLEAN]
    /\ controllers \in [Processes -> SUBSET Drivers]
    /\ pools \in [Processes -> PoolMap]
    /\ held \in [Processes -> PoolMap]
    /\ toClean \in [Processes -> SUBSET Drivers]
    /\ victims \in [Processes -> SUBSET ResourceSlice]
    /\ missed \in [Processes -> SUBSET ResourceSlice]
    /\ lives \in [Processes -> 0 .. MaxLives]
    /\ scans \in [Processes -> 0 .. MaxScans]
    /\ failures \in 0 .. MaxFailures
    /\ slices \in SUBSET ResourceSlice

Init ==
    /\ main = [p \in Processes |-> "down"]
    /\ manager = [p \in Processes |-> "none"]
    /\ cancelled = [p \in Processes |-> FALSE]
    /\ controllers = [p \in Processes |-> {}]
    /\ pools = [p \in Processes |-> initDriverResources]
    /\ held = [p \in Processes |-> initDriverResources]
    /\ toClean = [p \in Processes |-> {}]
    /\ victims = [p \in Processes |-> {}]
    /\ missed = [p \in Processes |-> {}]
    /\ lives = [p \in Processes |-> 0]
    /\ scans = [p \in Processes |-> 0]
    /\ failures = 0
    /\ slices = {}

Alive(p) == main[p] \in {"waiting", "draining"}

Failure ==
    /\ failures < MaxFailures
    /\ failures' = failures + 1

(* The drivers of the configuration: one entry of namedDriverResources each. *)
NamedDrivers == {DriverOf[m] : m \in Models}

-----------------------------------------------------------------------------
(* The main goroutine. *)

(* A process starts, for the first time or again: Action starts the        *)
(* manager in a goroutine, whose maps are new, and waits.                  *)
StartProcess(p) ==
    /\ main[p] \in {"down", "exited"}
    /\ lives[p] < MaxLives
    /\ main' = [main EXCEPT ![p] = "waiting"]
    /\ manager' = [manager EXCEPT ![p] = "starting"]
    /\ cancelled' = [cancelled EXCEPT ![p] = FALSE]
    /\ pools' = [pools EXCEPT ![p] = initDriverResources]
    /\ held' = [held EXCEPT ![p] = initDriverResources]
    /\ missed' = [missed EXCEPT ![p] = {}]
    /\ lives' = [lives EXCEPT ![p] = @ + 1]
    /\ scans' = [scans EXCEPT ![p] = 0]
    /\ UNCHANGED <<controllers, toClean, victims, failures, slices>>

(* SIGTERM or SIGINT: cancel ctx and wait for the manager. *)
Signal(p) ==
    /\ main[p] = "waiting"
    /\ main' = [main EXCEPT ![p] = "draining"]
    /\ cancelled' = [cancelled EXCEPT ![p] = TRUE]
    /\ UNCHANGED <<manager, controllers, pools, held, toClean, victims, missed,
                   counters, slices>>

(* What the manager left on errChan ends the process, and with it every    *)
(* controller that was not stopped.                                        *)
Exit(p) ==
    /\ Alive(p)
    /\ manager[p] \in {"returned", "failed"}
    /\ main' = [main EXCEPT ![p] = "exited"]
    /\ manager' = [manager EXCEPT ![p] = "none"]
    /\ controllers' = [controllers EXCEPT ![p] = {}]
    /\ UNCHANGED <<cancelled, pools, held, toClean, victims, missed, counters, slices>>

(* SIGKILL after the grace period, a panic, a lost node. *)
Crash(p) ==
    /\ Failure
    /\ Alive(p)
    /\ main' = [main EXCEPT ![p] = "down"]
    /\ manager' = [manager EXCEPT ![p] = "none"]
    /\ controllers' = [controllers EXCEPT ![p] = {}]
    /\ toClean' = [toClean EXCEPT ![p] = {}]
    /\ victims' = [victims EXCEPT ![p] = {}]
    /\ UNCHANGED <<cancelled, pools, held, missed, lives, scans, slices>>

-----------------------------------------------------------------------------
(* The manager goroutine: startup, the loop of wait.Until, the cleanup. *)

(* startResourceSliceController, the controller of the next driver. *)
StartController(p, d) ==
    /\ manager[p] = "starting"
    /\ d \in NamedDrivers \ controllers[p]
    /\ controllers' = [controllers EXCEPT ![p] = @ \cup {d}]
    /\ manager' = [manager EXCEPT ![p] =
                     IF controllers'[p] = NamedDrivers THEN "waiting" ELSE "starting"]
    /\ UNCHANGED <<main, cancelled, pools, held, toClean, victims, missed, counters, slices>>

(* A client, a cache, the secret, the ConfigMap or a controller fails, or  *)
(* ctx is cancelled before the caches have synced: the manager returns the *)
(* error before it deferred the cleanup.                                   *)
StartupFails(p) ==
    /\ manager[p] = "starting"
    /\ \/ cancelled[p] /\ UNCHANGED failures
       \/ Failure
    /\ manager' = [manager EXCEPT ![p] = "failed"]
    /\ UNCHANGED <<main, cancelled, controllers, pools, held, toClean, victims, missed,
                   lives, scans, slices>>

BeginScan(p) ==
    /\ manager[p] = "waiting"
    /\ ~cancelled[p]
    /\ scans[p] < MaxScans
    /\ manager' = [manager EXCEPT ![p] = "scanning"]
    /\ UNCHANGED <<main, cancelled, controllers, pools, held, toClean, victims, missed,
                   counters, slices>>

(* The scan got its counts: pools are updated and handed to the            *)
(* controllers, also when ctx was cancelled after the last question.       *)
ScanPublishes(p) ==
    /\ manager[p] = "scanning"
    /\ \E new \in ScanOutcomes(pools[p]) :
          /\ pools' = [pools EXCEPT ![p] = new]
          /\ held' = [held EXCEPT ![p] = handedOver(@, new, needUpdate(pools[p], new))]
    /\ scans' = [scans EXCEPT ![p] = @ + 1]
    /\ manager' = [manager EXCEPT ![p] = "waiting"]
    /\ UNCHANGED <<main, cancelled, controllers, toClean, victims, missed, lives,
                   failures, slices>>

(* A question failed; once ctx is cancelled the next one fails. *)
ScanFails(p) ==
    /\ manager[p] = "scanning"
    /\ \/ cancelled[p] /\ UNCHANGED failures
       \/ Failure
    /\ manager' = [manager EXCEPT ![p] = "waiting"]
    /\ UNCHANGED <<main, cancelled, controllers, pools, held, toClean, victims, missed,
                   lives, scans, slices>>

(* Faulty variant of the next definition: the loop does not watch          *)
(* ctx.Done().                                                             *)
LoopEnds_never(p) ==
    /\ manager[p] = "waiting"
    /\ cancelled[p]
    /\ UNCHANGED vars

(* wait.Until returns when ctx is done and no scan runs; the deferred      *)
(* cleanup begins.                                                         *)
LoopEnds(p) ==
    /\ manager[p] = "waiting"
    /\ cancelled[p]
    /\ manager' = [manager EXCEPT ![p] = "stopping"]
    /\ toClean' = [toClean EXCEPT ![p] = controllers[p]]
    /\ UNCHANGED <<main, cancelled, controllers, pools, held, victims, missed, counters, slices>>

(* Stop returns when the workers of the controller have. *)
StopController(p, d) ==
    /\ manager[p] = "stopping"
    /\ d \in controllers[p]
    /\ controllers' = [controllers EXCEPT ![p] = @ \ {d}]
    /\ manager' = [manager EXCEPT ![p] =
                     IF controllers'[p] = {} THEN "cleaning" ELSE "stopping"]
    /\ UNCHANGED <<main, cancelled, pools, held, toClean, victims, missed, counters, slices>>

SlicesOfDriver(d) == {s \in slices : DriverOf[s.pool[1]] = d}

(* Faulty variants of the next definition: the pool names are not          *)
(* compared; a failed list ends the cleanup.                               *)
ListSlices_anyPool(p, d) ==
    /\ manager[p] = "cleaning"
    /\ victims[p] = {}
    /\ d \in toClean[p]
    /\ toClean' = [toClean EXCEPT ![p] = @ \ {d}]
    /\ victims' = [victims EXCEPT ![p] = SlicesOfDriver(d)]
    /\ UNCHANGED <<main, manager, cancelled, controllers, pools, held, missed, lives,
                   scans, failures, slices>>
ListSlices_givesUp(p, d) ==
    /\ manager[p] = "cleaning"
    /\ victims[p] = {}
    /\ d \in toClean[p]
    /\ \/ /\ toClean' = [toClean EXCEPT ![p] = @ \ {d}]
          /\ victims' = [victims EXCEPT ![p] =
                 {s \in SlicesOfDriver(d) : pools[p][s.pool] # NoPool}]
          /\ UNCHANGED <<missed, failures>>
       \/ /\ Failure
          /\ toClean' = [toClean EXCEPT ![p] = {}]
          /\ missed' = [missed EXCEPT ![p] = @ \cup SlicesOfDriver(d)]
          /\ UNCHANGED victims
    /\ UNCHANGED <<main, manager, cancelled, controllers, pools, held, lives, scans, slices>>

(* List the slices of the next driver and keep those of a published pool.  *)
(* A failed list is logged and the driver skipped.                         *)
ListSlices(p, d) ==
    /\ manager[p] = "cleaning"
    /\ victims[p] = {}
    /\ d \in toClean[p]
    /\ toClean' = [toClean EXCEPT ![p] = @ \ {d}]
    /\ \/ /\ victims' = [victims EXCEPT ![p] =
                 {s \in SlicesOfDriver(d) : pools[p][s.pool] # NoPool}]
          /\ UNCHANGED <<missed, failures>>
       \/ /\ Failure
          /\ missed' = [missed EXCEPT ![p] = @ \cup SlicesOfDriver(d)]
          /\ UNCHANGED victims
    /\ UNCHANGED <<main, manager, cancelled, controllers, pools, held, lives, scans, slices>>

(* Delete the next slice; a failed delete is logged and not repeated. *)
DeleteSlice(p, s) ==
    /\ manager[p] = "cleaning"
    /\ s \in victims[p]
    /\ victims' = [victims EXCEPT ![p] = @ \ {s}]
    /\ \/ slices' = slices \ {s} /\ UNCHANGED <<missed, failures>>
       \/ Failure /\ missed' = [missed EXCEPT ![p] = @ \cup {s}] /\ UNCHANGED slices
    /\ UNCHANGED <<main, manager, cancelled, controllers, pools, held, toClean, lives, scans>>

CleanupEnds(p) ==
    /\ manager[p] = "cleaning"
    /\ victims[p] = {}
    /\ toClean[p] = {}
    /\ manager' = [manager EXCEPT ![p] = "returned"]
    /\ UNCHANGED <<main, cancelled, controllers, pools, held, toClean, victims, missed,
                   counters, slices>>

-----------------------------------------------------------------------------
(* The slice controllers (external): the worker of a pool brings its       *)
(* slices to the pool it was handed; slices of pools it does not have go.  *)

SlicesOf(n) == {s \in slices : s.pool = n}

IsTopGeneration(n, g) ==
    /\ g \in {0} \cup {s.generation : s \in SlicesOf(n)}
    /\ \A s \in SlicesOf(n) : s.generation <= g

(* The slice of a pool the controller keeps, if it finds one. *)
Matching(p, n) ==
    {s \in SlicesOf(n) : /\ IsTopGeneration(n, s.generation)
                         /\ s.devices = held[p][n].devices}

Lacking(p, n) == held[p][n] # NoPool /\ Matching(p, n) = {}

CreateSlice(p, n) ==
    /\ DriverOf[n[1]] \in controllers[p]
    /\ Lacking(p, n)
    /\ \E top \in {0} \cup {s.generation : s \in SlicesOf(n)} :
          LET generation == IF held[p][n].generation > top THEN held[p][n].generation
                            ELSE top + 1
          IN  /\ IsTopGeneration(n, top)
              /\ generation <= MaxGeneration \/ \A q \in Processes \ {p} : ~Alive(q)
              /\ slices' = slices \cup
                    {[pool |-> n, devices |-> held[p][n].devices,
                      generation |-> generation, owner |-> p]}
    /\ UNCHANGED <<process, counters>>

(* What goes: all slices of a pool it does not have, all but one of a pool *)
(* that has its slice.                                                     *)
Obsolete(p, n) ==
    CASE held[p][n] = NoPool -> SlicesOf(n)
      [] Lacking(p, n) -> {}
      [] OTHER -> SlicesOf(n) \ {CHOOSE s \in Matching(p, n) : TRUE}

DeleteObsolete(p, n, s) ==
    /\ DriverOf[n[1]] \in controllers[p]
    /\ s \in Obsolete(p, n)
    /\ slices' = slices \ {s}
    /\ UNCHANGED <<process, counters>>

ControllerStep(p) ==
    \E n \in PoolNames :
        \/ CreateSlice(p, n)
        \/ \E s \in slices : DeleteObsolete(p, n, s)

-----------------------------------------------------------------------------
ManagerStep(p) ==
    \/ \E d \in Drivers : StartController(p, d)
    \/ BeginScan(p)
    \/ ScanPublishes(p)
    \/ ScanFails(p)
    \/ LoopEnds(p)
    \/ \E d \in Drivers : StopController(p, d)
    \/ \E d \in Drivers : ListSlices(p, d)
    \/ \E s \in victims[p] : DeleteSlice(p, s)
    \/ CleanupEnds(p)

Next ==
    \E p \in Processes :
        \/ StartProcess(p)
        \/ Signal(p)
        \/ Exit(p)
        \/ Crash(p)
        \/ StartupFails(p)
        \/ ManagerStep(p)
        \/ ControllerStep(p)

(* Goroutines run: calls return, by an answer or a timeout, the controllers *)
(* of a live process work as long as ctx is not cancelled.  Starts, signals *)
(* and crashes are never owed.                                              *)
Fairness ==
    \A p \in Processes :
        /\ WF_vars(ManagerStep(p))
        /\ WF_vars(Exit(p))
        /\ \A n \in PoolNames :
              WF_vars(~cancelled[p] /\ (CreateSlice(p, n) \/
                         \E s \in slices : DeleteObsolete(p, n, s)))

Spec == Init /\ [][Next]_vars /\ Fairness

-----------------------------------------------------------------------------
(* Properties. *)

(* main.go, lines 178-179, and manager.go, lines 183-184: a process that   *)
(* was the only one and exits by a signal leaves no slice of a pool it     *)
(* published, whenever it was told to stop and whatever it found there     *)
(* from an earlier life.  Calls of its cleanup may fail: a failed list     *)
(* excuses the slices of its driver, a failed delete its slice, and no     *)
(* other.                                                                  *)
CleanExit ==
    \A p \in Processes :
        main[p] = "exited" /\ (\A q \in Processes \ {p} : lives[q] = 0) =>
            \A s \in slices \ missed[p] : pools[p][s.pool] = NoPool

(* Every process that is told to stop does, whatever its scan was at and   *)
(* whatever calls of the cleanup fail.                                     *)
ShutdownEnds ==
    \A p \in Processes : main[p] = "draining" ~> main[p] # "draining"

Alone(p) ==
    /\ main[p] = "waiting"
    /\ manager[p] \in {"waiting", "scanning"}
    /\ \A q \in Processes \ {p} : ~Alive(q)

(* The pool is in the API server as the manager has it: one slice, or none. *)
Published(p, n) ==
    IF pools[p][n] = NoPool THEN SlicesOf(n) = {}
    ELSE \E s \in slices : SlicesOf(n) = {s} /\ s.devices = pools[p][n].devices

(* When one process keeps running, the API server ends up with its pools,  *)
(* one slice each, and nothing else: not the slices a crashed or an        *)
(* earlier process left behind, nor two slices of one pool.                *)
EventuallyPublished ==
    \A p \in Processes : <>[](Alone(p) => \A n \in PoolNames : Published(p, n))

(* The safety side of that.  When no controller has anything to do for a   *)
(* pool, it is published as the manager has it in memory, whatever was in  *)
(* the API server at the start: there is no pool without a controller or   *)
(* that its controller was not told of, and no slice is nobody's business. *)
Idle(p, n) == DriverOf[n[1]] \in controllers[p] => ~Lacking(p, n) /\ Obsolete(p, n) = {}
IdleHavePublished ==
    \A p \in Processes, n \in PoolNames : Alone(p) /\ Idle(p, n) => Published(p, n)

(* And what is published stays until a scan changes the pool or another    *)
(* process comes: neither the other controllers, nor failed scans, nor     *)
(* what remains of a process that is gone take it back.                    *)
PublishedStays ==
    [][\A p \in Processes, n \in PoolNames :
          Alone(p) /\ Alone(p)' /\ pools'[p][n] = pools[p][n] /\ Published(p, n)
             => Published(p, n)']_vars

(* The cleanup lists first and deletes later, one driver after another;    *)
(* whatever other processes create in between, and whatever is left of     *)
(* pools this one never had, it deletes slices of its own pools only.      *)
CleanupSparesPools ==
    [][\A p \in Processes :
          manager[p] = "cleaning" /\ victims'[p] # victims[p] =>
              \A s \in slices \ slices' : pools[p][s.pool] # NoPool]_vars

(* manager.go, lines 196-198: the pool names guard the cleanup against     *)
(* deleting the slices of another driver with the same driver name.        *)
CleanupSparesOthers ==
    [][\A p \in Processes :
          manager[p] = "cleaning" /\ victims'[p] # victims[p] =>
              \A s \in slices \ slices' : s.owner = p]_vars
=============================================================================
