----------------------- MODULE DriverLifecycle_proofs -----------------------
(***************************************************************************)
(* Theorems about processes of the driver, for any processes, drivers,     *)
(* pools and bounds: what they hold has its type, and a process that was   *)
(* the only one leaves none of its slices behind when it exits.            *)
(***************************************************************************)
EXTENDS DriverLifecycle, ResourcePools_proofs, TLAPS

-----------------------------------------------------------------------------
(* The inductive invariant. *)

(* Every goroutine of a process that is not alive is gone. *)
Goroutines ==
    \A p \in Processes :
        /\ Alive(p) <=> manager[p] # "none"
        /\ controllers[p] # {} => Alive(p)
        /\ lives[p] = 0 => main[p] = "down"

(* What the manager goroutine holds at its steps. *)
ManagerShape ==
    \A p \in Processes :
        /\ manager[p] = "starting" => controllers[p] # NamedDrivers
        /\ manager[p] \in {"starting", "failed"} => pools[p] = initDriverResources
        /\ manager[p] \in {"waiting", "scanning"} => controllers[p] = NamedDrivers
        /\ manager[p] = "scanning" => scans[p] < MaxScans
        /\ manager[p] = "stopping" => toClean[p] = NamedDrivers /\ controllers[p] # {}
        /\ manager[p] \in {"cleaning", "returned"} => controllers[p] = {}
        /\ manager[p] \notin {"stopping", "cleaning"} => toClean[p] = {}
        /\ manager[p] # "cleaning" => victims[p] = {}

Only(p) == \A q \in Processes \ {p} : lives[q] = 0

(* The cleanup of the only process has done what it is past: a slice of a  *)
(* published pool that is left is yet to be listed or yet to be deleted,   *)
(* or the call that was to do so failed.                                   *)
Cleaned ==
    \A p \in Processes : Only(p) =>
        \A s \in slices \ missed[p] : pools[p][s.pool] # NoPool =>
            /\ manager[p] = "cleaning" => DriverOf[s.pool[1]] \in toClean[p] \/ s \in victims[p]
            /\ manager[p] # "returned"
            /\ main[p] # "exited"

IInv == TypeOK /\ Goroutines /\ ManagerShape /\ Cleaned

-----------------------------------------------------------------------------
(* The drivers of the configuration: there is one, for there is a model. *)
LEMMA NamedDriversFacts ==
  /\ \A m \in Models : DriverOf[m] \in NamedDrivers
  /\ NamedDrivers \subseteq Drivers
  /\ NamedDrivers # {}
BY ModelsAssumption, DriverAssumption DEF NamedDrivers, Models

(* A slice belongs to a pool of a configured driver. *)
LEMMA SlicePools ==
  ASSUME TypeOK, NEW s \in slices
  PROVE  s.pool \in PoolNames /\ s.pool[1] \in Models
BY DEF TypeOK, ResourceSlice, PoolNames

LEMMA InitIInv == Init => IInv
<1> SUFFICES ASSUME Init PROVE IInv
  OBVIOUS
<1>1. TypeOK
  BY BoundsAssumption DEF Init, TypeOK, PoolMap, initDriverResources
<1>2. Goroutines /\ ManagerShape /\ Cleaned
  BY DEF Init, Goroutines, Alive, ManagerShape, Cleaned
<1> QED
  BY <1>1, <1>2 DEF IInv

LEMMA StartProcessInv ==
  ASSUME IInv, NEW p \in Processes, StartProcess(p)
  PROVE  IInv'
<1> USE DEF StartProcess, process, counters, Failure
<1>1. TypeOK'
  BY BoundsAssumption DEF IInv, TypeOK, Goroutines, ManagerShape, PoolMap, initDriverResources
<1>2. Goroutines'
  BY DEF IInv, TypeOK, Goroutines, Alive
<1>3. ManagerShape'
  BY NamedDriversFacts DEF IInv, TypeOK, Goroutines, ManagerShape, Alive
<1>4. Cleaned'
  BY DEF IInv, TypeOK, Goroutines, ManagerShape, Cleaned, Only, Alive
<1> QED
  BY <1>1, <1>2, <1>3, <1>4 DEF IInv

LEMMA SignalInv ==
  ASSUME IInv, NEW p \in Processes, Signal(p)
  PROVE  IInv'
<1> USE DEF Signal, process, counters, Failure
<1>1. TypeOK'
  BY BoundsAssumption DEF IInv, TypeOK, Goroutines, ManagerShape
<1>2. Goroutines'
  BY DEF IInv, TypeOK, Goroutines, Alive
<1>3. ManagerShape'
  BY NamedDriversFacts DEF IInv, TypeOK, Goroutines, ManagerShape, Alive
<1>4. Cleaned'
  BY DEF IInv, TypeOK, Goroutines, ManagerShape, Cleaned, Only, Alive
<1> QED
  BY <1>1, <1>2, <1>3, <1>4 DEF IInv

LEMMA ExitInv ==
  ASSUME IInv, NEW p \in Processes, Exit(p)
  PROVE  IInv'
<1> USE DEF Exit, process, counters, Failure
<1>1. TypeOK'
  BY BoundsAssumption DEF IInv, TypeOK, Goroutines, ManagerShape
<1>2. Goroutines'
  BY DEF IInv, TypeOK, Goroutines, Alive
<1>3. ManagerShape'
  BY NamedDriversFacts DEF IInv, TypeOK, Goroutines, ManagerShape, Alive
<1>4. Cleaned'
  <2>1. \A r \in slices : r.pool \in PoolNames
    BY SlicePools DEF IInv
  <2>2. manager[p] = "failed" => \A r \in slices : pools[p][r.pool] = NoPool
    BY <2>1 DEF IInv, ManagerShape, initDriverResources
  <2>3. manager[p] \in {"returned", "failed"} /\ manager'[p] = "none"
    BY DEF IInv, TypeOK
  <2>4. /\ slices' = slices /\ pools' = pools /\ missed' = missed /\ victims' = victims
        /\ toClean' = toClean /\ lives' = lives
        /\ \A q \in Processes \ {p} : manager'[q] = manager[q] /\ main'[q] = main[q]
    BY DEF IInv, TypeOK
  <2> QED
    BY <2>2, <2>3, <2>4 DEF IInv, Cleaned, Only
<1> QED
  BY <1>1, <1>2, <1>3, <1>4 DEF IInv

LEMMA CrashInv ==
  ASSUME IInv, NEW p \in Processes, Crash(p)
  PROVE  IInv'
<1> USE DEF Crash, process, counters, Failure
<1>1. TypeOK'
  BY BoundsAssumption DEF IInv, TypeOK, Goroutines, ManagerShape
<1>2. Goroutines'
  BY DEF IInv, TypeOK, Goroutines, Alive
<1>3. ManagerShape'
  BY NamedDriversFacts DEF IInv, TypeOK, Goroutines, ManagerShape, Alive
<1>4. Cleaned'
  BY DEF IInv, TypeOK, Goroutines, ManagerShape, Cleaned, Only, Alive
<1> QED
  BY <1>1, <1>2, <1>3, <1>4 DEF IInv

LEMMA StartControllerInv ==
  ASSUME IInv, NEW p \in Processes, NEW d \in Drivers, StartController(p, d)
  PROVE  IInv'
<1> USE DEF StartController, process, counters, Failure
<1>1. TypeOK'
  BY BoundsAssumption DEF IInv, TypeOK, Goroutines, ManagerShape
<1>2. Goroutines'
  BY DEF IInv, TypeOK, Goroutines, Alive
<1>3. ManagerShape'
  BY NamedDriversFacts DEF IInv, TypeOK, Goroutines, ManagerShape, Alive
<1>4. Cleaned'
  BY DEF IInv, TypeOK, Goroutines, ManagerShape, Cleaned, Only, Alive
<1> QED
  BY <1>1, <1>2, <1>3, <1>4 DEF IInv

LEMMA StartupFailsInv ==
  ASSUME IInv, NEW p \in Processes, StartupFails(p)
  PROVE  IInv'
<1> USE DEF StartupFails, process, counters, Failure
<1>1. TypeOK'
  BY BoundsAssumption DEF IInv, TypeOK, Goroutines, ManagerShape
<1>2. Goroutines'
  BY DEF IInv, TypeOK, Goroutines, Alive
<1>3. ManagerShape'
  BY NamedDriversFacts DEF IInv, TypeOK, Goroutines, ManagerShape, Alive
<1>4. Cleaned'
  BY DEF IInv, TypeOK, Goroutines, ManagerShape, Cleaned, Only, Alive
<1> QED
  BY <1>1, <1>2, <1>3, <1>4 DEF IInv

LEMMA BeginScanInv ==
  ASSUME IInv, NEW p \in Processes, BeginScan(p)
  PROVE  IInv'
<1> USE DEF BeginScan, process, counters, Failure
<1>1. TypeOK'
  BY BoundsAssumption DEF IInv, TypeOK, Goroutines, ManagerShape
<1>2. Goroutines'
  BY DEF IInv, TypeOK, Goroutines, Alive
<1>3. ManagerShape'
  BY NamedDriversFacts DEF IInv, TypeOK, Goroutines, ManagerShape, Alive
<1>4. Cleaned'
  BY DEF IInv, TypeOK, Goroutines, ManagerShape, Cleaned, Only, Alive
<1> QED
  BY <1>1, <1>2, <1>3, <1>4 DEF IInv

LEMMA ScanFailsInv ==
  ASSUME IInv, NEW p \in Processes, ScanFails(p)
  PROVE  IInv'
<1> USE DEF ScanFails, process, counters, Failure
<1>1. TypeOK'
  BY BoundsAssumption DEF IInv, TypeOK, Goroutines, ManagerShape
<1>2. Goroutines'
  BY DEF IInv, TypeOK, Goroutines, Alive
<1>3. ManagerShape'
  BY NamedDriversFacts DEF IInv, TypeOK, Goroutines, ManagerShape, Alive
<1>4. Cleaned'
  BY DEF IInv, TypeOK, Goroutines, ManagerShape, Cleaned, Only, Alive
<1> QED
  BY <1>1, <1>2, <1>3, <1>4 DEF IInv

LEMMA LoopEndsInv ==
  ASSUME IInv, NEW p \in Processes, LoopEnds(p)
  PROVE  IInv'
<1> USE DEF LoopEnds, process, counters, Failure
<1>1. TypeOK'
  BY BoundsAssumption DEF IInv, TypeOK, Goroutines, ManagerShape
<1>2. Goroutines'
  BY DEF IInv, TypeOK, Goroutines, Alive
<1>3. ManagerShape'
  BY NamedDriversFacts DEF IInv, TypeOK, Goroutines, ManagerShape, Alive
<1>4. Cleaned'
  BY DEF IInv, TypeOK, Goroutines, ManagerShape, Cleaned, Only, Alive
<1> QED
  BY <1>1, <1>2, <1>3, <1>4 DEF IInv

LEMMA StopControllerInv ==
  ASSUME IInv, NEW p \in Processes, NEW d \in Drivers, StopController(p, d)
  PROVE  IInv'
<1> USE DEF StopController, process, counters, Failure
<1>1. TypeOK'
  BY BoundsAssumption DEF IInv, TypeOK, Goroutines, ManagerShape
<1>2. Goroutines'
  BY DEF IInv, TypeOK, Goroutines, Alive
<1>3. ManagerShape'
  BY NamedDriversFacts DEF IInv, TypeOK, Goroutines, ManagerShape, Alive
<1>4. Cleaned'
  <2>1. \A r \in slices : DriverOf[r.pool[1]] \in NamedDrivers
    BY SlicePools, NamedDriversFacts DEF IInv
  <2>2. manager[p] = "stopping" /\ toClean[p] = NamedDrivers
    BY DEF IInv, ManagerShape
  <2>3. /\ manager'[p] \in {"cleaning", "stopping"} /\ main' = main /\ toClean' = toClean
        /\ slices' = slices /\ pools' = pools /\ missed' = missed /\ victims' = victims
        /\ lives' = lives
        /\ \A q \in Processes \ {p} : manager'[q] = manager[q]
    BY DEF IInv, TypeOK
  <2>4. main[p] # "exited"
    BY <2>2 DEF IInv, Goroutines, Alive
  <2> QED
    BY <2>1, <2>2, <2>3, <2>4 DEF IInv, Cleaned, Only
<1> QED
  BY <1>1, <1>2, <1>3, <1>4 DEF IInv

LEMMA ListSlicesInv ==
  ASSUME IInv, NEW p \in Processes, NEW d \in Drivers, ListSlices(p, d)
  PROVE  IInv'
<1> USE DEF ListSlices, SlicesOfDriver, process, counters, Failure
<1>1. TypeOK'
  <2>1. missed' \in [Processes -> SUBSET ResourceSlice]
    BY DEF IInv, TypeOK, SlicesOfDriver
  <2>2. /\ victims' \in [Processes -> SUBSET ResourceSlice]
        /\ toClean' \in [Processes -> SUBSET Drivers]
        /\ failures' \in 0 .. MaxFailures
    BY BoundsAssumption DEF IInv, TypeOK
  <2>3. UNCHANGED <<main, manager, cancelled, controllers, pools, held, lives, scans, slices>>
    BY Zenon
  <2> HIDE DEF ListSlices
  <2> QED
    BY <2>1, <2>2, <2>3 DEF IInv, TypeOK
<1>2. Goroutines'
  BY DEF IInv, TypeOK, Goroutines, Alive
<1>3. ManagerShape'
  BY NamedDriversFacts DEF IInv, TypeOK, Goroutines, ManagerShape, Alive
<1>4. Cleaned'
  BY DEF IInv, TypeOK, Goroutines, ManagerShape, Cleaned, Only, Alive
<1> QED
  BY <1>1, <1>2, <1>3, <1>4 DEF IInv

LEMMA DeleteSliceInv ==
  ASSUME IInv, NEW p \in Processes, NEW s \in victims[p], DeleteSlice(p, s)
  PROVE  IInv'
<1> USE DEF DeleteSlice, process, counters, Failure
<1>1. TypeOK'
  <2>1. missed' \in [Processes -> SUBSET ResourceSlice]
    BY DEF IInv, TypeOK
  <2>2. /\ victims' \in [Processes -> SUBSET ResourceSlice]
        /\ slices' \in SUBSET ResourceSlice
        /\ failures' \in 0 .. MaxFailures
    BY BoundsAssumption DEF IInv, TypeOK
  <2>3. UNCHANGED <<main, manager, cancelled, controllers, pools, held, toClean, lives, scans>>
    BY Zenon
  <2> HIDE DEF DeleteSlice
  <2> QED
    BY <2>1, <2>2, <2>3 DEF IInv, TypeOK
<1>2. Goroutines'
  BY DEF IInv, TypeOK, Goroutines, Alive
<1>3. ManagerShape'
  BY NamedDriversFacts DEF IInv, TypeOK, Goroutines, ManagerShape, Alive
<1>4. Cleaned'
  BY DEF IInv, TypeOK, Goroutines, ManagerShape, Cleaned, Only, Alive
<1> QED
  BY <1>1, <1>2, <1>3, <1>4 DEF IInv

LEMMA CleanupEndsInv ==
  ASSUME IInv, NEW p \in Processes, CleanupEnds(p)
  PROVE  IInv'
<1> USE DEF CleanupEnds, process, counters, Failure
<1>1. TypeOK'
  BY BoundsAssumption DEF IInv, TypeOK, Goroutines, ManagerShape
<1>2. Goroutines'
  BY DEF IInv, TypeOK, Goroutines, Alive
<1>3. ManagerShape'
  BY NamedDriversFacts DEF IInv, TypeOK, Goroutines, ManagerShape, Alive
<1>4. Cleaned'
  BY DEF IInv, TypeOK, Goroutines, ManagerShape, Cleaned, Only, Alive
<1> QED
  BY <1>1, <1>2, <1>3, <1>4 DEF IInv

LEMMA ScanPublishesInv ==
  ASSUME IInv, NEW p \in Processes, ScanPublishes(p)
  PROVE  IInv'
<1> USE DEF ScanPublishes, process, counters, Failure
<1>1. TypeOK'
  <2>1. PICK new \in ScanOutcomes(pools[p]) :
          /\ pools' = [pools EXCEPT ![p] = new]
          /\ held' = [held EXCEPT ![p] =
                        handedOver(held[p], new, needUpdate(pools[p], new))]
    OBVIOUS
  <2> DEFINE handed == handedOver(held[p], new, needUpdate(pools[p], new))
  <2>2. pools[p] \in PoolMap /\ held[p] \in PoolMap
    BY DEF IInv, TypeOK
  <2>3. new \in PoolMap
    BY <2>2, ScanOutcomeType
  <2>4. handed \in PoolMap
    BY <2>2, <2>3, HandedOverType
  <2>5. pools' = [pools EXCEPT ![p] = new] /\ held' = [held EXCEPT ![p] = handed]
    BY <2>1
  <2> HIDE DEF handed
  <2>6. pools' \in [Processes -> PoolMap] /\ held' \in [Processes -> PoolMap]
    BY <2>3, <2>4, <2>5 DEF IInv, TypeOK
  <2> QED
    BY <2>6, BoundsAssumption DEF IInv, TypeOK, ManagerShape
<1>2. Goroutines'
  BY DEF IInv, TypeOK, Goroutines, Alive
<1>3. ManagerShape'
  BY NamedDriversFacts DEF IInv, TypeOK, Goroutines, ManagerShape, Alive
<1>4. Cleaned'
  BY DEF IInv, TypeOK, Goroutines, ManagerShape, Cleaned, Only, Alive
<1> QED
  BY <1>1, <1>2, <1>3, <1>4 DEF IInv

LEMMA CreateSliceInv ==
  ASSUME IInv, NEW p \in Processes, NEW n \in PoolNames, CreateSlice(p, n)
  PROVE  IInv'
<1> USE DEF CreateSlice, process, counters, Failure
<1>1. TypeOK'
  <2>1. held[p][n] \in Pool
    BY DEF IInv, TypeOK, PoolMap, Lacking
  <2>2. PICK top \in {0} \cup {s.generation : s \in SlicesOf(n)} :
          slices' = slices \cup
              {[pool |-> n, devices |-> held[p][n].devices,
                generation |-> IF held[p][n].generation > top THEN held[p][n].generation
                               ELSE top + 1,
                owner |-> p]}
    OBVIOUS
  <2>3. top \in Nat
    BY DEF SlicesOf, IInv, TypeOK, ResourceSlice
  <2>4. /\ held[p][n].devices \in 0 .. MaxDevices
        /\ held[p][n].generation \in Nat \ {0}
    BY <2>1 DEF Pool
  <2>5. slices' \in SUBSET ResourceSlice
    BY <2>2, <2>3, <2>4 DEF ResourceSlice, IInv, TypeOK
  <2> QED
    BY <2>5 DEF IInv, TypeOK
<1>2. Goroutines'
  BY DEF IInv, TypeOK, Goroutines, Alive
<1>3. ManagerShape'
  BY NamedDriversFacts DEF IInv, TypeOK, Goroutines, ManagerShape, Alive
<1>4. Cleaned'
  BY DEF IInv, TypeOK, Goroutines, ManagerShape, Cleaned, Only, Alive
<1> QED
  BY <1>1, <1>2, <1>3, <1>4 DEF IInv

LEMMA DeleteObsoleteInv ==
  ASSUME IInv, NEW p \in Processes, NEW n \in PoolNames, NEW s \in slices, DeleteObsolete(p, n, s)
  PROVE  IInv'
<1> USE DEF DeleteObsolete, process, counters, Failure
<1>1. TypeOK'
  BY BoundsAssumption DEF IInv, TypeOK, Goroutines, ManagerShape
<1>2. Goroutines'
  BY DEF IInv, TypeOK, Goroutines, Alive
<1>3. ManagerShape'
  BY NamedDriversFacts DEF IInv, TypeOK, Goroutines, ManagerShape, Alive
<1>4. Cleaned'
  BY DEF IInv, TypeOK, Goroutines, ManagerShape, Cleaned, Only, Alive
<1> QED
  BY <1>1, <1>2, <1>3, <1>4 DEF IInv

-----------------------------------------------------------------------------
LEMMA NextIInv == IInv /\ [Next]_vars => IInv'
<1> SUFFICES ASSUME IInv, [Next]_vars PROVE IInv'
  OBVIOUS
<1>1. CASE UNCHANGED vars
  BY <1>1 DEF vars, process, counters, IInv, TypeOK, Goroutines, Alive, ManagerShape, Cleaned, Only
<1>2. ASSUME NEW p \in Processes, ManagerStep(p) PROVE IInv'
  BY <1>2, StartControllerInv, BeginScanInv, ScanPublishesInv, ScanFailsInv, LoopEndsInv,
     StopControllerInv, ListSlicesInv, DeleteSliceInv, CleanupEndsInv DEF ManagerStep
<1>3. ASSUME NEW p \in Processes, ControllerStep(p) PROVE IInv'
  BY <1>3, CreateSliceInv, DeleteObsoleteInv DEF ControllerStep
<1> QED
  BY <1>1, <1>2, <1>3, StartProcessInv, SignalInv, ExitInv, CrashInv, StartupFailsInv DEF Next

(* The inductive invariant holds in every reachable state. *)
THEOREM Invariance == Spec => []IInv
<1>1. Init => IInv
  BY InitIInv
<1>2. IInv /\ [Next]_vars => IInv'
  BY NextIInv
<1> QED
  BY <1>1, <1>2, PTL DEF Spec

-----------------------------------------------------------------------------
(* Every variable of every process keeps its type. *)
THEOREM ProcessTypeCorrect == Spec => []TypeOK
<1>1. IInv => TypeOK
  BY DEF IInv
<1> QED
  BY <1>1, Invariance, PTL

(* A process that was the only one leaves no slice of its pools behind,    *)
(* except those that the calls of its cleanup that failed were about.      *)
THEOREM ExitsClean == Spec => []CleanExit
<1>1. IInv => CleanExit
  BY DEF IInv, Cleaned, Only, CleanExit
<1> QED
  BY <1>1, Invariance, PTL

-----------------------------------------------------------------------------
(* What a process publishes and what its cleanup deletes.                  *)

(* The controllers hold the pools of the manager, and every slice the      *)
(* cleanup is about to delete is of a pool the process published.          *)
PublishedPools ==
    /\ held = pools
    /\ \A p \in Processes : \A s \in victims[p] : pools[p][s.pool] # NoPool

(* A step leaves the pools of a process alone, gives it new ones with a    *)
(* new life, or is the end of its scan.                                    *)
LEMMA PoolSteps ==
  ASSUME IInv, [Next]_vars, NEW p \in Processes
  PROVE  \/ pools'[p] = pools[p] /\ held'[p] = held[p]
         \/ /\ lives'[p] # lives[p]
            /\ pools'[p] = initDriverResources /\ held'[p] = initDriverResources
            /\ victims'[p] = {}
         \/ ScanPublishes(p) /\ victims'[p] = {}
<1>1. CASE \E q \in Processes : StartProcess(q)
  BY <1>1 DEF StartProcess, IInv, TypeOK, Goroutines, ManagerShape, Alive
<1>2. CASE \E q \in Processes : ScanPublishes(q)
  <2>1. PICK q \in Processes : ScanPublishes(q)
    BY <1>2
  <2>2. CASE q = p
    BY <2>1, <2>2 DEF ScanPublishes, IInv, ManagerShape
  <2>3. CASE q # p
    BY <2>1, <2>3 DEF ScanPublishes, IInv, TypeOK
  <2> QED
    BY <2>2, <2>3
<1>3. CASE ~ \E q \in Processes : StartProcess(q) \/ ScanPublishes(q)
  <2>1. pools' = pools /\ held' = held
    BY <1>3 DEF Next, ManagerStep, ControllerStep, vars, process, Signal, Exit, Crash,
       StartController, StartupFails, BeginScan, ScanFails, LoopEnds, StopController,
       ListSlices, DeleteSlice, CleanupEnds, CreateSlice, DeleteObsolete
  <2> QED
    BY <2>1
<1> QED
  BY <1>1, <1>2, <1>3

(* A step leaves the slices a process is about to delete alone, or lists   *)
(* those of its pools, deletes one of them, crashes.                       *)
LEMMA VictimSteps ==
  ASSUME IInv, [Next]_vars, NEW p \in Processes
  PROVE  \/ victims'[p] = victims[p]
         \/ /\ slices' = slices
            /\ \A s \in victims'[p] : pools[p][s.pool] # NoPool
         \/ \E s \in victims[p] : /\ victims'[p] = victims[p] \ {s}
                                  /\ slices \ slices' \subseteq {s}
<1>1. CASE \E q \in Processes, d \in Drivers : ListSlices(q, d)
  <2>1. PICK q \in Processes, d \in Drivers : ListSlices(q, d)
    BY <1>1
  <2> QED
    BY <2>1 DEF ListSlices, IInv, TypeOK
<1>2. CASE \E q \in Processes : \E s \in victims[q] : DeleteSlice(q, s)
  <2>1. PICK q \in Processes : \E s \in victims[q] : DeleteSlice(q, s)
    BY <1>2
  <2>2. PICK s \in victims[q] : DeleteSlice(q, s)
    BY <2>1
  <2> QED
    BY <2>2 DEF DeleteSlice, IInv, TypeOK
<1>3. CASE \E q \in Processes : Crash(q)
  BY <1>3 DEF Crash, IInv, TypeOK
<1>4. CASE \A q \in Processes :
              /\ ~Crash(q)
              /\ \A d \in Drivers : ~ListSlices(q, d)
              /\ ~ \E s \in victims[q] : DeleteSlice(q, s)
  <2>1. victims' = victims
    BY <1>4 DEF Next, ManagerStep, ControllerStep, vars, process, StartProcess, Signal, Exit,
       StartController, StartupFails, BeginScan, ScanPublishes, ScanFails, LoopEnds,
       StopController, CleanupEnds, CreateSlice, DeleteObsolete
  <2> QED
    BY <2>1
<1> QED
  BY <1>1, <1>2, <1>3, <1>4

LEMMA PublishedPoolsInv == IInv /\ PublishedPools /\ [Next]_vars => PublishedPools'
<1> SUFFICES ASSUME IInv, PublishedPools, [Next]_vars PROVE PublishedPools'
  OBVIOUS
<1>1. TypeOK /\ TypeOK' /\ held = pools
  BY NextIInv DEF IInv, PublishedPools
<1>2. ASSUME NEW p \in Processes
      PROVE  /\ held'[p] = pools'[p]
             /\ \A s \in victims'[p] : pools'[p][s.pool] # NoPool
  <2>1. CASE pools'[p] = pools[p] /\ held'[p] = held[p]
    BY <1>1, <2>1, VictimSteps DEF PublishedPools
  <2>2. CASE pools'[p] = initDriverResources /\ held'[p] = initDriverResources /\ victims'[p] = {}
    BY <2>2
  <2>3. CASE ScanPublishes(p) /\ victims'[p] = {}
    <3>1. PICK new \in ScanOutcomes(pools[p]) :
            /\ pools' = [pools EXCEPT ![p] = new]
            /\ held' = [held EXCEPT ![p] =
                          handedOver(held[p], new, needUpdate(pools[p], new))]
      BY <2>3 DEF ScanPublishes
    <3>2. pools[p] \in PoolMap /\ held[p] = pools[p]
      BY <1>1 DEF TypeOK
    <3>3. handedOver(held[p], new, needUpdate(pools[p], new)) = new
      BY <3>2, ScanOutcomeType, HandedOver
    <3> QED
      BY <1>1, <2>3, <3>1, <3>3 DEF TypeOK
  <2> QED
    BY <2>1, <2>2, <2>3, PoolSteps
<1>3. held' = pools'
  BY <1>1, <1>2 DEF TypeOK
<1> QED
  BY <1>2, <1>3 DEF PublishedPools

THEOREM PublishedInvariance == Spec => [](IInv /\ PublishedPools)
<1>1. Init => IInv /\ PublishedPools
  BY InitIInv DEF Init, PublishedPools
<1>2. IInv /\ PublishedPools /\ [Next]_vars => (IInv /\ PublishedPools)'
  BY NextIInv, PublishedPoolsInv
<1> QED
  BY <1>1, <1>2, PTL DEF Spec

(* The cleanup deletes no slice of a pool its process did not publish,     *)
(* whatever other processes did since it listed the slices                 *)
(* (cleanupResourceSlices).                                                *)
THEOREM CleanupOnlyOwnPools == Spec => CleanupSparesPools
<1> DEFINE Spares ==
      \A p \in Processes :
          manager[p] = "cleaning" /\ victims'[p] # victims[p] =>
              \A s \in slices \ slices' : pools[p][s.pool] # NoPool
<1>1. ASSUME IInv, PublishedPools, [Next]_vars, NEW p \in Processes,
             victims'[p] # victims[p], NEW s \in slices \ slices'
      PROVE  pools[p][s.pool] # NoPool
  BY <1>1, VictimSteps DEF PublishedPools
<1>2. IInv /\ PublishedPools /\ [Next]_vars => [Spares]_vars
  BY <1>1
<1> QED
  BY <1>2, PublishedInvariance, PTL DEF Spec, CleanupSparesPools

-----------------------------------------------------------------------------
(* What is published, and that it stays. *)

LEMMA ObsoleteSlices ==
  ASSUME NEW p \in Processes, NEW n \in PoolNames, NEW s \in Obsolete(p, n)
  PROVE  s \in slices /\ s.pool = n
BY DEF Obsolete, SlicesOf

(* The one slice of a published pool is what its controller looks for. *)
LEMMA PublishedIdle ==
  ASSUME IInv, PublishedPools, NEW p \in Processes, NEW n \in PoolNames, Published(p, n)
  PROVE  ~Lacking(p, n) /\ Obsolete(p, n) = {}
<1>1. held[p][n] = pools[p][n]
  BY DEF PublishedPools
<1>2. CASE pools[p][n] = NoPool
  BY <1>1, <1>2 DEF Published, Lacking, Obsolete
<1>3. CASE pools[p][n] # NoPool
  <2>1. PICK s \in slices : SlicesOf(n) = {s} /\ s.devices = held[p][n].devices
    BY <1>1, <1>3 DEF Published
  <2>2. s.generation \in Nat
    BY DEF IInv, TypeOK, ResourceSlice
  <2>3. Matching(p, n) = {s}
    BY <2>1, <2>2 DEF Matching, IsTopGeneration
  <2>4. (CHOOSE k \in Matching(p, n) : TRUE) = s
    BY <2>3
  <2> QED
    BY <1>1, <1>3, <2>1, <2>3, <2>4 DEF Lacking, Obsolete
<1> QED
  BY <1>2, <1>3

(* Controllers that have nothing left to do have published what the        *)
(* manager has in memory: one slice per pool with its devices, and nothing *)
(* of a pool it does not have.                                             *)
THEOREM IdleControllersPublished == Spec => []IdleHavePublished
<1>1. ASSUME IInv, PublishedPools, NEW p \in Processes, NEW n \in PoolNames,
             Alone(p), Idle(p, n)
      PROVE  Published(p, n)
  <2>1. held[p][n] = pools[p][n]
    BY <1>1 DEF PublishedPools
  <2>2. ~Lacking(p, n) /\ Obsolete(p, n) = {}
    <3>1. controllers[p] = NamedDrivers
      BY <1>1 DEF Alone, IInv, ManagerShape
    <3>2. DriverOf[n[1]] \in NamedDrivers
      BY NamedDriversFacts DEF PoolNames
    <3> QED
      BY <1>1, <3>1, <3>2 DEF Idle
  <2>3. CASE pools[p][n] = NoPool
    BY <2>1, <2>2, <2>3 DEF Obsolete, Published
  <2>4. CASE pools[p][n] # NoPool
    <3> DEFINE s == CHOOSE k \in Matching(p, n) : TRUE
    <3>1. s \in Matching(p, n)
      BY <2>1, <2>2, <2>4 DEF Lacking
    <3>2. s \in SlicesOf(n) /\ s \in slices /\ s.devices = pools[p][n].devices
      BY <2>1, <3>1 DEF Matching, SlicesOf
    <3>3. SlicesOf(n) \ {s} = {}
      BY <2>1, <2>2, <2>4 DEF Obsolete
    <3> HIDE DEF s
    <3> QED
      BY <2>4, <3>2, <3>3 DEF Published
  <2> QED
    BY <2>3, <2>4
<1>2. IInv /\ PublishedPools => IdleHavePublished
  BY <1>1 DEF IdleHavePublished
<1> QED
  BY <1>2, PublishedInvariance, PTL

(* The steps that change slices are those of running controllers and of a  *)
(* cleanup, so that a process left alone is the only one to take any.      *)
LEMMA SliceSteps ==
  ASSUME IInv, [Next]_vars, NEW p \in Processes, Alone(p)
  PROVE  \/ slices' = slices
         \/ \E m \in PoolNames : CreateSlice(p, m)
         \/ \E m \in PoolNames : \E s \in slices : DeleteObsolete(p, m, s)
<1>1. \A q \in Processes : Alive(q) => q = p
  BY DEF Alone
<1>2. ASSUME NEW q \in Processes, ControllerStep(q) PROVE q = p
  <2>1. controllers[q] # {}
    BY <1>2 DEF ControllerStep, CreateSlice, DeleteObsolete
  <2> QED
    BY <1>1, <2>1 DEF IInv, Goroutines
<1>3. ASSUME NEW q \in Processes, NEW s \in victims[q], DeleteSlice(q, s) PROVE FALSE
  <2>1. manager[q] = "cleaning"
    BY <1>3 DEF DeleteSlice
  <2>2. Alive(q)
    BY <2>1 DEF IInv, Goroutines
  <2> QED
    BY <1>1, <2>1, <2>2 DEF Alone
<1>4. CASE \E q \in Processes : ControllerStep(q)
  BY <1>2, <1>4 DEF ControllerStep
<1>5. CASE ~ \E q \in Processes : ControllerStep(q)
  BY <1>3, <1>5 DEF Next, ManagerStep, vars, StartProcess, Signal, Exit, Crash, StartController,
     StartupFails, BeginScan, ScanPublishes, ScanFails, LoopEnds, StopController, ListSlices,
     CleanupEnds
<1> QED
  BY <1>4, <1>5

(* Whatever a process that is left alone has published stays in the API    *)
(* server until a scan changes the pool.                                   *)
THEOREM PublishedForGood == Spec => PublishedStays
<1> DEFINE Stays ==
      \A p \in Processes, n \in PoolNames :
          Alone(p) /\ Alone(p)' /\ pools'[p][n] = pools[p][n] /\ Published(p, n)
             => Published(p, n)'
<1>1. ASSUME IInv, PublishedPools, [Next]_vars, NEW p \in Processes, NEW n \in PoolNames,
             Alone(p), pools'[p][n] = pools[p][n], Published(p, n)
      PROVE  Published(p, n)'
  <2>1. ~Lacking(p, n) /\ Obsolete(p, n) = {}
    BY <1>1, PublishedIdle
  <2>2. SlicesOf(n)' = SlicesOf(n)
    <3>1. CASE slices' = slices
      BY <3>1 DEF SlicesOf
    <3>2. ASSUME NEW m \in PoolNames, CreateSlice(p, m) PROVE SlicesOf(n)' = SlicesOf(n)
      <4>1. m # n
        BY <2>1, <3>2 DEF CreateSlice
      <4>2. PICK generation :
              slices' = slices \cup {[pool |-> m, devices |-> held[p][m].devices,
                                      generation |-> generation, owner |-> p]}
        BY <3>2 DEF CreateSlice
      <4> QED
        BY <4>1, <4>2 DEF SlicesOf
    <3>3. ASSUME NEW m \in PoolNames, NEW s \in slices, DeleteObsolete(p, m, s)
          PROVE  SlicesOf(n)' = SlicesOf(n)
      <4>1. s \in Obsolete(p, m) /\ slices' = slices \ {s}
        BY <3>3 DEF DeleteObsolete
      <4>2. s.pool # n
        BY <2>1, <4>1, ObsoleteSlices
      <4> QED
        BY <4>1, <4>2 DEF SlicesOf
    <3> QED
      BY <1>1, <3>1, <3>2, <3>3, SliceSteps
  <2> QED
    BY <1>1, <2>2 DEF Published, SlicesOf
<1>2. IInv /\ PublishedPools /\ [Next]_vars => [Stays]_vars
  BY <1>1
<1> QED
  BY <1>2, PublishedInvariance, PTL DEF Spec, PublishedStays
=============================================================================
