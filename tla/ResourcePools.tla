--------------------------- MODULE ResourcePools ---------------------------
(***************************************************************************)
(* The resource pools the manager keeps in memory and how one scan of the  *)
(* fabrics changes them (pkg/manager/manager.go, updatePool and the        *)
(* functions around it).  Constant-level: the modules that model running   *)
(* code EXTEND this one.                                                   *)
(*                                                                         *)
(* There is one pool per device model and fabric; the code names it        *)
(* k8sDeviceName + "-fabric" + fabricID, which is injective because the    *)
(* configuration rejects two models of one name, so a pool is known here   *)
(* by the pair itself.  A pool is abstracted to how many devices its only  *)
(* slice lists and to its generation: the devices of a pool differ only in *)
(* their number, and its node selector is a function of its name.          *)
(***************************************************************************)
EXTENDS Integers

CONSTANTS
    NumModels,    \* how many device models the ConfigMap lists
    Fabrics,      \* the fabrics of the fabric manager
    Drivers,      \* the DRA driver names
    DriverOf,     \* the driver of every device model
    MaxDevices,   \* the largest count a scan accepts (128 in the code)
    NoPool        \* stands for a pool that is not in the map yet

Models == 1 .. NumModels    \* a model is its place in the list deviceInfos

ASSUME ModelsAssumption == NumModels \in Nat \ {0}
ASSUME DriverAssumption == DriverOf \in [Models -> Drivers]
ASSUME MaxDevicesAssumption == MaxDevices \in Nat

PoolNames == Models \X Fabrics

Pool == [devices : 0 .. MaxDevices, generation : Nat \ {0}]

ASSUME NoPoolAssumption == NoPool \notin Pool

PoolMap == [PoolNames -> Pool \cup {NoPool}]

(* What initDriverResources leaves: every driver, none with a pool. *)
initDriverResources == [p \in PoolNames |-> NoPool]

generatePool(count, generation) ==
    [devices |-> count, generation |-> generation]

(* Faulty variants of the next definition: the generation stays when the   *)
(* devices change, or starts at 0; a pool without devices is not published; *)
(* a pool is only updated when its count grows.                            *)
updatePool_fromZero(pool, count) ==
    IF pool = NoPool THEN generatePool(count, 0)
    ELSE IF pool.devices # count THEN generatePool(count, pool.generation + 1)
    ELSE pool
updatePool_sameGeneration(pool, count) ==
    IF pool = NoPool THEN generatePool(count, 1)
    ELSE generatePool(count, pool.generation)
updatePool_skipsEmpty(pool, count) ==
    IF pool = NoPool /\ count = 0 THEN NoPool
    ELSE IF pool = NoPool THEN generatePool(count, 1)
    ELSE IF pool.devices # count THEN generatePool(count, pool.generation + 1)
    ELSE pool
updatePool_onlyGrows(pool, count) ==
    IF pool = NoPool THEN generatePool(count, 1)
    ELSE IF pool.devices < count THEN generatePool(count, pool.generation + 1)
    ELSE pool

(* The pool after a scan counted `count' free devices for it. *)
updatePool(pool, count) ==
    IF pool = NoPool THEN generatePool(count, 1)
    ELSE IF pool.devices # count THEN generatePool(count, pool.generation + 1)
    ELSE pool

(* All pools after a scan that asked about the fabrics in `scanned'; the   *)
(* pools of other fabrics stay.  avail[f][m] is the count of model m.      *)
scannedPools(pools, scanned, avail) ==
    [p \in PoolNames |-> IF p[2] \in scanned
                         THEN updatePool(pools[p], avail[p[2]][p[1]])
                         ELSE pools[p]]

(* Faulty variant of the next definition: only new pools are announced. *)
needUpdate_newPools(old, new) ==
    {DriverOf[p[1]] : p \in {q \in PoolNames : old[q] = NoPool /\ new[q] # NoPool}}

(* The drivers with a pool that changed. *)
needUpdate(old, new) == {DriverOf[p[1]] : p \in {q \in PoolNames : new[q] # old[q]}}

(* What the slice controllers hold after Update was called with the new    *)
(* pools on the controllers of the drivers in `drivers'.                   *)
handedOver(desired, pools, drivers) ==
    [p \in PoolNames |-> IF DriverOf[p[1]] \in drivers THEN pools[p] ELSE desired[p]]

(* The pools one scan can make of these: it has a count for every model on *)
(* some fabrics, and none on the others.                                   *)
ScanOutcomes(pools) ==
    UNION {{scannedPools(pools, scanned, avail) :
               avail \in [scanned -> [Models -> 0 .. MaxDevices]]} :
           scanned \in (SUBSET Fabrics) \ {{}}}
=============================================================================
