------------------------ MODULE ResourcePools_proofs ------------------------
(***************************************************************************)
(* Lemmas about the operators on resource pools, used by the proofs about  *)
(* the scan loop and about the processes.                                  *)
(***************************************************************************)
EXTENDS ResourcePools, TLAPS

(* updatePool: counting a pool yields a pool with the counted devices that *)
(* is the old one or newer by one generation.                              *)
LEMMA UpdatePool ==
  ASSUME NEW pool \in Pool \cup {NoPool}, NEW count \in 0 .. MaxDevices
  PROVE  /\ updatePool(pool, count) \in Pool
         /\ updatePool(pool, count).devices = count
         /\ pool = NoPool => updatePool(pool, count).generation = 1
         /\ pool # NoPool =>
              \/ updatePool(pool, count) = pool
              \/ /\ pool.devices # count
                 /\ updatePool(pool, count).generation = pool.generation + 1
  BY MaxDevicesAssumption, NoPoolAssumption DEF updatePool, generatePool, Pool

(* A scan keeps the map of pools well formed, when it has a count for      *)
(* every model on the fabrics it asked about.                              *)
LEMMA ScannedPoolsType ==
  ASSUME NEW old \in PoolMap, NEW scanned, NEW avail,
         \A f \in scanned, m \in Models : avail[f][m] \in 0 .. MaxDevices
  PROVE  scannedPools(old, scanned, avail) \in PoolMap
<1> SUFFICES ASSUME NEW p \in PoolNames
             PROVE  scannedPools(old, scanned, avail)[p] \in Pool \cup {NoPool}
  BY DEF scannedPools, PoolMap
<1>1. old[p] \in Pool \cup {NoPool}
  BY DEF PoolMap
<1>2. p[1] \in Models
  BY DEF PoolNames
<1> QED
  BY <1>1, <1>2, UpdatePool DEF scannedPools

(* What a scan does to one pool: nothing, or it appears with generation 1, *)
(* or its devices change and with them its generation, by one.             *)
LEMMA ScannedPool ==
  ASSUME NEW old \in PoolMap, NEW scanned, NEW avail,
         \A f \in scanned, m \in Models : avail[f][m] \in 0 .. MaxDevices,
         NEW new, new = scannedPools(old, scanned, avail),
         NEW p \in PoolNames
  PROVE  \/ new[p] = old[p]
         \/ old[p] = NoPool /\ new[p] \in Pool /\ new[p].generation = 1
         \/ /\ old[p] # NoPool
            /\ new[p] \in Pool
            /\ new[p].devices # old[p].devices
            /\ new[p].generation = old[p].generation + 1
<1>1. old[p] \in Pool \cup {NoPool} /\ p[1] \in Models
  BY DEF PoolMap, PoolNames
<1>2. CASE p[2] \notin scanned
  BY <1>2 DEF scannedPools
<1>3. CASE p[2] \in scanned
  <2> DEFINE count == avail[p[2]][p[1]]
  <2>1. count \in 0 .. MaxDevices
    BY <1>1, <1>3
  <2>2. new[p] = updatePool(old[p], count)
    BY <1>3 DEF scannedPools
  <2> HIDE DEF count
  <2> QED
    BY <1>1, <2>1, <2>2, UpdatePool
<1> QED
  BY <1>2, <1>3

(* The outcome of a scan names the fabrics it asked about, at least one,   *)
(* and a count within bounds for each of their pools.                      *)
LEMMA ScanOutcome ==
  ASSUME NEW old, NEW new \in ScanOutcomes(old)
  PROVE  \E scanned \in SUBSET Fabrics :
            \E avail \in [scanned -> [Models -> 0 .. MaxDevices]] :
                scanned # {} /\ new = scannedPools(old, scanned, avail)
<1>1. PICK scanned \in (SUBSET Fabrics) \ {{}} :
        new \in {scannedPools(old, scanned, avail) :
                    avail \in [scanned -> [Models -> 0 .. MaxDevices]]}
  BY DEF ScanOutcomes
<1>2. PICK avail \in [scanned -> [Models -> 0 .. MaxDevices]] :
        new = scannedPools(old, scanned, avail)
  BY <1>1
<1> QED
  BY <1>1, <1>2

(* So it is a map of pools again. *)
LEMMA ScanOutcomeType ==
  ASSUME NEW old \in PoolMap, NEW new \in ScanOutcomes(old)
  PROVE  new \in PoolMap
<1>1. PICK scanned \in SUBSET Fabrics :
        \E avail \in [scanned -> [Models -> 0 .. MaxDevices]] :
            new = scannedPools(old, scanned, avail)
  BY ScanOutcome
<1>2. PICK avail \in [scanned -> [Models -> 0 .. MaxDevices]] :
        new = scannedPools(old, scanned, avail)
  BY <1>1
<1>3. \A f \in scanned, m \in Models : avail[f][m] \in 0 .. MaxDevices
  OBVIOUS
<1> QED
  BY <1>2, <1>3, ScannedPoolsType

(* manageCDIResourceSlices: the controllers of the drivers with a changed  *)
(* pool are updated, so controllers that held the old pools hold the new.  *)
LEMMA HandedOver ==
  ASSUME NEW old \in PoolMap, NEW new \in PoolMap
  PROVE  handedOver(old, new, needUpdate(old, new)) = new
<1> DEFINE h == handedOver(old, new, needUpdate(old, new))
<1>1. ASSUME NEW p \in PoolNames PROVE h[p] = new[p]
  <2>1. CASE new[p] = old[p]
    BY <2>1 DEF handedOver
  <2>2. CASE new[p] # old[p]
    BY <2>2 DEF handedOver, needUpdate
  <2> QED
    BY <2>1, <2>2
<1> QED
  BY <1>1 DEF handedOver, PoolMap

(* Whatever the controllers are handed is a map of pools. *)
LEMMA HandedOverType ==
  ASSUME NEW old \in PoolMap, NEW new \in PoolMap, NEW drivers
  PROVE  handedOver(old, new, drivers) \in PoolMap
BY DEF handedOver, PoolMap
=============================================================================
