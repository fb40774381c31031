---------------------- MODULE ResourcePoolLoop_proofs ----------------------
(***************************************************************************)
(* Theorems about the scan loop, for any numbers of nodes, machines,       *)
(* fabrics, models, drivers, node groups and upsets.                       *)
(***************************************************************************)
EXTENDS ResourcePoolLoop, ResourcePools_proofs, TLAPS, FiniteSetTheorems,
        WellFoundedInduction

-----------------------------------------------------------------------------
(* Operators. *)

(* A set of list positions has a largest one: the last node group that     *)
(* lists a machine and the last resspec that sets a bound exist.           *)
LEMMA MaxExists ==
  ASSUME NEW n \in Nat, NEW S \in SUBSET (1 .. n), S # {}
  PROVE  \E x \in S : \A y \in S : y <= x
<1> DEFINE T == {n - x : x \in S}
<1>1. T \subseteq Nat /\ T # {}
  <2>1. ASSUME NEW x \in S PROVE n - x \in Nat
    OBVIOUS
  <2>2. PICK x \in S : TRUE
    OBVIOUS
  <2> QED
    BY <2>1, <2>2
<1>2. PICK t \in T : \A s \in T : ~ (<<s, t>> \in OpToRel(<, Nat))
  BY <1>1, NatLessThanWellFounded, WFMin
<1>3. PICK x \in S : t = n - x
  OBVIOUS
<1>4. \A y \in S : y <= x
  <2> TAKE y \in S
  <2>1. n - y \in T
    OBVIOUS
  <2>2. ~ (n - y < t)
    <3>1. <<n - y, t>> \notin OpToRel(<, Nat)
      BY <1>2, <2>1
    <3> QED
      BY <3>1, <2>1, <1>1 DEF OpToRel
  <2> QED
    BY <2>2, <1>3
<1> QED
  BY <1>4

(* getMachineUUIDs and the node groups: a machine is in a group or in none. *)
LEMMA NodeGroupType ==
  ASSUME NEW infos, NEW uuid
  PROVE  NodeGroupOf(infos, uuid) \in Groups \cup {None}
<1> DEFINE found == {g \in Groups : g <= Len(infos) /\ uuid \in infos[g]}
<1>1. CASE found = {}
  BY <1>1 DEF NodeGroupOf
<1>2. CASE found # {}
  <2>1. \E g \in found : \A h \in found : h <= g
    BY <1>2, MaxExists, GroupsAssumption DEF Groups
  <2>2. (CHOOSE g \in found : \A h \in found : h <= g) \in found
    BY <2>1
  <2> QED
    BY <2>2, <1>2 DEF NodeGroupOf
<1> QED
  BY <1>1, <1>2

(* getMinMaxNums answers a bound that is a number or nil. *)
LEMMA LimitType ==
  ASSUME NEW list \in Seq(ResSpec), NEW m \in Models
  PROVE  LimitOf(list, m) \in Limit
<1>1. ASSUME NEW bound \in {"min", "max"}
      PROVE  LastSet(list, m, bound) \in Nat \cup {None}
  <2> DEFINE hits == {i \in DOMAIN list : list[i].model = m /\ list[i][bound] # None}
  <2>1. CASE hits = {}
    BY <2>1 DEF LastSet
  <2>2. CASE hits # {}
    <3>1. DOMAIN list = 1 .. Len(list) /\ Len(list) \in Nat
      OBVIOUS
    <3>2. \E i \in hits : \A j \in hits : j <= i
      <4>1. hits \in SUBSET (1 .. Len(list))
        BY <3>1
      <4> HIDE DEF hits
      <4> QED
        BY <4>1, <2>2, <3>1, MaxExists
    <3> DEFINE last == CHOOSE i \in hits : \A j \in hits : j <= i
    <3>3. last \in hits
      BY <3>2
    <3>4. LastSet(list, m, bound) = list[last][bound]
      BY <2>2 DEF LastSet
    <3>5. list[last] \in ResSpec
      BY <3>1, <3>3
    <3> HIDE DEF last
    <3> QED
      BY <3>4, <3>5 DEF ResSpec
  <2> QED
    BY <2>1, <2>2
<1> QED
  BY <1>1 DEF LimitOf, Limit

-----------------------------------------------------------------------------
(* The inductive invariant.  Besides the properties it says what the steps *)
(* of a scan leave to the steps after them.                                *)

ScanShape ==
    /\ scan.step = "bmh" => scan.found # None
    /\ scan.step = "groupInfo" => Len(scan.ngInfos) < NumGroups
    /\ scan.step \in {"free", "limits", "slices", "label"} => scan.machines # << >>
    /\ scan.step \in {"limits", "slices"} => AllCountsKnown(scan.avail)
    /\ scan.step \in {"slices", "label"} /\ UseCM => AllLimitsKnown(scan.limits)
    /\ scan.step = "label" =>
          \A i \in DOMAIN scan.machines, m \in Models :
              desired[<<m, scan.machines[i].fabricID>>] # NoPool

IInv == TypeOK /\ ScanShape /\ ControllersInformed /\ LabelBacked

LEMMA NoScanType == NoScan \in Locals /\ NoScan.step = "idle"
<1>1. << >> \in Seq(SUBSET Machines) /\ << >> \in Seq(Machine)
  OBVIOUS
<1> QED
  BY <1>1 DEF NoScan, Locals, Steps

(* The initial states satisfy the invariant. *)
LEMMA InitIInv == Init => IInv
<1> SUFFICES ASSUME Init PROVE IInv
  OBVIOUS
<1>1. initDriverResources \in PoolMap
  BY DEF initDriverResources, PoolMap
<1>2. labels \in [Nodes -> Labels]
  BY DEF Init, NoLabels, Labels
<1>3. TypeOK
  BY <1>1, <1>2, NoScanType, MaxUpsetsAssumption DEF Init, TypeOK
<1>4. ScanShape
  BY NoScanType DEF Init, ScanShape
<1>5. ControllersInformed /\ LabelBacked
  BY DEF Init, ControllersInformed, LabelBacked, NoLabels
<1> QED
  BY <1>3, <1>4, <1>5 DEF IInv

(* A step that only changes the scan has only the scan to answer for. *)
LEMMA ScanOnly ==
  ASSUME IInv, UNCHANGED <<world, published>>, scan' \in Locals, ScanShape'
  PROVE  IInv'
  BY DEF IInv, TypeOK, ControllersInformed, LabelBacked, world, k8sVars, fmVars,
         cmVars, published

(* A scan that ends before it publishes anything keeps the invariant. *)
LEMMA ScanEnds ==
  ASSUME IInv, UNCHANGED <<world, published>>, scan' = NoScan
  PROVE  IInv'
<1>1. scan' \in Locals /\ ScanShape'
  BY NoScanType DEF ScanShape
<1> QED
  BY <1>1, ScanOnly

(* getMachineUUIDs. *)
LEMMA ListProviderIDsInv == IInv /\ ListProviderIDs => IInv'
<1> SUFFICES ASSUME IInv, ListProviderIDs PROVE IInv'
  OBVIOUS
<1> DEFINE ids == {nodeStore[n] : n \in Nodes} \cap ProviderIDs
<1>1. CASE ids = {}
  BY <1>1, ScanEnds DEF ListProviderIDs
<1>2. CASE ids # {}
  <2>1. scan' = [NoScan EXCEPT !.step = "resolve", !.pending = ids]
    BY <1>2 DEF ListProviderIDs
  <2>2. scan' \in Locals /\ scan'.step = "resolve"
    BY <2>1, NoScanType DEF Locals, Steps
  <2>3. ScanShape'
    BY <2>2 DEF ScanShape
  <2> QED
    BY <2>2, <2>3, ScanOnly DEF ListProviderIDs
<1> QED
  BY <1>1, <1>2

LEMMA ResolvedInv ==
  ASSUME IInv, UNCHANGED <<world, published>>,
         NEW uuids \in [Nodes -> Machines \cup {None}],
         NEW pending \in SUBSET ProviderIDs,
         Resolved(uuids, pending)
  PROVE  IInv'
<1>1. CASE pending = {} /\ \A n \in Nodes : uuids[n] = None
  BY <1>1, ScanEnds DEF Resolved
<1>2. CASE pending # {}
  <2>1. scan' \in Locals /\ scan'.step = "resolve"
    BY <1>2, NoScanType DEF Resolved, Locals, Steps
  <2> QED
    BY <2>1, ScanOnly DEF ScanShape
<1>3. CASE pending = {} /\ ~ \A n \in Nodes : uuids[n] = None
  <2>1. scan' \in Locals /\ scan'.step = "machines"
    BY <1>3, NoScanType DEF Resolved, Locals, Steps
  <2> QED
    BY <2>1, ScanOnly DEF ScanShape
<1> QED
  BY <1>1, <1>2, <1>3

LEMMA FindNodeNameInv ==
  ASSUME IInv, NEW p \in ProviderIDs, FindNodeNameByProviderID(p)
  PROVE  IInv'
<1> DEFINE names == {n \in Nodes : nodeStore[n] = p}
           rest == scan.pending \ {p}
<1>1. scan \in Locals /\ UNCHANGED <<world, published>>
  BY DEF IInv, TypeOK, FindNodeNameByProviderID
<1>2. rest \in SUBSET ProviderIDs /\ scan.uuids \in [Nodes -> Machines \cup {None}]
  BY <1>1 DEF Locals
<1>3. CASE Resolved(scan.uuids, rest)
  BY <1>1, <1>2, <1>3, ResolvedInv
<1>4. ASSUME NEW n \in Nodes, ~UseCapiBmh, Resolved([scan.uuids EXCEPT ![n] = p], rest)
      PROVE  IInv'
  <2>1. [scan.uuids EXCEPT ![n] = p] \in [Nodes -> Machines \cup {None}]
    BY <1>2, <1>4, ProviderAssumption
  <2> QED
    BY <2>1, <1>1, <1>2, <1>4, ResolvedInv
<1>5. ASSUME NEW n \in Nodes,
             scan' = [scan EXCEPT !.step = "bmh", !.pending = rest, !.found = <<n, p>>]
      PROVE  IInv'
  <2>1. /\ scan' \in Locals
        /\ scan'.step = "bmh"
        /\ scan'.found = <<n, p>>
    BY <1>1, <1>2, <1>5 DEF Locals, Steps
  <2>2. <<n, p>> # None
    BY NoneAssumption
  <2> QED
    BY <1>1, <2>1, <2>2, ScanOnly DEF ScanShape
<1>6. CASE scan' = NoScan
  BY <1>1, <1>6, ScanEnds
<1> QED
  BY <1>3, <1>4, <1>5, <1>6 DEF FindNodeNameByProviderID

LEMMA FindMachineUUIDInv == IInv /\ FindMachineUUIDByProviderID => IInv'
<1> SUFFICES ASSUME IInv, FindMachineUUIDByProviderID PROVE IInv'
  OBVIOUS
<1>1. scan \in Locals /\ UNCHANGED <<world, published>>
  BY DEF IInv, TypeOK, FindMachineUUIDByProviderID
<1>2. PICK n \in Nodes, p \in ProviderIDs : scan.found = <<n, p>>
  BY <1>1 DEF IInv, ScanShape, FindMachineUUIDByProviderID, Locals
<1>3. bmhStore[p] \in Machines \cup {None}
  BY DEF IInv, TypeOK
<1> DEFINE uuids == IF bmhStore[p] = None THEN scan.uuids
                    ELSE [scan.uuids EXCEPT ![n] = bmhStore[p]]
<1>4. uuids \in [Nodes -> Machines \cup {None}] /\ scan.pending \in SUBSET ProviderIDs
  BY <1>1, <1>3 DEF Locals
<1>5. Resolved(uuids, scan.pending)
  BY <1>2 DEF FindMachineUUIDByProviderID
<1> QED
  BY <1>1, <1>4, <1>5, ResolvedInv

(* The machine list, the node groups, the machines. *)
LEMMA GetMachineListInv == IInv /\ getMachineList => IInv'
<1> SUFFICES ASSUME IInv, getMachineList PROVE IInv'
  OBVIOUS
<1>1. scan \in Locals /\ UNCHANGED <<world, published>>
  BY DEF IInv, TypeOK, getMachineList
<1>2. scan' \in Locals /\ scan'.step \in {"groups", "create"}
  BY <1>1 DEF getMachineList, IInv, TypeOK, Locals, Steps
<1> QED
  BY <1>1, <1>2, ScanOnly DEF ScanShape

LEMMA GetNodeGroupsInv == IInv /\ getNodeGroups => IInv'
<1> SUFFICES ASSUME IInv, getNodeGroups PROVE IInv'
  OBVIOUS
<1>1. scan \in Locals /\ UNCHANGED <<world, published>>
  BY DEF IInv, TypeOK, getNodeGroups
<1>2. /\ scan' \in Locals
      /\ scan'.ngInfos = << >>
      /\ scan'.step = GroupStep(<< >>)
  <2>1. << >> \in Seq(SUBSET Machines)
    OBVIOUS
  <2> QED
    BY <1>1, <2>1 DEF getNodeGroups, GroupStep, Locals, Steps
<1> QED
  BY <1>1, <1>2, ScanOnly DEF ScanShape, GroupStep

LEMMA GetNodeGroupInfoInv == IInv /\ getNodeGroupInfo => IInv'
<1> SUFFICES ASSUME IInv, getNodeGroupInfo PROVE IInv'
  OBVIOUS
<1> DEFINE g == Len(scan.ngInfos) + 1
           infos == Append(scan.ngInfos, members[g])
<1>1. /\ scan \in Locals /\ UNCHANGED <<world, published>>
      /\ scan.ngInfos \in Seq(SUBSET Machines)
  BY DEF IInv, TypeOK, getNodeGroupInfo, Locals
<1>2. g \in Groups
  BY <1>1, GroupsAssumption DEF IInv, ScanShape, getNodeGroupInfo, Groups
<1>3. members[g] \in SUBSET Machines
  BY <1>2 DEF IInv, TypeOK
<1>4. infos \in Seq(SUBSET Machines)
  BY <1>1, <1>3
<1>5. /\ scan' \in Locals
      /\ scan'.ngInfos = infos
      /\ scan'.step = GroupStep(infos)
  <2> HIDE DEF infos
  <2>1. scan' = [scan EXCEPT !.ngInfos = infos, !.step = GroupStep(infos)]
    BY DEF getNodeGroupInfo, infos
  <2> QED
    BY <1>1, <1>4, <2>1 DEF GroupStep, Locals, Steps
<1>6. ScanShape'
  <2> HIDE DEF infos
  <2> QED
    BY <1>5 DEF ScanShape, GroupStep
<1> QED
  BY <1>1, <1>5, <1>6, ScanOnly

LEMMA CreateMachinesInv == IInv /\ CreateMachines => IInv'
<1> SUFFICES ASSUME IInv, CreateMachines PROVE IInv'
  OBVIOUS
<1> DEFINE known == {n \in Nodes : /\ scan.uuids[n] # None
                                   /\ scan.mList[scan.uuids[n]] # None}
<1>1. scan \in Locals /\ UNCHANGED <<world, published>>
  BY DEF IInv, TypeOK, CreateMachines
<1>2. CASE scan' = NoScan
  BY <1>1, <1>2, ScanEnds
<1>3. ASSUME NEW order \in [1 .. Cardinality(known) -> known],
             known # {},
             \A n \in known : \E i \in DOMAIN order : order[i] = n,
             scan' = [NoScan EXCEPT !.step = "free",
                        !.machines = [i \in DOMAIN order |-> MachineOf(order[i])]]
      PROVE  IInv'
  <2> DEFINE ms == [i \in DOMAIN order |-> MachineOf(order[i])]
  <2>1. ASSUME NEW n \in known PROVE MachineOf(n) \in Machine
    <3>1. scan.uuids[n] \in Machines
      BY <1>1 DEF Locals
    <3>2. scan.mList[scan.uuids[n]] \in Fabrics
      BY <1>1, <3>1 DEF Locals
    <3>3. NodeGroupOf(scan.ngInfos, scan.uuids[n]) \in Groups \cup {None}
      BY NodeGroupType
    <3> QED
      BY <3>1, <3>2, <3>3 DEF MachineOf, Machine
  <2>2. Cardinality(known) \in Nat
    BY NodesAssumption, FS_Subset, FS_CardinalityType
  <2>3. ms \in [1 .. Cardinality(known) -> Machine]
    BY <2>1
  <2>4. ms \in Seq(Machine)
    <3> HIDE DEF ms, known
    <3> QED
      BY <2>2, <2>3
  <2>5. ms # << >>
    <3>1. PICK i \in DOMAIN order : TRUE
      BY <1>3
    <3>2. DOMAIN ms # {}
      BY <3>1
    <3> HIDE DEF ms
    <3> QED
      BY <3>2
  <2>6. /\ scan' \in Locals
        /\ scan'.step = "free"
        /\ scan'.machines = ms
    <3>1. scan' = [NoScan EXCEPT !.step = "free", !.machines = ms]
      BY <1>3
    <3> HIDE DEF ms
    <3> QED
      BY <2>4, <3>1, NoScanType DEF Locals, Steps
  <2>7. ScanShape'
    BY <2>5, <2>6 DEF ScanShape
  <2> QED
    BY <1>1, <2>6, <2>7, ScanOnly
<1> QED
  BY <1>2, <1>3 DEF CreateMachines

(* The questions about free devices and limits. *)
LEMMA GetAvailableNumsInv ==
  ASSUME IInv, NEW i \in DOMAIN scan.machines, NEW m \in Models, getAvailableNums(i, m)
  PROVE  IInv'
<1> DEFINE f == scan.machines[i].fabricID
           now == fabricOf[scan.machines[i].machineUUID]
           avail == [scan.avail EXCEPT ![f][m] = free[now][m]]
           step == IF AllCountsKnown(avail) THEN AfterCounts ELSE "free"
<1>1. /\ scan \in Locals /\ UNCHANGED <<world, published>>
      /\ scan.machines \in Seq(Machine) /\ scan.machines # << >>
  BY DEF IInv, TypeOK, getAvailableNums, Locals, ScanShape
<1>2. f \in Fabrics /\ now \in Fabrics \cup {None}
  <2>1. scan.machines[i] \in Machine
    BY <1>1
  <2> QED
    BY <2>1 DEF Machine, IInv, TypeOK
<1>3. CASE scan' = NoScan
  BY <1>1, <1>3, ScanEnds
<1>4. ASSUME now # None, free[now][m] <= MaxDevices,
             scan' = [scan EXCEPT !.avail = avail, !.step = step]
      PROVE  IInv'
  <2>1. free[now][m] \in 0 .. MaxDevices
    <3>1. free[now][m] \in 0 .. MaxDevices + 1
      BY <1>2, <1>4 DEF IInv, TypeOK
    <3> QED
      BY <3>1, <1>4, MaxDevicesAssumption
  <2>2. avail \in [Fabrics -> [Models -> (0 .. MaxDevices) \cup {None}]]
    BY <1>1, <1>2, <2>1 DEF Locals
  <2>3. step \in {"free", "limits", "slices"}
    BY DEF AfterCounts
  <2> HIDE DEF avail, step
  <2>4. /\ scan' \in Locals
        /\ scan'.step = step
        /\ scan'.avail = avail
        /\ scan'.machines = scan.machines
        /\ scan'.limits = scan.limits
    BY <1>1, <1>4, <2>2, <2>3 DEF Locals, Steps
  <2>5. step \in {"limits", "slices"} => AllCountsKnown(avail)
    BY DEF step
  <2>6. AllCountsKnown(avail) => AllCountsKnown(scan.avail)'
    BY <2>4 DEF AllCountsKnown, CountsKnown
  <2>7. step = "slices" /\ UseCM => AllLimitsKnown(scan.limits)'
    BY <2>4 DEF step, AfterCounts, AllLimitsKnown, LimitsKnown
  <2>8. ScanShape'
    BY <1>1, <2>3, <2>4, <2>5, <2>6, <2>7 DEF ScanShape
  <2> QED
    BY <1>1, <2>4, <2>8, ScanOnly
<1> QED
  BY <1>3, <1>4 DEF getAvailableNums

LEMMA GetMinMaxNumsInv ==
  ASSUME IInv, NEW i \in DOMAIN scan.machines, NEW m \in Models, getMinMaxNums(i, m)
  PROVE  IInv'
<1> DEFINE g == scan.machines[i].nodeGroup
           limit == LimitOf(specs[scan.machines[i].machineUUID], m)
           limits == [scan.limits EXCEPT ![g][m] = limit]
           step == IF AllLimitsKnown(limits) THEN "slices" ELSE "limits"
<1>1. /\ scan \in Locals /\ UNCHANGED <<world, published>>
      /\ scan.machines \in Seq(Machine) /\ scan.machines # << >>
      /\ AllCountsKnown(scan.avail)
  BY DEF IInv, TypeOK, getMinMaxNums, Locals, ScanShape
<1>2. limit \in Limit
  <2>1. scan.machines[i] \in Machine
    BY <1>1
  <2>2. specs[scan.machines[i].machineUUID] \in Seq(ResSpec)
    BY <2>1, SpecListsAssumption DEF Machine, IInv, TypeOK
  <2> QED
    BY <2>2, LimitType
<1>3. limits \in [Groups -> [Models -> Limit \cup {None}]]
  <2> HIDE DEF limit, g
  <2> QED
    BY <1>1, <1>2 DEF Locals
<1>4. scan' = [scan EXCEPT !.limits = limits, !.step = step]
  BY DEF getMinMaxNums
<1>5. step \in {"limits", "slices"}
  OBVIOUS
<1> HIDE DEF limits, step
<1>6. /\ scan' \in Locals
      /\ scan'.step = step
      /\ scan'.avail = scan.avail
      /\ scan'.machines = scan.machines
      /\ scan'.limits = limits
  BY <1>1, <1>3, <1>4, <1>5 DEF Locals, Steps
<1>7. /\ AllCountsKnown(scan.avail)'
      /\ step = "slices" => AllLimitsKnown(scan.limits)'
  BY <1>1, <1>6 DEF step, AllCountsKnown, CountsKnown, AllLimitsKnown, LimitsKnown
<1>8. ScanShape'
  BY <1>1, <1>5, <1>6, <1>7 DEF ScanShape
<1> QED
  BY <1>1, <1>6, <1>8, ScanOnly

(* What a scan does to the pools and how it tells the controllers.  It is  *)
(* stated apart from the invariant because the refinement needs it too.    *)
LEMMA ManageSlices ==
  ASSUME IInv, manageCDIResourceSlices
  PROVE  /\ pools' = scannedPools(pools, ScannedFabrics, scan.avail)
         /\ desired' = pools'
         /\ pools' \in PoolMap
         /\ \A f \in ScannedFabrics, m \in Models : scan.avail[f][m] \in 0 .. MaxDevices
<1>1. scan \in Locals /\ pools \in PoolMap /\ desired = pools
  BY DEF IInv, TypeOK, ControllersInformed
<1>2. ASSUME NEW f \in ScannedFabrics, NEW m \in Models
      PROVE  scan.avail[f][m] \in 0 .. MaxDevices
  <2>1. PICK i \in DOMAIN scan.machines : f = scan.machines[i].fabricID
    BY DEF ScannedFabrics
  <2>2. scan.machines[i] \in Machine
    BY <1>1 DEF Locals
  <2>3. scan.avail[f][m] # None
    BY <2>1 DEF IInv, ScanShape, manageCDIResourceSlices, AllCountsKnown, CountsKnown
  <2>4. f \in Fabrics
    BY <2>1, <2>2 DEF Machine
  <2> QED
    BY <1>1, <2>3, <2>4 DEF Locals
<1>3. scannedPools(pools, ScannedFabrics, scan.avail) \in PoolMap
  BY <1>1, <1>2, ScannedPoolsType
<1> QED
  BY <1>1, <1>2, <1>3, HandedOver DEF manageCDIResourceSlices

LEMMA ManageSlicesInv == IInv /\ manageCDIResourceSlices => IInv'
<1> SUFFICES ASSUME IInv, manageCDIResourceSlices PROVE IInv'
  OBVIOUS
<1>1. /\ scan \in Locals
      /\ scan.machines \in Seq(Machine) /\ scan.machines # << >>
      /\ pools \in PoolMap /\ desired = pools
  BY DEF IInv, TypeOK, ControllersInformed, Locals, ScanShape, manageCDIResourceSlices
<1>2. /\ scan' \in Locals
      /\ scan'.step = "label"
      /\ scan'.machines = scan.machines
      /\ UseCM => AllLimitsKnown(scan.limits)'
  BY <1>1, NoScanType DEF manageCDIResourceSlices, Locals, Steps, IInv, ScanShape,
     AllLimitsKnown, LimitsKnown
<1>3. TypeOK'
  BY <1>2, ManageSlices DEF IInv, TypeOK, manageCDIResourceSlices, world, k8sVars,
     fmVars, cmVars
<1>4. ControllersInformed'
  BY ManageSlices DEF ControllersInformed
<1>5. ASSUME NEW f \in Fabrics, NEW m \in Models,
             f \in ScannedFabrics \/ desired[<<m, f>>] # NoPool
      PROVE  desired'[<<m, f>>] # NoPool
  <2>1. <<m, f>> \in PoolNames
    BY DEF PoolNames
  <2>2. desired'[<<m, f>>] = IF f \in ScannedFabrics
                             THEN updatePool(pools[<<m, f>>], scan.avail[f][m])
                             ELSE pools[<<m, f>>]
    BY <2>1, ManageSlices DEF scannedPools
  <2>3. pools[<<m, f>>] \in Pool \cup {NoPool}
    BY <1>1, <2>1 DEF PoolMap
  <2>4. CASE f \in ScannedFabrics
    BY <2>2, <2>3, <2>4, ManageSlices, UpdatePool, NoPoolAssumption
  <2>5. CASE f \notin ScannedFabrics
    BY <1>1, <1>5, <2>2, <2>5
  <2> QED
    BY <2>4, <2>5
<1>6. LabelBacked'
  <2>1. labels' = labels /\ labels \in [Nodes -> Labels]
    BY DEF manageCDIResourceSlices, IInv, TypeOK
  <2>2. ASSUME NEW n \in Nodes, labels[n].fabric # None, NEW m \in Models
        PROVE  desired'[<<m, labels[n].fabric>>] # NoPool
    <3>1. labels[n].fabric \in Fabrics
      BY <2>1, <2>2 DEF Labels
    <3>2. desired[<<m, labels[n].fabric>>] # NoPool
      BY <2>2 DEF IInv, LabelBacked
    <3> QED
      BY <3>1, <3>2, <1>5
  <2> QED
    BY <2>1, <2>2 DEF LabelBacked
<1>7. ScanShape'
  <2>1. ASSUME NEW i \in DOMAIN scan.machines, NEW m \in Models
        PROVE  desired'[<<m, scan.machines[i].fabricID>>] # NoPool
    <3>1. scan.machines[i] \in Machine
      BY <1>1
    <3> QED
      BY <3>1, <1>5 DEF Machine, ScannedFabrics
  <2> QED
    BY <1>1, <1>2, <2>1 DEF ScanShape
<1> QED
  BY <1>3, <1>4, <1>6, <1>7 DEF IInv

(* The labels of a machine are numbers, whatever the CM left out. *)
LEMMA SizeLabelsType ==
  ASSUME TypeOK, NEW machine \in Machine, NEW m \in Models,
         scan.limits \in [Groups -> [Models -> Limit \cup {None}]],
         machine.nodeGroup # None => scan.limits[machine.nodeGroup][m] # None
  PROVE  SizeLabels(machine)[m] \in Size
<1>1. CASE machine.nodeGroup = None
  BY <1>1 DEF SizeLabels, NoSize, Size
<1>2. CASE machine.nodeGroup # None
  <2>1. machine.nodeGroup \in Groups
    BY <1>2 DEF Machine
  <2>2. scan.limits[machine.nodeGroup][m] \in Limit
    BY <1>2, <2>1
  <2> QED
    BY <1>2, <2>2 DEF SizeLabels, SizeOf, OrZero, Limit, Size
<1> QED
  BY <1>1, <1>2

LEMMA LabelNodeInv == IInv /\ LabelNode => IInv'
<1> SUFFICES ASSUME IInv, LabelNode PROVE IInv'
  OBVIOUS
<1> DEFINE machine == Head(scan.machines)
           n == machine.nodeName
           rest == Tail(scan.machines)
<1>1. /\ scan \in Locals /\ labels \in [Nodes -> Labels]
      /\ scan.machines \in Seq(Machine) /\ scan.machines # << >>
      /\ scan.limits \in [Groups -> [Models -> Limit \cup {None}]]
  BY DEF IInv, TypeOK, ScanShape, Locals, LabelNode
<1>2. /\ 1 \in DOMAIN scan.machines
      /\ machine = scan.machines[1]
      /\ machine \in Machine
  BY <1>1
<1>3. \A m \in Models : desired[<<m, machine.fabricID>>] # NoPool
  BY <1>2 DEF IInv, ScanShape, LabelNode
<1>4. /\ scan' \in Locals
      /\ ScanShape'
  <2>1. CASE Len(scan.machines) = 1
    BY <2>1, NoScanType DEF LabelNode, ScanShape
  <2>2. CASE Len(scan.machines) # 1
    <3>1. /\ rest \in Seq(Machine) /\ rest # << >>
          /\ \A i \in DOMAIN rest : i + 1 \in DOMAIN scan.machines
                                   /\ rest[i] = scan.machines[i + 1]
      <4>1. rest \in Seq(Machine) /\ Len(rest) = Len(scan.machines) - 1
        BY <1>1
      <4>2. Len(scan.machines) \in Nat /\ Len(rest) # 0
        BY <1>1, <2>2, <4>1
      <4>3. rest # << >>
        <5>1. Len(<< >>) = 0
          OBVIOUS
        <5> QED
          BY <4>2, <5>1, Zenon
      <4>4. ASSUME NEW i \in DOMAIN rest
            PROVE  i + 1 \in DOMAIN scan.machines /\ rest[i] = scan.machines[i + 1]
        BY <1>1, <4>1
      <4> QED
        BY <4>1, <4>3, <4>4
    <3>2. scan' = [scan EXCEPT !.machines = rest]
      BY <2>2 DEF LabelNode
    <3> HIDE DEF rest
    <3>3. /\ scan' \in Locals
          /\ scan'.step = "label"
          /\ scan'.machines = rest
          /\ scan'.limits = scan.limits
      BY <1>1, <3>1, <3>2 DEF Locals, LabelNode
    <3>4. UseCM => AllLimitsKnown(scan.limits)'
      BY <3>1, <3>3 DEF IInv, ScanShape, LabelNode, AllLimitsKnown, LimitsKnown
    <3>5. \A i \in DOMAIN rest, m \in Models : desired[<<m, rest[i].fabricID>>] # NoPool
      BY <3>1 DEF IInv, ScanShape, LabelNode
    <3>6. desired' = desired
      BY DEF LabelNode
    <3> QED
      BY <3>1, <3>3, <3>4, <3>5, <3>6 DEF ScanShape
  <2> QED
    BY <2>1, <2>2
<1> DEFINE new == [fabric |-> machine.fabricID,
                   size   |-> IF UseCM THEN SizeLabels(machine) ELSE labels[n].size]
<1>5. new \in Labels
  <2>1. n \in Nodes /\ machine.fabricID \in Fabrics
    BY <1>2 DEF Machine
  <2>2. labels[n].size \in [Models -> Size \cup {None}]
    BY <1>1, <2>1 DEF Labels
  <2>3. UseCM => SizeLabels(machine) \in [Models -> Size \cup {None}]
    <3> SUFFICES ASSUME UseCM PROVE SizeLabels(machine) \in [Models -> Size \cup {None}]
      OBVIOUS
    <3>1. ASSUME NEW m \in Models PROVE SizeLabels(machine)[m] \in Size
      <4>1. machine.nodeGroup # None => scan.limits[machine.nodeGroup][m] # None
        BY <1>2 DEF IInv, ScanShape, LabelNode, AllLimitsKnown, LimitsKnown
      <4> QED
        BY <1>1, <1>2, <4>1, SizeLabelsType DEF IInv
    <3> QED
      BY <3>1 DEF SizeLabels
  <2> QED
    BY <2>1, <2>2, <2>3 DEF Labels
<1>6. labels' = IF nodeStore[n] = Absent THEN labels ELSE [labels EXCEPT ![n] = new]
  BY DEF LabelNode
<1>7. labels' \in [Nodes -> Labels]
  <2> HIDE DEF new
  <2> QED
    BY <1>1, <1>5, <1>6
<1>8. TypeOK'
  BY <1>4, <1>7 DEF IInv, TypeOK, LabelNode, world, k8sVars, fmVars, cmVars
<1>9. LabelBacked'
  <2>1. ASSUME NEW k \in Nodes, NEW m \in Models, labels'[k].fabric # None
        PROVE  desired[<<m, labels'[k].fabric>>] # NoPool
    <3>1. CASE labels'[k] = labels[k]
      BY <2>1, <3>1 DEF IInv, LabelBacked
    <3>2. CASE labels'[k] = new
      BY <1>3, <3>2
    <3>3. labels'[k] = labels[k] \/ labels'[k] = new
      <4> HIDE DEF new
      <4> QED
        BY <1>1, <1>6
    <3> QED
      BY <3>1, <3>2, <3>3
  <2> QED
    BY <2>1 DEF LabelBacked, LabelNode
<1> QED
  BY <1>4, <1>8, <1>9 DEF IInv, ControllersInformed, LabelNode

(* Calls that fail and changes of the world. *)
LEMMA APICallFailsInv == IInv /\ APICallFails => IInv'
<1> SUFFICES ASSUME IInv, APICallFails PROVE IInv'
  OBVIOUS
<1>1. scan' \in Locals /\ ScanShape'
  BY NoScanType DEF APICallFails, ScanShape
<1>2. upsets' \in 0 .. MaxUpsets
  BY MaxUpsetsAssumption DEF IInv, TypeOK, APICallFails, Upset
<1> QED
  BY <1>1, <1>2 DEF IInv, TypeOK, ControllersInformed, LabelBacked, APICallFails,
     k8sVars, fmVars, cmVars, published

(* A step of the world keeps the scan, the pools and all it has no type of. *)
LEMMA WorldStepInv == IInv /\ WorldStep => IInv'
<1> SUFFICES ASSUME IInv, WorldStep PROVE IInv'
  OBVIOUS
<1>1. upsets' \in 0 .. MaxUpsets
  BY MaxUpsetsAssumption DEF IInv, TypeOK, WorldStep, NodeChanges, BmhChanges,
     FabricChanges, FreeChanges, GroupChanges, LimitChanges, Upset
<1>2. UNCHANGED <<pools, desired, scan>>
  BY DEF WorldStep, NodeChanges, BmhChanges, FabricChanges, FreeChanges,
     GroupChanges, LimitChanges, published
<1>3. ScanShape' /\ ControllersInformed'
  BY <1>2 DEF IInv, ScanShape, ControllersInformed, AllCountsKnown, CountsKnown,
     AllLimitsKnown, LimitsKnown
<1>4. ASSUME NodeChanges PROVE TypeOK' /\ LabelBacked'
  <2>1. NoLabels \in Labels /\ NoLabels.fabric = None
    BY DEF NoLabels, Labels
  <2>2. PICK n \in Nodes :
           \/ \E p \in ProviderIDs :
                 nodeStore' = [nodeStore EXCEPT ![n] = p] /\ UNCHANGED labels
           \/ /\ nodeStore' = [nodeStore EXCEPT ![n] = Absent]
              /\ labels' = [labels EXCEPT ![n] = NoLabels]
    BY <1>4 DEF NodeChanges
  <2>3. nodeStore' \in [Nodes -> ProviderIDs \cup {None, Absent}]
    BY <2>2 DEF IInv, TypeOK
  <2>4. labels' \in [Nodes -> Labels]
    BY <2>1, <2>2 DEF IInv, TypeOK
  <2>5. TypeOK'
    BY <1>1, <1>2, <1>4, <2>3, <2>4 DEF IInv, TypeOK, NodeChanges, fmVars, cmVars
  <2>6. \A k \in Nodes : labels'[k] = labels[k] \/ labels'[k].fabric = None
    BY <2>1, <2>2 DEF IInv, TypeOK
  <2> QED
    BY <1>2, <2>5, <2>6 DEF IInv, LabelBacked
<1>5. ASSUME ~NodeChanges PROVE TypeOK' /\ LabelBacked'
  <2>1. labels' = labels
    BY <1>5 DEF WorldStep, BmhChanges, FabricChanges, FreeChanges, GroupChanges,
       LimitChanges, published
  <2>2. LabelBacked'
    BY <1>2, <2>1 DEF IInv, LabelBacked
  <2>3. CASE BmhChanges
    BY <1>1, <1>2, <2>1, <2>2, <2>3 DEF IInv, TypeOK, BmhChanges, fmVars, cmVars
  <2>4. CASE FabricChanges
    BY <1>1, <1>2, <2>1, <2>2, <2>4 DEF IInv, TypeOK, FabricChanges, k8sVars, cmVars
  <2>5. CASE FreeChanges
    BY <1>1, <1>2, <2>1, <2>2, <2>5 DEF IInv, TypeOK, FreeChanges, k8sVars, cmVars
  <2>6. CASE GroupChanges
    BY <1>1, <1>2, <2>1, <2>2, <2>6 DEF IInv, TypeOK, GroupChanges, k8sVars, fmVars
  <2>7. CASE LimitChanges
    BY <1>1, <1>2, <2>1, <2>2, <2>7 DEF IInv, TypeOK, LimitChanges, k8sVars, fmVars
  <2> QED
    BY <1>5, <2>2, <2>3, <2>4, <2>5, <2>6, <2>7 DEF WorldStep
<1> QED
  BY <1>1, <1>2, <1>3, <1>4, <1>5 DEF IInv

LEMMA LoopStepInv == IInv /\ LoopStep => IInv'
  BY ListProviderIDsInv, FindNodeNameInv, FindMachineUUIDInv, GetMachineListInv,
     GetNodeGroupsInv, GetNodeGroupInfoInv, CreateMachinesInv, GetAvailableNumsInv,
     GetMinMaxNumsInv, ManageSlicesInv, LabelNodeInv
  DEF LoopStep

(* Every step keeps the invariant. *)
LEMMA NextIInv == IInv /\ [Next]_vars => IInv'
<1> SUFFICES ASSUME IInv, [Next]_vars PROVE IInv'
  OBVIOUS
<1>1. CASE LoopStep
  BY <1>1, LoopStepInv
<1>2. CASE APICallFails
  BY <1>2, APICallFailsInv
<1>3. CASE WorldStep
  BY <1>3, WorldStepInv
<1>4. CASE UNCHANGED vars
  <2>1. UNCHANGED <<world, published>> /\ scan' = scan
    BY <1>4 DEF vars
  <2>2. scan' \in Locals
    BY <2>1 DEF IInv, TypeOK
  <2>3. ScanShape'
    BY <2>1 DEF published, IInv, ScanShape, AllCountsKnown, CountsKnown,
       AllLimitsKnown, LimitsKnown
  <2> QED
    BY <2>1, <2>2, <2>3, ScanOnly
<1> QED
  BY <1>1, <1>2, <1>3, <1>4 DEF Next

-----------------------------------------------------------------------------
(* The theorems. *)

THEOREM Invariance == Spec => []IInv
<1>1. Init => IInv
  BY InitIInv
<1>2. IInv /\ [Next]_vars => IInv'
  BY NextIInv
<1> QED
  BY <1>1, <1>2, PTL DEF Spec

(* Every variable keeps its type; in particular no count above MaxDevices  *)
(* reaches a pool, whatever the FM answers (getAvailableNums).             *)
THEOREM TypeCorrect == Spec => []TypeOK
<1>1. IInv => TypeOK
  BY DEF IInv
<1> QED
  BY <1>1, Invariance, PTL

(* The slice controllers hold the manager's pools at all times             *)
(* (manageCDIResourceSlices).                                              *)
THEOREM Informed == Spec => []ControllersInformed
<1>1. IInv => ControllersInformed
  BY DEF IInv
<1> QED
  BY <1>1, Invariance, PTL

(* A fabric label never precedes the pools of the fabric, through failed   *)
(* scans, moved machines and deleted nodes (startCheckResourcePoolLoop).   *)
THEOREM LabelsBacked == Spec => []LabelBacked
<1>1. IInv => LabelBacked
  BY DEF IInv
<1> QED
  BY <1>1, Invariance, PTL

(* No other step of a scan or of the world touches the pools.              *)
LEMMA OthersPublishNoPool ==
  [Next]_vars /\ ~manageCDIResourceSlices => UNCHANGED <<pools, desired>>
  BY DEF Next, LoopStep, WorldStep, vars, published, ListProviderIDs,
     FindNodeNameByProviderID, FindMachineUUIDByProviderID, getMachineList,
     getNodeGroups, getNodeGroupInfo, CreateMachines, getAvailableNums,
     getMinMaxNums, LabelNode, APICallFails, NodeChanges, BmhChanges,
     FabricChanges, FreeChanges, GroupChanges, LimitChanges

(* A scan reaches the pools with a count for every model on every fabric   *)
(* it names, at least one, however the world changed between its answers,  *)
(* and publishes them in one step (getAvailableNums,                       *)
(* manageCDIResourceSlices).  ScanPublishes of DriverLifecycle is this step. *)
THEOREM ScanOneStep == Spec => ScanIsOneStep
<1> DEFINE OneStep ==
      \/ UNCHANGED <<pools, desired>>
      \/ /\ pools' \in ScanOutcomes(pools)
         /\ desired' = handedOver(desired, pools', needUpdate(pools, pools'))
<1>1. ASSUME IInv, manageCDIResourceSlices
      PROVE  OneStep
  <2> DEFINE avail == [f \in ScannedFabrics |-> scan.avail[f]]
  <2>1. ScannedFabrics \in (SUBSET Fabrics) \ {{}}
    <3>1. scan.machines \in Seq(Machine) /\ scan.machines # << >>
      BY <1>1 DEF IInv, TypeOK, Locals, ScanShape, manageCDIResourceSlices
    <3>2. ASSUME NEW i \in DOMAIN scan.machines
          PROVE  scan.machines[i].fabricID \in Fabrics
      <4>1. scan.machines[i] \in Machine
        BY <3>1
      <4> QED
        BY <4>1 DEF Machine
    <3>3. 1 \in DOMAIN scan.machines
      BY <3>1
    <3> QED
      BY <3>2, <3>3 DEF ScannedFabrics
  <2>2. avail \in [ScannedFabrics -> [Models -> 0 .. MaxDevices]]
    <3>1. ASSUME NEW f \in ScannedFabrics
          PROVE  scan.avail[f] \in [Models -> 0 .. MaxDevices]
      <4>1. scan.avail[f] \in [Models -> (0 .. MaxDevices) \cup {None}]
        BY <1>1, <2>1 DEF IInv, TypeOK, Locals
      <4> QED
        BY <1>1, <4>1, ManageSlices
    <3> QED
      BY <3>1
  <2>3. scannedPools(pools, ScannedFabrics, scan.avail)
          = scannedPools(pools, ScannedFabrics, avail)
    BY DEF scannedPools
  <2>4. pools' = scannedPools(pools, ScannedFabrics, avail)
    BY <1>1, <2>3, ManageSlices
  <2>5. pools' \in ScanOutcomes(pools)
    <3> HIDE DEF avail
    <3> QED
      BY <2>1, <2>2, <2>4 DEF ScanOutcomes
  <2> QED
    BY <1>1, <2>5 DEF manageCDIResourceSlices
<1>2. IInv /\ [Next]_vars => [OneStep]_vars
  BY <1>1, OthersPublishNoPool
<1> QED
  BY <1>2, Invariance, PTL DEF Spec, ScanIsOneStep

(* The scan loop implements PoolView: pools appear with generation 1, stay *)
(* and get the next generation exactly when their devices change           *)
(* (updatePool), over any sequence of complete and abandoned scans.        *)
THEOREM Refinement == Spec => PoolViewKept
<1>1. Init => Readers!Init
  BY DEF Init, Readers!Init, initDriverResources
<1>2. IInv /\ [Next]_vars => [Readers!Publish]_desired
  <2> SUFFICES ASSUME IInv, [Next]_vars PROVE [Readers!Publish]_desired
    OBVIOUS
  <2>1. CASE manageCDIResourceSlices
    <3>1. desired \in PoolMap /\ desired = pools
      BY DEF IInv, TypeOK, ControllersInformed
    <3>2. desired' \in [PoolNames -> Pool \cup {NoPool}]
      BY <2>1, ManageSlices DEF PoolMap
    <3>3. ASSUME NEW p \in PoolNames
          PROVE  desired'[p] = desired[p] \/ Readers!Appears(p) \/ Readers!Changes(p)
      BY <2>1, <3>1, ManageSlices, ScannedPool DEF Readers!Appears, Readers!Changes
    <3> QED
      BY <3>2, <3>3 DEF Readers!Publish
  <2>2. CASE ~manageCDIResourceSlices
    <3>1. desired' = desired
      BY <2>2, OthersPublishNoPool
    <3> QED
      BY <3>1
  <2> QED
    BY <2>1, <2>2
<1> QED
  BY <1>1, <1>2, Invariance, PTL DEF Spec, PoolViewKept, Readers!Spec
=============================================================================
