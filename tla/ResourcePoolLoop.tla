------------------------- MODULE ResourcePoolLoop -------------------------
(***************************************************************************)
(* The scan loop of the manager (startCheckResourcePoolLoop and what it    *)
(* calls, pkg/manager/manager.go and pkg/kube_utils/kube_utils.go) while   *)
(* the world it scans changes under it.                                    *)
(*                                                                         *)
(* A scan is one goroutine that reads the informer caches, then asks the   *)
(* fabric manager (FM) and the cluster manager (CM) one question at a time *)
(* and acts on the answers: it updates the resource pools and labels the   *)
(* nodes.  Each question is one action, so that nodes, BareMetalHosts,     *)
(* fabrics, node groups and counts may change between any two answers of   *)
(* one scan, and each question may fail, which abandons the scan.          *)
(*                                                                         *)
(* Bound: `upsets' counts the changes of the world and the failed calls;   *)
(* there are at most MaxUpsets of them, of the kinds UpsetKinds, in a      *)
(* behaviour.  A behaviour is therefore eventually free of them, which is  *)
(* what its liveness properties are about.                                 *)
(***************************************************************************)
EXTENDS ResourcePools, Sequences, FiniteSets

CONSTANTS
    Nodes,         \* the names of Kubernetes nodes
    ProviderIDs,   \* provider ids, as normalizedProviderString returns them
    Machines,      \* the machine UUIDs the FM and the CM know
    NumGroups,     \* how many node groups the CM lists
    SpecLists,     \* the lists of resspecs the CM may hold for a machine
    UseCapiBmh,    \* option: machine UUIDs come from BareMetalHosts
    UseCM,         \* option: node groups and size limits come from the CM
    None,          \* "nil", "" and "not found"
    Absent,        \* a node that does not exist
    UpsetKinds,    \* which kinds of upsets a behaviour may have
    MaxUpsets      \* and how many

Groups == 1 .. NumGroups    \* a node group is its place in the CM's list

Limit == [min : Nat \cup {None}, max : Nat \cup {None}]
ResSpec == [model : Models, min : Nat \cup {None}, max : Nat \cup {None}]

ASSUME NodesAssumption == IsFiniteSet(Nodes)
ASSUME GroupsAssumption == NumGroups \in Nat
ASSUME SpecListsAssumption == SpecLists \subseteq Seq(ResSpec)
ASSUME OptionsAssumption == UseCapiBmh \in BOOLEAN /\ UseCM \in BOOLEAN
(* Without BareMetalHosts the provider id is taken for the machine UUID. *)
ASSUME ProviderAssumption == UseCapiBmh \/ ProviderIDs \subseteq Machines
ASSUME NoneAssumption ==
    /\ None \notin Nat \cup Machines \cup Fabrics \cup ProviderIDs \cup Limit
    /\ None \notin Nodes \X ProviderIDs
    /\ Absent \notin ProviderIDs \cup {None}
ASSUME MaxUpsetsAssumption == MaxUpsets \in Nat

VARIABLES
    (* The world the driver observes. *)
    nodeStore,     \* the provider id of every node
    bmhStore,      \* the machine UUID in the BareMetalHost of a provider id
    fabricOf,      \* FM: the fabric every machine is connected to
    free,          \* FM: the free devices of a fabric, per model
    members,       \* CM: the machines of every node group
    specs,         \* CM: the resspecs of every machine
    upsets,        \* how many upsets there were
    (* What the driver publishes. *)
    labels,        \* the driver's labels on every node
    pools,         \* namedDriverResources: the pools in memory
    desired,       \* the pools last handed to the slice controllers
    (* The scan under way: its step and its local variables. *)
    scan

fmVars == <<fabricOf, free>>
cmVars == <<members, specs>>
k8sVars == <<nodeStore, bmhStore>>
world == <<k8sVars, fmVars, cmVars, upsets>>
published == <<labels, pools, desired>>
vars == <<world, published, scan>>

-----------------------------------------------------------------------------
(* The values of the variables. *)

Machine ==    \* type machine, without its device list (see avail and limits)
    [nodeName : Nodes, machineUUID : Machines, fabricID : Fabrics,
     nodeGroup : Groups \cup {None}]

Size == [min : Nat, max : Nat]
Labels == [fabric : Fabrics \cup {None}, size : [Models -> Size \cup {None}]]
NoLabels == [fabric |-> None, size |-> [m \in Models |-> None]]

Steps == {"idle", "resolve", "bmh", "machines", "groups", "groupInfo", "create",
          "free", "limits", "slices", "label"}

(* No scan under way.  A scan drops the locals it will not read again. *)
NoScan ==
    [step     |-> "idle",
     pending  |-> {},                              \* provider ids to resolve
     found    |-> None,                            \* node and provider id
     uuids    |-> [n \in Nodes |-> None],          \* muuids
     mList    |-> [u \in Machines |-> None],       \* the FM's machine list
     ngInfos  |-> << >>,                           \* the CM's group infos
     machines |-> << >>,                           \* machines
     avail    |-> [f \in Fabrics |-> [m \in Models |-> None]],
     limits   |-> [g \in Groups |-> [m \in Models |-> None]]]

Init ==
    /\ nodeStore \in [Nodes -> ProviderIDs \cup {None, Absent}]
    /\ bmhStore \in [ProviderIDs -> Machines \cup {None}]
    /\ fabricOf \in [Machines -> Fabrics \cup {None}]
    /\ free \in [Fabrics -> [Models -> 0 .. MaxDevices + 1]]
    /\ members \in [Groups -> SUBSET Machines]
    /\ specs \in [Machines -> SpecLists]
    /\ upsets = 0
    /\ labels = [n \in Nodes |-> NoLabels]
    /\ pools = initDriverResources
    /\ desired = initDriverResources
    /\ scan = NoScan

-----------------------------------------------------------------------------
(* getMachineUUIDs: from the nodes' provider ids to machine UUIDs. *)

ListProviderIDs ==
    /\ scan.step = "idle"
    /\ LET ids == {nodeStore[n] : n \in Nodes} \cap ProviderIDs
       IN  scan' = IF ids = {} THEN NoScan    \* "no machine uuid is found"
                   ELSE [NoScan EXCEPT !.step = "resolve", !.pending = ids]
    /\ UNCHANGED <<world, published>>

(* The lookups of one provider id are over. *)
Resolved(uuids, pending) ==
    scan' = IF pending # {} THEN [NoScan EXCEPT !.step = "resolve",
                                     !.pending = pending, !.uuids = uuids]
            ELSE IF \A n \in Nodes : uuids[n] = None THEN NoScan
            ELSE [NoScan EXCEPT !.step = "machines", !.uuids = uuids]

(* Faulty variant of the next definition: the first node that matches.     *)
FindNodeNameByProviderID_first(p) ==
    LET rest == scan.pending \ {p}
    IN  /\ scan.step = "resolve"
        /\ p \in scan.pending
        /\ \/ ~(\E n \in Nodes : nodeStore[n] = p) /\ Resolved(scan.uuids, rest)
           \/ \E n \in Nodes :
                 /\ nodeStore[n] = p
                 /\ ~UseCapiBmh
                 /\ Resolved([scan.uuids EXCEPT ![n] = p], rest)
           \/ \E n \in Nodes :
                 /\ nodeStore[n] = p
                 /\ UseCapiBmh
                 /\ scan' = [scan EXCEPT !.step = "bmh", !.pending = rest,
                                         !.found = <<n, p>>]
        /\ UNCHANGED <<world, published>>

FindNodeNameByProviderID(p) ==
    LET names == {n \in Nodes : nodeStore[n] = p}
        rest == scan.pending \ {p}
    IN  /\ scan.step = "resolve"
        /\ p \in scan.pending
        /\ \/ names = {} /\ Resolved(scan.uuids, rest)
           \/ \E n \in Nodes :
                 /\ names = {n}
                 /\ ~UseCapiBmh
                 /\ Resolved([scan.uuids EXCEPT ![n] = p], rest)
           \/ \E n \in Nodes :
                 /\ names = {n}
                 /\ UseCapiBmh
                 /\ scan' = [scan EXCEPT !.step = "bmh", !.pending = rest,
                                         !.found = <<n, p>>]
           \/ (\E n1, n2 \in names : n1 # n2) /\ scan' = NoScan
        /\ UNCHANGED <<world, published>>

FindMachineUUIDByProviderID ==
    LET n == scan.found[1]
        uuid == bmhStore[scan.found[2]]
    IN  /\ scan.step = "bmh"
        /\ Resolved(IF uuid = None THEN scan.uuids
                    ELSE [scan.uuids EXCEPT ![n] = uuid], scan.pending)
        /\ UNCHANGED <<world, published>>

-----------------------------------------------------------------------------
(* The machine list of the FM, the node groups of the CM, the machines. *)

getMachineList ==
    /\ scan.step = "machines"
    /\ scan' = [scan EXCEPT !.mList = fabricOf,
                            !.step = IF UseCM THEN "groups" ELSE "create"]
    /\ UNCHANGED <<world, published>>

GroupStep(infos) == IF Len(infos) < NumGroups THEN "groupInfo" ELSE "create"

getNodeGroups ==
    /\ scan.step = "groups"
    /\ scan' = [scan EXCEPT !.ngInfos = << >>, !.step = GroupStep(<< >>)]
    /\ UNCHANGED <<world, published>>

getNodeGroupInfo ==
    LET infos == Append(scan.ngInfos, members[Len(scan.ngInfos) + 1])
    IN  /\ scan.step = "groupInfo"
        /\ scan' = [scan EXCEPT !.ngInfos = infos, !.step = GroupStep(infos)]
        /\ UNCHANGED <<world, published>>

(* foundInNodeGroup: the last of the groups that list the machine. *)
NodeGroupOf(infos, uuid) ==
    LET found == {g \in Groups : g <= Len(infos) /\ uuid \in infos[g]}
    IN  IF found = {} THEN None
        ELSE CHOOSE g \in found : \A h \in found : h <= g

MachineOf(n) ==
    [nodeName    |-> n,
     machineUUID |-> scan.uuids[n],
     fabricID    |-> scan.mList[scan.uuids[n]],
     nodeGroup   |-> NodeGroupOf(scan.ngInfos, scan.uuids[n])]

(* The machines on a fabric, in the order the map of UUIDs is ranged over. *)
CreateMachines ==
    LET known == {n \in Nodes : /\ scan.uuids[n] # None
                                /\ scan.mList[scan.uuids[n]] # None}
    IN  /\ scan.step = "create"
        /\ \/ known = {} /\ scan' = NoScan    \* "no machine is found to process"
           \/ \E order \in [1 .. Cardinality(known) -> known] :
                 /\ known # {}
                 /\ \A n \in known : \E i \in DOMAIN order : order[i] = n
                 /\ scan' = [NoScan EXCEPT !.step = "free",
                        !.machines = [i \in DOMAIN order |-> MachineOf(order[i])]]
        /\ UNCHANGED <<world, published>>

-----------------------------------------------------------------------------
(* The free devices, one question per fabric and model, and the limits,    *)
(* one per node group and model.  The machine asked about is the first of  *)
(* its fabric or group: the first that still misses an answer.             *)

CountsKnown(avail, i) ==
    \A m \in Models : avail[scan.machines[i].fabricID][m] # None

(* Faulty variant of the next definition: one fabric is enough. *)
AllCountsKnown_first(avail) == CountsKnown(avail, 1)

AllCountsKnown(avail) == \A i \in DOMAIN scan.machines : CountsKnown(avail, i)

AfterCounts ==
    IF UseCM /\ (\E i \in DOMAIN scan.machines : scan.machines[i].nodeGroup # None)
    THEN "limits" ELSE "slices"

(* Faulty variant of the next definition: any count is taken. *)
getAvailableNums_unchecked(i, m) ==
    LET f == scan.machines[i].fabricID
        now == fabricOf[scan.machines[i].machineUUID]
        avail == [scan.avail EXCEPT ![f][m] = free[now][m]]
    IN  /\ scan.step = "free"
        /\ scan.avail[f][m] = None
        /\ now # None
        /\ scan' = [scan EXCEPT !.avail = avail,
              !.step = IF AllCountsKnown(avail) THEN AfterCounts ELSE "free"]
        /\ UNCHANGED <<world, published>>

getAvailableNums(i, m) ==
    LET f == scan.machines[i].fabricID                  \* in the machine list
        now == fabricOf[scan.machines[i].machineUUID]   \* when the FM answers
        avail == [scan.avail EXCEPT ![f][m] = free[now][m]]
    IN  /\ scan.step = "free"
        /\ scan.avail[f][m] = None
        /\ \A k \in Models : k < m => scan.avail[f][k] # None
        /\ \A j \in DOMAIN scan.machines : j < i => CountsKnown(scan.avail, j)
        /\ \/ now = None /\ scan' = NoScan
           \/ now # None /\ free[now][m] > MaxDevices /\ scan' = NoScan
           \/ /\ now # None
              /\ free[now][m] <= MaxDevices
              /\ scan' = [scan EXCEPT !.avail = avail,
                    !.step = IF AllCountsKnown(avail) THEN AfterCounts ELSE "free"]
        /\ UNCHANGED <<world, published>>

(* The last of the resspecs for model m that sets the bound. *)
LastSet(list, m, bound) ==
    LET hits == {i \in DOMAIN list : list[i].model = m /\ list[i][bound] # None}
    IN  IF hits = {} THEN None
        ELSE list[CHOOSE i \in hits : \A j \in hits : j <= i][bound]

LimitOf(list, m) == [min |-> LastSet(list, m, "min"), max |-> LastSet(list, m, "max")]

LimitsKnown(limits, i) ==
    scan.machines[i].nodeGroup # None =>
        \A m \in Models : limits[scan.machines[i].nodeGroup][m] # None

AllLimitsKnown(limits) == \A i \in DOMAIN scan.machines : LimitsKnown(limits, i)

(* Faulty variant of the next definition: any machine of the group may be  *)
(* asked for any model.                                                    *)
getMinMaxNums_anyMachine(i, m) ==
    LET g == scan.machines[i].nodeGroup
        limits == [scan.limits EXCEPT ![g][m] =
                      LimitOf(specs[scan.machines[i].machineUUID], m)]
    IN  /\ scan.step = "limits"
        /\ g # None
        /\ scan.limits[g][m] = None
        /\ scan' = [scan EXCEPT !.limits = limits,
              !.step = IF AllLimitsKnown(limits) THEN "slices" ELSE "limits"]
        /\ UNCHANGED <<world, published>>

getMinMaxNums(i, m) ==
    LET g == scan.machines[i].nodeGroup
        limits == [scan.limits EXCEPT ![g][m] =
                      LimitOf(specs[scan.machines[i].machineUUID], m)]
    IN  /\ scan.step = "limits"
        /\ g # None
        /\ scan.limits[g][m] = None
        /\ \A j \in DOMAIN scan.machines : j < i => LimitsKnown(scan.limits, j)
        /\ scan' = [scan EXCEPT !.limits = limits,
              !.step = IF AllLimitsKnown(limits) THEN "slices" ELSE "limits"]
        /\ UNCHANGED <<world, published>>

-----------------------------------------------------------------------------
(* What the scan publishes. *)

ScannedFabrics == {scan.machines[i].fabricID : i \in DOMAIN scan.machines}

manageCDIResourceSlices ==
    LET new == scannedPools(pools, ScannedFabrics, scan.avail)
    IN  /\ scan.step = "slices"
        /\ pools' = new
        /\ desired' = handedOver(desired, new, needUpdate(pools, new))
        /\ scan' = [scan EXCEPT !.step = "label", !.avail = NoScan.avail]
        /\ UNCHANGED <<world, labels>>

OrZero(bound) == IF bound = None THEN 0 ELSE bound
SizeOf(limit) == [min |-> OrZero(limit.min), max |-> OrZero(limit.max)]
NoSize == [min |-> 0, max |-> 0]

(* Faulty variant of the next definition: the machines of a fabric share   *)
(* one device list, so the limits written last are the limits of all.      *)
SizeLabels_shared(machine) ==
    LET groups == {scan.machines[i].nodeGroup : i \in DOMAIN scan.machines} \ {None}
        last == CHOOSE g \in groups : \A h \in groups : h <= g
    IN  [m \in Models |-> IF groups = {} THEN NoSize ELSE SizeOf(scan.limits[last][m])]

(* The size labels of a machine: the limits of its own group, else "0". *)
SizeLabels(machine) ==
    [m \in Models |-> IF machine.nodeGroup = None THEN NoSize
                      ELSE SizeOf(scan.limits[machine.nodeGroup][m])]

(* manageCDINodeLabel, the next machine of the list. *)
LabelNode ==
    LET machine == Head(scan.machines)
        n == machine.nodeName
    IN  /\ scan.step = "label"
        /\ labels' = IF nodeStore[n] = Absent THEN labels
                     ELSE [labels EXCEPT ![n] =
                             [fabric |-> machine.fabricID,
                              size   |-> IF UseCM THEN SizeLabels(machine)
                                         ELSE labels[n].size]]
        /\ scan' = IF Len(scan.machines) = 1 THEN NoScan
                   ELSE [scan EXCEPT !.machines = Tail(scan.machines)]
        /\ UNCHANGED <<world, pools, desired>>

-----------------------------------------------------------------------------
(* Upsets: calls that fail, and changes of the world. *)

Upset(kind) ==
    /\ kind \in UpsetKinds
    /\ upsets < MaxUpsets
    /\ upsets' = upsets + 1

(* The FM, the CM or the API server answers with an error or not in time.  *)
APICallFails ==
    /\ Upset("api")
    /\ scan.step \in {"machines", "groups", "groupInfo", "free", "limits", "label"}
    /\ scan' = NoScan
    /\ UNCHANGED <<k8sVars, fmVars, cmVars, published>>

(* A provider id is set once; a node that is deleted takes its labels along. *)
NodeChanges ==
    /\ Upset("nodes")
    /\ \E n \in Nodes :
          \/ \E p \in ProviderIDs :
                /\ nodeStore[n] \in {None, Absent}
                /\ nodeStore' = [nodeStore EXCEPT ![n] = p]
                /\ UNCHANGED labels
          \/ /\ nodeStore[n] # Absent
             /\ nodeStore' = [nodeStore EXCEPT ![n] = Absent]
             /\ labels' = [labels EXCEPT ![n] = NoLabels]
    /\ UNCHANGED <<bmhStore, fmVars, cmVars, pools, desired, scan>>

BmhChanges ==
    /\ Upset("bmh")
    /\ \E p \in ProviderIDs, u \in Machines \cup {None} :
          bmhStore' = [bmhStore EXCEPT ![p] = u]
    /\ UNCHANGED <<nodeStore, fmVars, cmVars, published, scan>>

FabricChanges ==
    /\ Upset("fabric")
    /\ \E u \in Machines, f \in Fabrics \cup {None} :
          fabricOf' = [fabricOf EXCEPT ![u] = f]
    /\ UNCHANGED <<k8sVars, free, cmVars, published, scan>>

FreeChanges ==
    /\ Upset("free")
    /\ \E f \in Fabrics, m \in Models, count \in 0 .. MaxDevices + 1 :
          free' = [free EXCEPT ![f][m] = count]
    /\ UNCHANGED <<k8sVars, fabricOf, cmVars, published, scan>>

GroupChanges ==
    /\ Upset("groups")
    /\ \E g \in Groups, u \in Machines :
          members' = [members EXCEPT ![g] =
                        IF u \in members[g] THEN members[g] \ {u} ELSE members[g] \cup {u}]
    /\ UNCHANGED <<k8sVars, fmVars, specs, published, scan>>

LimitChanges ==
    /\ Upset("limits")
    /\ \E U \in SUBSET Machines, list \in SpecLists :
          specs' = [u \in Machines |-> IF u \in U THEN list ELSE specs[u]]
    /\ UNCHANGED <<k8sVars, fmVars, members, published, scan>>

-----------------------------------------------------------------------------
LoopStep ==
    \/ ListProviderIDs
    \/ \E p \in ProviderIDs : FindNodeNameByProviderID(p)
    \/ FindMachineUUIDByProviderID
    \/ getMachineList
    \/ getNodeGroups
    \/ getNodeGroupInfo
    \/ CreateMachines
    \/ \E i \in DOMAIN scan.machines, m \in Models : getAvailableNums(i, m)
    \/ \E i \in DOMAIN scan.machines, m \in Models : getMinMaxNums(i, m)
    \/ manageCDIResourceSlices
    \/ LabelNode

WorldStep ==
    \/ NodeChanges
    \/ BmhChanges
    \/ FabricChanges
    \/ FreeChanges
    \/ GroupChanges
    \/ LimitChanges

Next == LoopStep \/ APICallFails \/ WorldStep

(* The goroutine of wait.Until runs whenever it can, every call returns    *)
(* (the clients have timeouts), and a scan follows a scan.                 *)
Fairness == WF_vars(LoopStep)

Spec == Init /\ [][Next]_vars /\ Fairness

-----------------------------------------------------------------------------
(* Properties. *)

Locals ==
    [step     : Steps,
     pending  : SUBSET ProviderIDs,
     found    : (Nodes \X ProviderIDs) \cup {None},
     uuids    : [Nodes -> Machines \cup {None}],
     mList    : [Machines -> Fabrics \cup {None}],
     ngInfos  : Seq(SUBSET Machines),
     machines : Seq(Machine),
     avail    : [Fabrics -> [Models -> (0 .. MaxDevices) \cup {None}]],
     limits   : [Groups -> [Models -> Limit \cup {None}]]]

(* Every variable has its type.  The counts of avail and pools are within  *)
(* 0 .. MaxDevices although the FM may answer more: a larger count never   *)
(* gets past getAvailableNums.                                             *)
TypeOK ==
    /\ nodeStore \in [Nodes -> ProviderIDs \cup {None, Absent}]
    /\ bmhStore \in [ProviderIDs -> Machines \cup {None}]
    /\ fabricOf \in [Machines -> Fabrics \cup {None}]
    /\ free \in [Fabrics -> [Models -> 0 .. MaxDevices + 1]]
    /\ members \in [Groups -> SUBSET Machines]
    /\ specs \in [Machines -> SpecLists]
    /\ upsets \in 0 .. MaxUpsets
    /\ labels \in [Nodes -> Labels]
    /\ pools \in PoolMap
    /\ desired \in PoolMap
    /\ scan \in Locals

(* The slice controllers always hold what the manager has in memory: no    *)
(* change of a pool stays unannounced, whatever part of a scan failed      *)
(* (needUpdate in manageCDIResourceSlices).                                *)
ControllersInformed == desired = pools

(* A node is labelled with a fabric only when every pool of that fabric    *)
(* has been handed to the controllers, even if the scan failed after its   *)
(* first label or the pools have no device.  The node selector of a pool   *)
(* asks for the fabric label, and for a label per model that is not the    *)
(* driver's to set: a label never selects a pool that is not there.        *)
LabelBacked ==
    \A n \in Nodes : labels[n].fabric # None =>
        \A m \in Models : desired[<<m, labels[n].fabric>>] # NoPool

(* The pools keep the promise of PoolView to the slice controllers and the *)
(* scheduler behind them.                                                  *)
Readers == INSTANCE PoolView WITH view <- desired
PoolViewKept == Readers!Spec

(* Seen from outside, a scan is one step (ScanPublishes in                 *)
(* DriverLifecycle): pools change all at once, to counts within bounds for *)
(* every model on some fabrics, and never by a scan that was abandoned     *)
(* half way.                                                               *)
ScanIsOneStep ==
    [][\/ UNCHANGED <<pools, desired>>
       \/ /\ pools' \in ScanOutcomes(pools)
          /\ desired' = handedOver(desired, pools', needUpdate(pools, pools'))]_vars

-----------------------------------------------------------------------------
(* Liveness.  MachineUUID(n) is what a scan would find for node n now.     *)

MachineUUID(n) ==
    IF nodeStore[n] \notin ProviderIDs THEN None
    ELSE IF UseCapiBmh THEN bmhStore[nodeStore[n]] ELSE nodeStore[n]

Reachable == {n \in Nodes : /\ MachineUUID(n) # None
                            /\ fabricOf[MachineUUID(n)] # None}

FabricNow(n) == fabricOf[MachineUUID(n)]

(* Nothing makes every scan fail: provider ids are unique and no fabric    *)
(* in use reports more devices than a scan accepts.                        *)
Unambiguous(ids) ==
    \A n1, n2 \in Nodes :
        nodeStore[n1] = nodeStore[n2] /\ nodeStore[n1] \in ids => n1 = n2

Scannable ==
    /\ Unambiguous(ProviderIDs)
    /\ \A n \in Reachable, m \in Models : free[FabricNow(n)][m] <= MaxDevices

(* Every node whose machine is on a fabric carries the label of that       *)
(* fabric, and the pools of the fabric count what is free there.           *)
LabelledNow(n) == labels[n].fabric = FabricNow(n)

CountedNow(n) ==
    \A m \in Models : LET pool == desired[<<m, FabricNow(n)>>]
                      IN  pool # NoPool /\ pool.devices = free[FabricNow(n)][m]

Accurate == \A n \in Reachable : LabelledNow(n) /\ CountedNow(n)

(* Once calls stop failing and the world stops changing, labels and pools  *)
(* are accurate: no stale answer of an earlier scan and no half-done scan  *)
(* survives the scans that follow.                                         *)
EventuallyAccurate == <>[](Scannable => Accurate)

(* README.md, line 14: the driver shows which devices are available.  Once *)
(* all is quiet every pool counts the free devices of its fabric, if only  *)
(* there is a machine to ask about.                                        *)
EventuallyAvailableView ==
    <>[](Scannable /\ Reachable # {} => \A p \in PoolNames :
            desired[p] # NoPool => desired[p].devices = free[p[2]][p[1]])

GroupNow(n) == NodeGroupOf(members, MachineUUID(n))

(* The size labels of a node are the limits of one machine of its group,   *)
(* for all models; "0" without a group.                                    *)
LimitedNow(n) ==
    IF GroupNow(n) = None THEN \A m \in Models : labels[n].size[m] = NoSize
    ELSE \E k \in Reachable :
            /\ GroupNow(k) = GroupNow(n)
            /\ \A m \in Models :
                  labels[n].size[m] = SizeOf(LimitOf(specs[MachineUUID(k)], m))

GroupLimits == \A n \in Reachable : LimitedNow(n)

(* With UseCM, the size labels of a node settle on the limits of its own   *)
(* machine's node group: never on those of another group of its fabric,    *)
(* although the machines of a fabric start from one device list, never on  *)
(* a mixture of two machines of the group, of which one is asked, and on   *)
(* "0" for a machine that left its group (lines 338-390).                  *)
EventuallyOwnLimits == <>[](UseCM /\ Scannable => GroupLimits)
=============================================================================
