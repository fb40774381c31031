------------------------ MODULE QuietScans_proofs ------------------------
(***************************************************************************)
(* A scan that nothing comes between makes labels and pools accurate: for  *)
(* any numbers of nodes, machines, fabrics, models, groups and upsets.     *)
(***************************************************************************)
EXTENDS QuietScans, ResourcePoolLoop_proofs

-----------------------------------------------------------------------------
(* The inductive invariant. *)

(* While nothing is upset, what the scan has gathered is what it would     *)
(* gather now.  getMachineUUIDs: a provider id that is looked up has given *)
(* its node the UUID, one that is not has given none.                      *)
Unresolved ==
    IF scan.step = "bmh" THEN scan.pending \cup {scan.found[2]} ELSE scan.pending

LookupsTrue ==
    /\ scan.step \in {"resolve", "bmh"} =>
          \A n \in Nodes : scan.uuids[n] =
              IF nodeStore[n] \in Unresolved THEN None ELSE MachineUUID(n)
    /\ scan.step = "bmh" =>
          /\ UseCapiBmh
          /\ scan.found[2] \notin scan.pending
          /\ \A n \in Nodes : nodeStore[n] = scan.found[2] <=> n = scan.found[1]

(* The machine list and the node groups. *)
AnswersTrue ==
    /\ scan.step \in {"machines", "groups", "groupInfo", "create"} =>
          \A n \in Nodes : scan.uuids[n] = MachineUUID(n)
    /\ scan.step \in {"groups", "groupInfo", "create"} => scan.mList = fabricOf
    /\ scan.step \in {"groupInfo", "create"} /\ UseCM =>
          \A g \in DOMAIN scan.ngInfos : scan.ngInfos[g] = members[g]
    /\ scan.step = "create" /\ UseCM => Len(scan.ngInfos) = NumGroups

MachineTrue(machine) ==
    \E n \in Reachable :
        /\ machine.nodeName = n
        /\ machine.machineUUID = MachineUUID(n)
        /\ machine.fabricID = FabricNow(n)
        /\ UseCM => machine.nodeGroup = GroupNow(n)

Listed(n) == \E i \in DOMAIN scan.machines : scan.machines[i].nodeName = n

(* A node that is done with carries the labels it is to carry. *)
Done(n) == LabelledNow(n) /\ (UseCM => LimitedNow(n))

MachinesTrue ==
    /\ scan.step \in {"free", "limits", "slices", "label"} =>
          \A i \in DOMAIN scan.machines : MachineTrue(scan.machines[i])
    /\ scan.step \in {"free", "limits", "slices"} => \A n \in Reachable : Listed(n)
    /\ scan.step = "label" => \A n \in Reachable : CountedNow(n) /\ (Listed(n) \/ Done(n))

(* The limits of a group that are known are those of one machine of it, of *)
(* the first in the list until all are known.                              *)
AskedOnce(g) ==
    (\E m \in Models : scan.limits[g][m] # None) =>
        \E i \in DOMAIN scan.machines :
            /\ scan.machines[i].nodeGroup = g
            /\ \A m \in Models : scan.limits[g][m] \in
                  {None, LimitOf(specs[scan.machines[i].machineUUID], m)}
            /\ (\E m \in Models : scan.limits[g][m] = None) =>
                  \A j \in DOMAIN scan.machines : j < i => scan.machines[j].nodeGroup # g

(* The limits of the group are those of a machine that is on a fabric.     *)
OfOneMachine(g) ==
    \E k \in Reachable :
        /\ GroupNow(k) = g
        /\ \A m \in Models : scan.limits[g][m] = LimitOf(specs[MachineUUID(k)], m)

CountsTrue ==
    /\ scan.step \in {"free", "limits", "slices"} =>
          \A f \in Fabrics, m \in Models : scan.avail[f][m] \in {None, free[f][m]}
    /\ scan.step \in {"free", "limits", "slices"} /\ UseCM =>
          \A g \in Groups : AskedOnce(g)
    /\ scan.step = "label" /\ UseCM =>
          \A i \in DOMAIN scan.machines : scan.machines[i].nodeGroup # None =>
              OfOneMachine(scan.machines[i].nodeGroup)

QuietFacts == LookupsTrue /\ AnswersTrue /\ MachinesTrue /\ CountsTrue

Settles == Scannable => \A n \in Reachable : CountedNow(n) /\ Done(n)

(* What the history variables remember. *)
HistoryTrue ==
    /\ quiet \in BOOLEAN /\ settled \in BOOLEAN
    /\ quiet => QuietFacts
    /\ settled => Settles
    /\ settled /\ scan.step # "idle" => quiet

QuietIInv == IInv /\ HistoryTrue

-----------------------------------------------------------------------------
(* What a scan would find depends on the world only. *)

LEMMA SameWorld ==
  ASSUME UNCHANGED world
  PROVE  /\ UNCHANGED <<nodeStore, bmhStore, fabricOf, free, members, specs>>
         /\ \A n \in Nodes : MachineUUID(n)' = MachineUUID(n)
         /\ \A n \in Nodes : FabricNow(n)' = FabricNow(n) /\ GroupNow(n)' = GroupNow(n)
         /\ Reachable' = Reachable
         /\ Scannable' <=> Scannable
<1>1. UNCHANGED <<nodeStore, bmhStore, fabricOf, free, members, specs>>
  BY DEF world, k8sVars, fmVars, cmVars
<1>2. \A n \in Nodes : MachineUUID(n)' = MachineUUID(n)
  BY <1>1 DEF MachineUUID
<1>3. \A n \in Nodes : FabricNow(n)' = FabricNow(n) /\ GroupNow(n)' = GroupNow(n)
  BY <1>1, <1>2 DEF FabricNow, GroupNow
<1>4. Reachable' = Reachable
  BY <1>1, <1>2 DEF Reachable
<1>5. Reachable \subseteq Nodes
  BY DEF Reachable
<1>6. Scannable' <=> Scannable
  BY <1>1, <1>3, <1>4, <1>5 DEF Scannable, Unambiguous
<1> QED
  BY <1>1, <1>2, <1>3, <1>4, <1>6

(* What is true of a node stays true of it while labels and pools stay. *)
LEMMA SamePublished ==
  ASSUME UNCHANGED world, NEW n \in Reachable
  PROVE  /\ UNCHANGED desired => (CountedNow(n)' <=> CountedNow(n))
         /\ labels'[n] = labels[n] => (Done(n)' <=> Done(n))
<1>1. n \in Nodes
  BY DEF Reachable
<1>2. UNCHANGED desired => (CountedNow(n)' <=> CountedNow(n))
  BY <1>1, SameWorld DEF CountedNow
<1>3. ASSUME labels'[n] = labels[n] PROVE Done(n)' <=> Done(n)
  <2>1. LabelledNow(n)' <=> LabelledNow(n)
    BY <1>1, <1>3, SameWorld DEF LabelledNow
  <2>2. LimitedNow(n)' <=> LimitedNow(n)
    <3>1. \A k \in Reachable : k \in Nodes
      BY DEF Reachable
    <3>2. specs' = specs /\ Reachable' = Reachable
      BY SameWorld
    <3> QED
      BY <1>1, <1>3, <3>1, <3>2, SameWorld DEF LimitedNow
  <2> QED
    BY <2>1, <2>2, SameWorld DEF Done
<1> QED
  BY <1>2, <1>3

(* A node on a fabric has a UUID, a fabric and a provider id. *)
LEMMA ReachableType ==
  ASSUME TypeOK, NEW n \in Reachable
  PROVE  /\ n \in Nodes /\ nodeStore[n] \in ProviderIDs
         /\ MachineUUID(n) \in Machines
         /\ FabricNow(n) \in Fabrics
         /\ FabricNow(n) # None
<1>1. n \in Nodes /\ MachineUUID(n) # None /\ fabricOf[MachineUUID(n)] # None
  BY DEF Reachable
<1>2. nodeStore[n] \in ProviderIDs
  BY <1>1 DEF MachineUUID
<1>3. MachineUUID(n) \in Machines
  BY <1>1, <1>2, ProviderAssumption DEF MachineUUID, TypeOK
<1> QED
  BY <1>1, <1>2, <1>3 DEF FabricNow, TypeOK

-----------------------------------------------------------------------------
(* Between scans there is nothing to be right or wrong. *)
LEMMA IdleFacts ==
  ASSUME scan'.step = "idle"
  PROVE  QuietFacts'
BY DEF QuietFacts, LookupsTrue, AnswersTrue, MachinesTrue, CountsTrue

(* getMachineUUIDs: what is looked up while nothing changes is right, and  *)
(* only a scan in a world without anything to label ends here.             *)
LEMMA ListProviderIDsQuiet ==
  ASSUME IInv, ListProviderIDs
  PROVE  QuietFacts'
<1> DEFINE ids == {nodeStore[n] : n \in Nodes} \cap ProviderIDs
<1>1. UNCHANGED world
  BY DEF ListProviderIDs
<1>2. CASE ids = {}
  <2>1. scan'.step = "idle"
    BY <1>2, NoScanType DEF ListProviderIDs
  <2> QED
    BY <2>1, IdleFacts
<1>3. CASE ids # {}
  <2>1. scan' = [NoScan EXCEPT !.step = "resolve", !.pending = ids]
    BY <1>3 DEF ListProviderIDs
  <2>2. /\ scan'.step = "resolve" /\ scan'.pending = ids
        /\ \A n \in Nodes : scan'.uuids[n] = None
    BY <2>1 DEF NoScan
  <2>3. \A n \in Nodes : nodeStore[n] \notin ids => MachineUUID(n) = None
    BY DEF MachineUUID
  <2> HIDE DEF ids
  <2>4. LookupsTrue'
    BY <1>1, <2>2, <2>3, SameWorld DEF LookupsTrue, Unresolved
  <2> QED
    BY <2>2, <2>4 DEF QuietFacts, AnswersTrue, MachinesTrue, CountsTrue
<1> QED
  BY <1>2, <1>3

LEMMA ResolvedQuiet ==
  ASSUME UNCHANGED <<world, published>>,
         NEW uuids \in [Nodes -> Machines \cup {None}],
         NEW pending \in SUBSET ProviderIDs,
         Resolved(uuids, pending),
         \A n \in Nodes : uuids[n] = IF nodeStore[n] \in pending THEN None
                                     ELSE MachineUUID(n)
  PROVE  QuietFacts' /\ (scan'.step = "idle" => Settles')
<1>1. CASE pending # {}
  <2>1. /\ scan'.step = "resolve" /\ scan'.pending = pending
        /\ scan'.uuids = uuids
    BY <1>1 DEF Resolved, NoScan
  <2>2. LookupsTrue'
    BY <2>1, SameWorld DEF LookupsTrue, Unresolved
  <2> QED
    BY <2>1, <2>2 DEF QuietFacts, AnswersTrue, MachinesTrue, CountsTrue
<1>2. CASE pending = {} /\ \A n \in Nodes : uuids[n] = None
  <2>1. scan'.step = "idle"
    BY <1>2, NoScanType DEF Resolved
  <2>2. Reachable = {}
    BY <1>2 DEF Reachable
  <2>3. Settles'
    BY <2>2, SameWorld DEF Settles
  <2> QED
    BY <2>1, <2>3, IdleFacts
<1>3. CASE pending = {} /\ ~ \A n \in Nodes : uuids[n] = None
  <2>1. scan'.step = "machines" /\ scan'.uuids = uuids
    BY <1>3 DEF Resolved, NoScan
  <2>2. \A n \in Nodes : scan'.uuids[n] = MachineUUID(n)
    BY <1>3, <2>1
  <2>3. AnswersTrue'
    BY <2>1, <2>2, SameWorld DEF AnswersTrue
  <2> QED
    BY <2>1, <2>3 DEF QuietFacts, LookupsTrue, MachinesTrue, CountsTrue
<1> QED
  BY <1>1, <1>2, <1>3

LEMMA FindNodeNameQuiet ==
  ASSUME IInv, QuietFacts, NEW p \in ProviderIDs, FindNodeNameByProviderID(p)
  PROVE  QuietFacts' /\ (scan'.step = "idle" => Settles')
<1> DEFINE names == {n \in Nodes : nodeStore[n] = p}
           rest == scan.pending \ {p}
<1>1. /\ scan \in Locals /\ UNCHANGED <<world, published>>
      /\ scan.step = "resolve" /\ p \in scan.pending
  BY DEF IInv, TypeOK, FindNodeNameByProviderID
<1>2. rest \in SUBSET ProviderIDs /\ scan.uuids \in [Nodes -> Machines \cup {None}]
  BY <1>1 DEF Locals
<1>3. \A n \in Nodes : scan.uuids[n] =
          IF nodeStore[n] \in scan.pending THEN None ELSE MachineUUID(n)
  BY <1>1 DEF QuietFacts, LookupsTrue, Unresolved
<1>4. ASSUME names = {}, Resolved(scan.uuids, rest)
      PROVE  QuietFacts' /\ (scan'.step = "idle" => Settles')
  <2>1. \A n \in Nodes : nodeStore[n] \in rest <=> nodeStore[n] \in scan.pending
    BY <1>4
  <2> QED
    BY <1>1, <1>2, <1>3, <1>4, <2>1, ResolvedQuiet
<1>5. ASSUME NEW n \in Nodes, names = {n}, ~UseCapiBmh,
             Resolved([scan.uuids EXCEPT ![n] = p], rest)
      PROVE  QuietFacts' /\ (scan'.step = "idle" => Settles')
  <2> DEFINE uuids == [scan.uuids EXCEPT ![n] = p]
  <2>1. uuids \in [Nodes -> Machines \cup {None}]
    BY <1>2, <1>5, ProviderAssumption
  <2>2. nodeStore[n] = p /\ MachineUUID(n) = p
    BY <1>5 DEF MachineUUID
  <2>3. \A k \in Nodes : k # n => nodeStore[k] # p
    BY <1>5
  <2>4. \A k \in Nodes : uuids[k] = IF nodeStore[k] \in rest THEN None
                                    ELSE MachineUUID(k)
    BY <1>2, <1>3, <2>2, <2>3
  <2> HIDE DEF uuids
  <2>5. Resolved(uuids, rest)
    BY <1>5 DEF uuids
  <2> QED
    BY <1>1, <1>2, <2>1, <2>4, <2>5, ResolvedQuiet
<1>6. ASSUME NEW n \in Nodes, names = {n}, UseCapiBmh,
             scan' = [scan EXCEPT !.step = "bmh", !.pending = rest, !.found = <<n, p>>]
      PROVE  QuietFacts' /\ scan'.step # "idle"
  <2>1. /\ scan'.step = "bmh" /\ scan'.pending = rest
        /\ scan'.found[1] = n /\ scan'.found[2] = p
        /\ scan'.uuids = scan.uuids
    BY <1>1, <1>6 DEF Locals
  <2>2. Unresolved' = scan.pending
    BY <1>1, <2>1 DEF Unresolved
  <2>3. \A k \in Nodes : nodeStore[k] = p <=> k = n
    BY <1>6
  <2>4. LookupsTrue'
    BY <1>1, <1>3, <1>6, <2>1, <2>2, <2>3, SameWorld DEF LookupsTrue
  <2> QED
    BY <2>1, <2>4 DEF QuietFacts, AnswersTrue, MachinesTrue, CountsTrue
<1>7. ASSUME \E k1, k2 \in names : k1 # k2, scan' = NoScan
      PROVE  QuietFacts' /\ Settles'
  <2>1. ~Scannable
    BY <1>7 DEF Scannable, Unambiguous
  <2>2. Settles'
    BY <1>1, <2>1, SameWorld DEF Settles
  <2> QED
    BY <1>7, <2>2, NoScanType, IdleFacts
<1> QED
  BY <1>4, <1>5, <1>6, <1>7 DEF FindNodeNameByProviderID

LEMMA FindMachineUUIDQuiet ==
  ASSUME IInv, QuietFacts, FindMachineUUIDByProviderID
  PROVE  QuietFacts' /\ (scan'.step = "idle" => Settles')
<1>1. scan \in Locals /\ UNCHANGED <<world, published>> /\ scan.step = "bmh"
  BY DEF IInv, TypeOK, FindMachineUUIDByProviderID
<1>2. PICK n \in Nodes, p \in ProviderIDs : scan.found = <<n, p>>
  BY <1>1 DEF IInv, ScanShape, Locals
<1>3. bmhStore[p] \in Machines \cup {None}
  BY DEF IInv, TypeOK
<1>4. /\ \A k \in Nodes : scan.uuids[k] = IF nodeStore[k] \in scan.pending \cup {p}
                                          THEN None ELSE MachineUUID(k)
      /\ UseCapiBmh /\ p \notin scan.pending
      /\ \A k \in Nodes : nodeStore[k] = p <=> k = n
  BY <1>1, <1>2 DEF QuietFacts, LookupsTrue, Unresolved
<1> DEFINE uuids == IF bmhStore[p] = None THEN scan.uuids
                    ELSE [scan.uuids EXCEPT ![n] = bmhStore[p]]
<1>5. /\ scan.uuids \in [Nodes -> Machines \cup {None}]
      /\ uuids \in [Nodes -> Machines \cup {None}]
      /\ scan.pending \in SUBSET ProviderIDs
  BY <1>1, <1>3 DEF Locals
<1>6. MachineUUID(n) = bmhStore[p]
  BY <1>4 DEF MachineUUID
<1>7. \A k \in Nodes : uuids[k] = IF nodeStore[k] \in scan.pending THEN None
                                  ELSE MachineUUID(k)
  BY <1>4, <1>5, <1>6
<1>8. Resolved(uuids, scan.pending)
  BY <1>2 DEF FindMachineUUIDByProviderID
<1> QED
  BY <1>1, <1>5, <1>7, <1>8, ResolvedQuiet

(* The machine list and the node groups. *)
LEMMA GetMachineListQuiet ==
  ASSUME IInv, QuietFacts, getMachineList
  PROVE  QuietFacts' /\ scan'.step # "idle"
<1>1. scan \in Locals /\ UNCHANGED <<world, published>> /\ scan.step = "machines"
  BY DEF IInv, TypeOK, getMachineList
<1>2. /\ scan'.step = IF UseCM THEN "groups" ELSE "create"
      /\ scan'.mList = fabricOf /\ scan'.uuids = scan.uuids
  BY <1>1 DEF getMachineList, Locals
<1>3. AnswersTrue'
  BY <1>1, <1>2, SameWorld DEF QuietFacts, AnswersTrue
<1> QED
  BY <1>2, <1>3 DEF QuietFacts, LookupsTrue, MachinesTrue, CountsTrue

LEMMA GetNodeGroupsQuiet ==
  ASSUME IInv, QuietFacts, getNodeGroups
  PROVE  QuietFacts' /\ scan'.step # "idle"
<1>1. scan \in Locals /\ UNCHANGED <<world, published>> /\ scan.step = "groups"
  BY DEF IInv, TypeOK, getNodeGroups
<1>2. /\ scan'.step = GroupStep(<< >>) /\ scan'.ngInfos = << >>
      /\ scan'.mList = scan.mList /\ scan'.uuids = scan.uuids
  BY <1>1 DEF getNodeGroups, Locals
<1>3. scan'.step \in {"groupInfo", "create"} /\ (scan'.step = "create" => NumGroups = 0)
  BY <1>2, GroupsAssumption DEF GroupStep
<1>4. DOMAIN scan'.ngInfos = {}
  BY <1>2
<1>5. AnswersTrue'
  BY <1>1, <1>2, <1>3, <1>4, SameWorld DEF QuietFacts, AnswersTrue
<1> QED
  BY <1>3, <1>5 DEF QuietFacts, LookupsTrue, MachinesTrue, CountsTrue

LEMMA GetNodeGroupInfoQuiet ==
  ASSUME IInv, QuietFacts, getNodeGroupInfo
  PROVE  QuietFacts' /\ scan'.step # "idle"
<1> DEFINE infos == Append(scan.ngInfos, members[Len(scan.ngInfos) + 1])
<1>1. /\ scan \in Locals /\ UNCHANGED <<world, published>> /\ scan.step = "groupInfo"
      /\ scan.ngInfos \in Seq(SUBSET Machines) /\ Len(scan.ngInfos) < NumGroups
  BY DEF IInv, TypeOK, ScanShape, getNodeGroupInfo, Locals
<1>2. /\ Len(infos) = Len(scan.ngInfos) + 1
      /\ DOMAIN infos = 1 .. Len(scan.ngInfos) + 1
      /\ \A g \in DOMAIN infos : infos[g] = IF g \in DOMAIN scan.ngInfos
                                           THEN scan.ngInfos[g] ELSE members[g]
  BY <1>1
<1>3. UseCM => \A g \in DOMAIN infos : infos[g] = members[g]
  BY <1>1, <1>2 DEF QuietFacts, AnswersTrue
<1>4. Len(scan.ngInfos) \in Nat
  BY <1>1
<1> HIDE DEF infos
<1>5. /\ scan'.step = GroupStep(infos) /\ scan'.ngInfos = infos
      /\ scan'.mList = scan.mList /\ scan'.uuids = scan.uuids
  BY <1>1 DEF getNodeGroupInfo, Locals, infos
<1>6. /\ scan'.step \in {"groupInfo", "create"}
      /\ scan'.step = "create" => Len(infos) = NumGroups
  BY <1>1, <1>2, <1>4, <1>5, GroupsAssumption DEF GroupStep
<1>7. AnswersTrue'
  BY <1>1, <1>3, <1>5, <1>6, SameWorld DEF QuietFacts, AnswersTrue
<1> QED
  BY <1>6, <1>7 DEF QuietFacts, LookupsTrue, MachinesTrue, CountsTrue

(* The machines are those of the nodes on a fabric, each as it is now. *)
LEMMA CreateMachinesQuiet ==
  ASSUME IInv, QuietFacts, CreateMachines
  PROVE  QuietFacts' /\ (scan'.step = "idle" => Settles')
<1> DEFINE known == {n \in Nodes : /\ scan.uuids[n] # None
                                   /\ scan.mList[scan.uuids[n]] # None}
<1>1. /\ scan \in Locals /\ UNCHANGED <<world, published>> /\ scan.step = "create"
      /\ scan.ngInfos \in Seq(SUBSET Machines)
  BY DEF IInv, TypeOK, CreateMachines, Locals
<1>2. /\ \A n \in Nodes : scan.uuids[n] = MachineUUID(n)
      /\ scan.mList = fabricOf
      /\ UseCM => Len(scan.ngInfos) = NumGroups
      /\ UseCM => \A g \in DOMAIN scan.ngInfos : scan.ngInfos[g] = members[g]
  BY <1>1 DEF QuietFacts, AnswersTrue
<1>3. known = Reachable
  BY <1>2 DEF Reachable
<1> HIDE DEF known
<1>4. UseCM => scan.ngInfos = members
  <2> SUFFICES ASSUME UseCM PROVE scan.ngInfos = members
    OBVIOUS
  <2>1. members \in [1 .. NumGroups -> SUBSET Machines]
    BY DEF IInv, TypeOK, Groups
  <2>2. scan.ngInfos \in [1 .. NumGroups -> SUBSET Machines]
    BY <1>1, <1>2
  <2> QED
    BY <1>2, <2>1, <2>2
<1>5. \A n \in Reachable : MachineTrue(MachineOf(n)) /\ MachineOf(n).nodeName = n
  <2>1. Reachable \subseteq Nodes
    BY DEF Reachable
  <2> QED
    BY <1>2, <1>4, <2>1 DEF MachineTrue, MachineOf, FabricNow, GroupNow
<1>6. CASE known = {} /\ scan' = NoScan
  <2>1. Settles'
    BY <1>1, <1>3, <1>6, SameWorld DEF Settles
  <2> QED
    BY <1>6, <2>1, NoScanType, IdleFacts
<1>7. ASSUME NEW order \in [1 .. Cardinality(known) -> known],
             \A n \in known : \E i \in DOMAIN order : order[i] = n,
             scan' = [NoScan EXCEPT !.step = "free",
                        !.machines = [i \in DOMAIN order |-> MachineOf(order[i])]]
      PROVE  QuietFacts' /\ scan'.step # "idle"
  <2> DEFINE ms == [i \in DOMAIN order |-> MachineOf(order[i])]
  <2>1. /\ scan'.step = "free" /\ scan'.machines = ms
        /\ scan'.avail = NoScan.avail /\ scan'.limits = NoScan.limits
    BY <1>7 DEF NoScan
  <2>2. \A i \in DOMAIN ms : MachineTrue(ms[i]) /\ ms[i].nodeName = order[i]
    BY <1>3, <1>5
  <2>3. \A n \in Reachable : \E i \in DOMAIN ms : ms[i].nodeName = n
    BY <1>3, <1>7, <2>2
  <2> HIDE DEF ms
  <2>4. Reachable' = Reachable /\ Reachable \subseteq Nodes
    BY <1>1, SameWorld DEF Reachable
  <2>5. MachinesTrue'
    BY <1>1, <2>1, <2>2, <2>3, <2>4, SameWorld DEF MachinesTrue, MachineTrue, Listed
  <2>6. CountsTrue'
    BY <2>1 DEF CountsTrue, AskedOnce, NoScan
  <2> QED
    BY <2>1, <2>5, <2>6 DEF QuietFacts, LookupsTrue, AnswersTrue
<1> QED
  BY <1>6, <1>7 DEF CreateMachines, known

(* The machines of the scan stay the machines of the world, while it asks. *)
LEMMA MachinesKept ==
  ASSUME UNCHANGED <<world, published>>, MachinesTrue,
         scan.step \in {"free", "limits", "slices"},
         scan'.step \in {"free", "limits", "slices"}, scan'.machines = scan.machines
  PROVE  MachinesTrue'
<1>1. Reachable' = Reachable /\ Reachable \subseteq Nodes
  BY SameWorld DEF Reachable
<1> QED
  BY <1>1, SameWorld DEF MachinesTrue, MachineTrue, Listed

(* getAvailableNums: the machine asked about is on the fabric of the list, *)
(* so the answer is of that fabric; a count that is refused is too large.  *)
LEMMA GetAvailableNumsQuiet ==
  ASSUME IInv, QuietFacts,
         NEW i \in DOMAIN scan.machines, NEW m \in Models, getAvailableNums(i, m)
  PROVE  QuietFacts' /\ (scan'.step = "idle" => Settles')
<1> DEFINE f == scan.machines[i].fabricID
           now == fabricOf[scan.machines[i].machineUUID]
           avail == [scan.avail EXCEPT ![f][m] = free[now][m]]
           step == IF AllCountsKnown(avail) THEN AfterCounts ELSE "free"
<1>1. /\ scan \in Locals /\ UNCHANGED <<world, published>> /\ scan.step = "free"
      /\ scan.avail \in [Fabrics -> [Models -> (0 .. MaxDevices) \cup {None}]]
  BY DEF IInv, TypeOK, getAvailableNums, Locals
<1>2. PICK n \in Reachable : /\ scan.machines[i].machineUUID = MachineUUID(n)
                             /\ f = FabricNow(n)
  BY <1>1 DEF QuietFacts, MachinesTrue, MachineTrue
<1>3. now = f /\ now # None /\ now \in Fabrics
  BY <1>2, ReachableType DEF FabricNow, IInv
<1>4. ASSUME free[now][m] > MaxDevices, scan' = NoScan
      PROVE  QuietFacts' /\ Settles'
  <2>1. free[now][m] \in Nat
    BY <1>3, MaxDevicesAssumption DEF IInv, TypeOK
  <2>2. ~Scannable
    BY <1>2, <1>3, <1>4, <2>1, MaxDevicesAssumption DEF Scannable
  <2>3. Settles'
    BY <1>1, <2>2, SameWorld DEF Settles
  <2> QED
    BY <1>4, <2>3, NoScanType, IdleFacts
<1>5. ASSUME scan' = [scan EXCEPT !.avail = avail, !.step = step]
      PROVE  QuietFacts' /\ scan'.step # "idle"
  <2>1. step \in {"free", "limits", "slices"}
    BY DEF AfterCounts
  <2>2. \A g \in Fabrics, k \in Models : avail[g][k] \in {None, free[g][k]}
    <3>1. \A g \in Fabrics, k \in Models : scan.avail[g][k] \in {None, free[g][k]}
      BY <1>1 DEF QuietFacts, CountsTrue
    <3> QED
      BY <1>1, <1>3, <3>1
  <2> HIDE DEF avail, step
  <2>3. /\ scan'.step = step /\ scan'.avail = avail
        /\ scan'.machines = scan.machines /\ scan'.limits = scan.limits
    BY <1>1, <1>5 DEF Locals
  <2>4. MachinesTrue'
    BY <1>1, <2>1, <2>3, MachinesKept DEF QuietFacts
  <2>5. CountsTrue'
    <3>1. \A g \in Groups : AskedOnce(g)' <=> AskedOnce(g)
      BY <1>1, <2>3, SameWorld DEF AskedOnce
    <3> QED
      BY <1>1, <2>1, <2>2, <2>3, <3>1, SameWorld DEF QuietFacts, CountsTrue
  <2> QED
    BY <2>1, <2>3, <2>4, <2>5 DEF QuietFacts, LookupsTrue, AnswersTrue
<1> QED
  BY <1>3, <1>4, <1>5 DEF getAvailableNums

(* getMinMaxNums: the machine asked about is the first of its group, and   *)
(* the one that was asked before.                                          *)
LEMMA GetMinMaxNumsQuiet ==
  ASSUME IInv, QuietFacts,
         NEW i \in DOMAIN scan.machines, NEW m \in Models, getMinMaxNums(i, m)
  PROVE  QuietFacts' /\ scan'.step # "idle"
<1> DEFINE g == scan.machines[i].nodeGroup
           limit == LimitOf(specs[scan.machines[i].machineUUID], m)
           limits == [scan.limits EXCEPT ![g][m] = limit]
           step == IF AllLimitsKnown(limits) THEN "slices" ELSE "limits"
<1>1. /\ scan \in Locals /\ UNCHANGED <<world, published>> /\ scan.step = "limits"
      /\ scan.limits \in [Groups -> [Models -> Limit \cup {None}]]
      /\ DOMAIN scan.machines \subseteq Nat
  BY DEF IInv, TypeOK, getMinMaxNums, Locals
<1>2. step \in {"limits", "slices"}
  OBVIOUS
<1>3. \A h \in Groups, k \in Models :
         limits[h][k] = IF h = g /\ k = m THEN limit ELSE scan.limits[h][k]
  <2> HIDE DEF limit, g
  <2> QED
    BY <1>1
<1>4. \A j \in DOMAIN scan.machines : j < i => scan.machines[j].nodeGroup # g
  BY DEF getMinMaxNums, LimitsKnown
<1>5. scan.limits[g][m] = None
  BY DEF getMinMaxNums
<1> HIDE DEF limits, step
<1>6. /\ scan'.step = step /\ scan'.limits = limits
      /\ scan'.machines = scan.machines /\ scan'.avail = scan.avail
  BY <1>1 DEF getMinMaxNums, limits, step, Locals
<1>7. MachinesTrue'
  BY <1>1, <1>2, <1>6, MachinesKept DEF QuietFacts
<1>8. ASSUME UseCM, NEW h \in Groups PROVE AskedOnce(h)'
  <2>1. AskedOnce(h)
    BY <1>1, <1>8 DEF QuietFacts, CountsTrue
  <2>2. CASE h # g
    <3>1. \A k \in Models : limits[h][k] = scan.limits[h][k]
      BY <1>3, <2>2
    <3> QED
      BY <1>1, <1>6, <2>1, <3>1, SameWorld DEF AskedOnce
  <2>3. CASE h = g
    <3>1. \A k \in Models : scan.limits[g][k] \in
             {None, LimitOf(specs[scan.machines[i].machineUUID], k)}
      <4>1. CASE \A k \in Models : scan.limits[g][k] = None
        BY <4>1
      <4>2. CASE \E k \in Models : scan.limits[g][k] # None
        <5>1. PICK w \in DOMAIN scan.machines :
                /\ scan.machines[w].nodeGroup = g
                /\ \A k \in Models : scan.limits[g][k] \in
                      {None, LimitOf(specs[scan.machines[w].machineUUID], k)}
                /\ \A j \in DOMAIN scan.machines : j < w => scan.machines[j].nodeGroup # g
          BY <1>5, <2>1, <2>3, <4>2 DEF AskedOnce
        <5>2. w = i
          BY <1>1, <1>4, <5>1
        <5> QED
          BY <5>1, <5>2
      <4> QED
        BY <4>1, <4>2
    <3>2. \A k \in Models : limits[g][k] \in
             {None, LimitOf(specs[scan.machines[i].machineUUID], k)}
      BY <1>3, <2>3, <3>1
    <3> QED
      BY <1>1, <1>4, <1>6, <2>3, <3>2, SameWorld DEF AskedOnce
  <2> QED
    BY <2>2, <2>3
<1>9. CountsTrue'
  BY <1>1, <1>2, <1>6, <1>8, SameWorld DEF QuietFacts, CountsTrue
<1> QED
  BY <1>2, <1>6, <1>7, <1>9 DEF QuietFacts, LookupsTrue, AnswersTrue

(* manageCDIResourceSlices: every fabric in use has been counted, and what *)
(* is handed over are these counts.                                        *)
LEMMA ManageSlicesQuiet ==
  ASSUME IInv, QuietFacts, manageCDIResourceSlices
  PROVE  QuietFacts' /\ scan'.step # "idle" /\ (Settles => Settles')
<1>1. /\ scan \in Locals /\ UNCHANGED <<world, labels>> /\ scan.step = "slices"
      /\ pools \in PoolMap
  BY DEF IInv, TypeOK, manageCDIResourceSlices
<1>2. /\ scan'.step = "label" /\ scan'.machines = scan.machines
      /\ scan'.limits = scan.limits
  BY <1>1 DEF manageCDIResourceSlices, Locals
<1>3. Reachable' = Reachable /\ Reachable \subseteq Nodes
  BY <1>1, SameWorld DEF Reachable
<1>4. ASSUME NEW n \in Reachable PROVE CountedNow(n)' /\ Listed(n)
  <2> DEFINE f == FabricNow(n)
  <2>1. PICK i \in DOMAIN scan.machines : scan.machines[i].nodeName = n
    BY <1>1 DEF QuietFacts, MachinesTrue, Listed
  <2>2. scan.machines[i].fabricID = f
    BY <1>1, <2>1 DEF QuietFacts, MachinesTrue, MachineTrue
  <2>3. f \in ScannedFabrics /\ f \in Fabrics
    BY <2>1, <2>2, ReachableType DEF ScannedFabrics, IInv
  <2>4. ASSUME NEW m \in Models
        PROVE  desired'[<<m, f>>] # NoPool /\ desired'[<<m, f>>].devices = free[f][m]
    <3>1. <<m, f>> \in PoolNames
      BY <2>3 DEF PoolNames
    <3>2. scan.avail[f][m] \in 0 .. MaxDevices
      BY <2>3, ManageSlices
    <3>3. scan.avail[f][m] = free[f][m]
      <4>1. scan.avail[f][m] # None
        BY <3>2, MaxDevicesAssumption, NoneAssumption
      <4> QED
        BY <1>1, <2>3, <4>1 DEF QuietFacts, CountsTrue
    <3>4. desired'[<<m, f>>] = updatePool(pools[<<m, f>>], scan.avail[f][m])
      BY <2>3, <3>1, ManageSlices DEF scannedPools
    <3>5. pools[<<m, f>>] \in Pool \cup {NoPool}
      BY <1>1, <3>1 DEF PoolMap
    <3> HIDE DEF f
    <3> QED
      BY <3>2, <3>3, <3>4, <3>5, UpdatePool, NoPoolAssumption
  <2>5. CountedNow(n)'
    <3>1. n \in Nodes
      BY <1>3
    <3> QED
      BY <1>1, <2>4, <3>1, SameWorld DEF CountedNow
  <2> QED
    BY <2>1, <2>5 DEF Listed
<1>5. MachinesTrue'
  BY <1>1, <1>2, <1>3, <1>4, SameWorld DEF QuietFacts, MachinesTrue, MachineTrue, Listed
<1>6. CountsTrue'
  <2>1. ASSUME UseCM, NEW i \in DOMAIN scan.machines, scan.machines[i].nodeGroup # None
        PROVE  OfOneMachine(scan.machines[i].nodeGroup)'
    <3>1. PICK g \in Groups : g = scan.machines[i].nodeGroup
      <4>1. scan.machines[i] \in Machine
        BY <1>1 DEF Locals
      <4> QED
        BY <2>1, <4>1 DEF Machine
    <3>2. \A m \in Models : scan.limits[g][m] # None
      BY <1>1, <2>1, <3>1 DEF IInv, ScanShape, AllLimitsKnown, LimitsKnown
    <3>3. AskedOnce(g)
      BY <1>1, <2>1, <3>1 DEF QuietFacts, CountsTrue
    <3>4. Models # {}
      BY ModelsAssumption DEF Models
    <3>5. PICK w \in DOMAIN scan.machines :
            /\ scan.machines[w].nodeGroup = g
            /\ \A m \in Models :
                  scan.limits[g][m] = LimitOf(specs[scan.machines[w].machineUUID], m)
      BY <3>2, <3>3, <3>4 DEF AskedOnce
    <3>6. PICK k \in Reachable : scan.machines[w].machineUUID = MachineUUID(k)
                               /\ GroupNow(k) = g
      BY <1>1, <2>1, <3>5 DEF QuietFacts, MachinesTrue, MachineTrue
    <3>7. k \in Nodes /\ k \in Reachable'
      BY <1>3, <3>6
    <3>8. OfOneMachine(g)'
      BY <1>1, <1>2, <3>5, <3>6, <3>7, SameWorld DEF OfOneMachine
    <3> QED
      BY <1>2, <3>1, <3>8
  <2> QED
    BY <1>2, <2>1 DEF CountsTrue
<1>7. Settles => Settles'
  BY <1>1, <1>3, <1>4, SameWorld, SamePublished DEF Settles
<1> QED
  BY <1>2, <1>5, <1>6, <1>7 DEF QuietFacts, LookupsTrue, AnswersTrue

(* The size labels of a machine are the limits of one machine of its       *)
(* group.                                                                  *)
LEMMA SizeLabelsTrue ==
  ASSUME QuietFacts, scan.step = "label", UseCM, NEW i \in DOMAIN scan.machines
  PROVE  IF scan.machines[i].nodeGroup = None
         THEN \A m \in Models : SizeLabels(scan.machines[i])[m] = NoSize
         ELSE \E k \in Reachable :
                 /\ GroupNow(k) = scan.machines[i].nodeGroup
                 /\ \A m \in Models : SizeLabels(scan.machines[i])[m] =
                                         SizeOf(LimitOf(specs[MachineUUID(k)], m))
<1> DEFINE g == scan.machines[i].nodeGroup
<1>1. CASE g = None
  BY <1>1 DEF SizeLabels
<1>2. CASE g # None
  <2>1. PICK k \in Reachable :
          /\ GroupNow(k) = g
          /\ \A m \in Models : scan.limits[g][m] = LimitOf(specs[MachineUUID(k)], m)
    BY <1>2 DEF QuietFacts, CountsTrue, OfOneMachine
  <2>2. \A m \in Models : SizeLabels(scan.machines[i])[m] = SizeOf(scan.limits[g][m])
    BY <1>2 DEF SizeLabels
  <2> QED
    BY <1>2, <2>1, <2>2
<1> QED
  BY <1>1, <1>2

(* manageCDINodeLabel: each label written is right, and the node of every  *)
(* machine that is dropped from the list has been done with.               *)
LEMMA LabelNodeQuiet ==
  ASSUME IInv, QuietFacts, LabelNode
  PROVE  QuietFacts' /\ (scan'.step = "idle" => Settles') /\ (Settles => Settles')
<1> DEFINE machine == scan.machines[1]
           rest == Tail(scan.machines)
<1>1. /\ scan \in Locals /\ UNCHANGED <<world, desired>> /\ scan.step = "label"
      /\ scan.machines \in Seq(Machine) /\ scan.machines # << >>
      /\ labels \in [Nodes -> Labels]
  BY DEF IInv, TypeOK, ScanShape, LabelNode, Locals
<1>2. 1 \in DOMAIN scan.machines /\ Head(scan.machines) = machine
  BY <1>1
<1>3. PICK n \in Reachable : /\ machine.nodeName = n
                             /\ machine.fabricID = FabricNow(n)
                             /\ UseCM => machine.nodeGroup = GroupNow(n)
  BY <1>1, <1>2 DEF QuietFacts, MachinesTrue, MachineTrue
<1>4. Reachable' = Reachable /\ Reachable \subseteq Nodes
  BY <1>1, SameWorld DEF Reachable
<1>5. /\ \A k \in Nodes : k # n => labels'[k] = labels[k]
      /\ labels'[n] = [fabric |-> FabricNow(n),
                       size   |-> IF UseCM THEN SizeLabels(machine) ELSE labels[n].size]
  <2>1. nodeStore[n] # Absent
    BY ReachableType, NoneAssumption DEF IInv
  <2> DEFINE new == [fabric |-> FabricNow(n),
                     size   |-> IF UseCM THEN SizeLabels(machine) ELSE labels[n].size]
  <2>2. labels' = [labels EXCEPT ![n] = new]
    BY <1>2, <1>3, <2>1 DEF LabelNode
  <2> HIDE DEF new
  <2>3. /\ \A k \in Nodes : k # n => labels'[k] = labels[k]
        /\ labels'[n] = new
    BY <1>1, <1>4, <2>2
  <2> QED
    BY <2>3 DEF new
<1>6. Done(n)'
  <2>1. n \in Nodes
    BY <1>4
  <2>2. LabelledNow(n)'
    BY <1>1, <1>5, <2>1, SameWorld DEF LabelledNow
  <2>3. ASSUME UseCM PROVE LimitedNow(n)'
    <3>1. labels'[n].size = SizeLabels(machine) /\ machine.nodeGroup = GroupNow(n)
      BY <1>3, <1>5, <2>3
    <3>2. IF GroupNow(n) = None THEN \A m \in Models : labels'[n].size[m] = NoSize
          ELSE \E k \in Reachable :
                  /\ GroupNow(k) = GroupNow(n)
                  /\ \A m \in Models :
                        labels'[n].size[m] = SizeOf(LimitOf(specs[MachineUUID(k)], m))
      BY <1>1, <1>2, <2>3, <3>1, SizeLabelsTrue
    <3>3. specs' = specs /\ Reachable' = Reachable
      BY <1>1, SameWorld
    <3>4. \A k \in Reachable : /\ GroupNow(k)' = GroupNow(k)
                                /\ MachineUUID(k)' = MachineUUID(k)
      BY <1>1, <1>4, SameWorld
    <3> QED
      BY <3>2, <3>3, <3>4 DEF LimitedNow
  <2> QED
    BY <1>1, <2>2, <2>3, SameWorld DEF Done
<1>7. \A k \in Reachable : Done(k) => Done(k)'
  <2>1. ASSUME NEW k \in Reachable, k # n PROVE Done(k) => Done(k)'
    BY <1>1, <1>4, <1>5, <2>1, SamePublished
  <2> QED
    BY <1>6, <2>1
<1>8. \A k \in Reachable : CountedNow(k)'
  BY <1>1, SamePublished DEF QuietFacts, MachinesTrue
<1>9. \A k \in Reachable : Listed(k) \/ Done(k)
  BY <1>1 DEF QuietFacts, MachinesTrue
<1>10. CASE Len(scan.machines) = 1
  <2>1. scan' = NoScan
    BY <1>10 DEF LabelNode
  <2>2. \A k \in Reachable : Listed(k) => k = n
    BY <1>1, <1>3, <1>10 DEF Listed
  <2>3. \A k \in Reachable : Done(k)'
    BY <1>6, <1>7, <1>9, <2>2
  <2>4. Settles'
    BY <1>4, <1>8, <2>3 DEF Settles
  <2> QED
    BY <2>1, <2>4, NoScanType, IdleFacts
<1>11. CASE Len(scan.machines) # 1
  <2>1. scan' = [scan EXCEPT !.machines = rest]
    BY <1>11 DEF LabelNode
  <2>2. /\ \A i \in DOMAIN rest : i + 1 \in DOMAIN scan.machines
                                  /\ rest[i] = scan.machines[i + 1]
        /\ \A i \in DOMAIN scan.machines : i # 1 =>
              i - 1 \in DOMAIN rest /\ rest[i - 1] = scan.machines[i]
    BY <1>1
  <2> HIDE DEF rest
  <2>3. /\ scan'.step = "label" /\ scan'.machines = rest
        /\ scan'.limits = scan.limits
    BY <1>1, <2>1 DEF Locals
  <2>4. \A k \in Reachable : Listed(k) /\ k # n =>
            \E i \in DOMAIN rest : rest[i].nodeName = k
    BY <1>3, <2>2 DEF Listed
  <2>5. \A k \in Reachable : Listed(k)' \/ Done(k)'
    BY <1>6, <1>7, <1>9, <2>3, <2>4 DEF Listed
  <2>6. \A i \in DOMAIN rest : MachineTrue(rest[i])
    BY <1>1, <2>2 DEF QuietFacts, MachinesTrue
  <2>7. \A i \in DOMAIN scan'.machines : MachineTrue(scan.machines[i])'
    BY <1>1, <1>4, <2>3, <2>6, SameWorld DEF MachineTrue
  <2>8. MachinesTrue'
    BY <1>4, <1>8, <2>3, <2>5, <2>7 DEF MachinesTrue
  <2>9. CountsTrue'
    <3>1. \A k \in Reachable : /\ GroupNow(k)' = GroupNow(k)
                                /\ MachineUUID(k)' = MachineUUID(k)
      BY <1>1, <1>4, SameWorld
    <3>2. specs' = specs
      BY <1>1, SameWorld
    <3>3. \A g : OfOneMachine(g)' <=> OfOneMachine(g)
      BY <1>4, <2>3, <3>1, <3>2 DEF OfOneMachine
    <3>4. UseCM => \A i \in DOMAIN rest : rest[i].nodeGroup # None =>
                      OfOneMachine(rest[i].nodeGroup)
      BY <1>1, <2>2 DEF QuietFacts, CountsTrue
    <3> QED
      BY <2>3, <3>3, <3>4 DEF CountsTrue
  <2>10. Settles => Settles'
    BY <1>1, <1>4, <1>7, <1>8, SameWorld DEF Settles
  <2> QED
    BY <2>3, <2>8, <2>9, <2>10 DEF QuietFacts, LookupsTrue, AnswersTrue
<1> QED
  BY <1>10, <1>11

-----------------------------------------------------------------------------
(* A step of the scan in quiet keeps what is known and what is settled;    *)
(* when it ends the scan, it leaves all settled.                           *)
LEMMA LoopStepQuiet ==
  ASSUME IInv, QuietFacts, LoopStep, scan.step # "idle"
  PROVE  QuietFacts' /\ (scan'.step = "idle" => Settles') /\ (Settles => Settles')
<1>1. CASE LabelNode
  BY <1>1, LabelNodeQuiet
<1>2. CASE manageCDIResourceSlices
  BY <1>2, ManageSlicesQuiet
<1>3. CASE ~LabelNode /\ ~manageCDIResourceSlices
  <2>1. UNCHANGED <<world, published>>
    BY <1>3 DEF LoopStep, ListProviderIDs, FindNodeNameByProviderID,
       FindMachineUUIDByProviderID, getMachineList, getNodeGroups, getNodeGroupInfo,
       CreateMachines, getAvailableNums, getMinMaxNums
  <2>2. QuietFacts' /\ (scan'.step = "idle" => Settles')
    BY <1>3, FindNodeNameQuiet, FindMachineUUIDQuiet, GetMachineListQuiet,
       GetNodeGroupsQuiet, GetNodeGroupInfoQuiet, CreateMachinesQuiet,
       GetAvailableNumsQuiet, GetMinMaxNumsQuiet
    DEF LoopStep, ListProviderIDs
  <2>3. Settles => Settles'
    BY <2>1, SameWorld, SamePublished DEF Settles, published
  <2> QED
    BY <2>2, <2>3
<1> QED
  BY <1>1, <1>2, <1>3

(* The history variables tell upsets from everything else. *)
LEMMA QuietSteps ==
  ASSUME IInv, QuietNext, upsets' = upsets
  PROVE  LoopStep /\ UNCHANGED world
<1>1. upsets \in Nat
  BY MaxUpsetsAssumption DEF IInv, TypeOK
<1>2. ~APICallFails /\ ~WorldStep
  BY <1>1 DEF APICallFails, WorldStep, NodeChanges, BmhChanges, FabricChanges,
     FreeChanges, GroupChanges, LimitChanges, Upset
<1>3. LoopStep
  BY <1>2 DEF QuietNext, Next
<1> QED
  BY <1>3 DEF LoopStep, ListProviderIDs, FindNodeNameByProviderID,
     FindMachineUUIDByProviderID, getMachineList, getNodeGroups, getNodeGroupInfo,
     CreateMachines, getAvailableNums, getMinMaxNums, manageCDIResourceSlices, LabelNode

(* Every step keeps what the history variables remember. *)
LEMMA HistoryStep == QuietIInv /\ [QuietNext]_quietVars => HistoryTrue'
<1> SUFFICES ASSUME QuietIInv, [QuietNext]_quietVars PROVE HistoryTrue'
  OBVIOUS
<1> USE DEF QuietIInv
<1>1. CASE QuietNext /\ upsets' # upsets
  BY <1>1 DEF QuietNext, History, HistoryTrue
<1>2. CASE QuietNext /\ upsets' = upsets /\ scan.step = "idle"
  <2>1. ListProviderIDs
    BY <1>2, QuietSteps DEF LoopStep, FindNodeNameByProviderID,
       FindMachineUUIDByProviderID, getMachineList, getNodeGroups, getNodeGroupInfo,
       CreateMachines, getAvailableNums, getMinMaxNums, manageCDIResourceSlices, LabelNode
  <2>2. QuietFacts'
    BY <2>1, ListProviderIDsQuiet
  <2>3. Settles => Settles'
    BY <2>1, SameWorld, SamePublished DEF Settles, ListProviderIDs, published
  <2>4. quiet' = TRUE /\ settled' = settled
    BY <1>2 DEF QuietNext, History, ScanEndsNow, HistoryTrue
  <2> QED
    BY <2>2, <2>3, <2>4 DEF HistoryTrue
<1>3. CASE QuietNext /\ upsets' = upsets /\ scan.step # "idle"
  <2>1. /\ quiet' = quiet
        /\ settled' = (settled \/ (quiet /\ scan'.step = "idle"))
    BY <1>3 DEF QuietNext, History, ScanEndsNow, HistoryTrue
  <2>2. settled => quiet
    BY <1>3 DEF HistoryTrue
  <2>3. quiet => /\ QuietFacts'
                 /\ scan'.step = "idle" => Settles'
                 /\ Settles => Settles'
    BY <1>3, QuietSteps, LoopStepQuiet DEF HistoryTrue
  <2> QED
    BY <2>1, <2>2, <2>3 DEF HistoryTrue
<1>4. CASE UNCHANGED quietVars
  <2>1. UNCHANGED <<world, published, scan, quiet, settled>>
    BY <1>4 DEF quietVars, vars
  <2>2. Reachable' = Reachable /\ Reachable \subseteq Nodes
    BY <2>1, SameWorld DEF Reachable
  <2>3. Settles => Settles'
    BY <2>1, SameWorld, SamePublished DEF Settles, published
  <2>4. QuietFacts => LookupsTrue' /\ AnswersTrue'
    BY <2>1, SameWorld DEF QuietFacts, LookupsTrue, Unresolved, AnswersTrue
  <2>5. QuietFacts => MachinesTrue'
    <3>1. \A n \in Reachable : /\ CountedNow(n)' <=> CountedNow(n)
                               /\ Done(n)' <=> Done(n)
                               /\ Listed(n)' <=> Listed(n)
      BY <2>1, SamePublished DEF published, Listed
    <3>2. \A i \in DOMAIN scan.machines : MachineTrue(scan.machines[i]) =>
              \E n \in Reachable : /\ scan'.machines[i].nodeName = n
                                   /\ scan'.machines[i].machineUUID = MachineUUID(n)'
                                   /\ scan'.machines[i].fabricID = FabricNow(n)'
                                   /\ UseCM => scan'.machines[i].nodeGroup = GroupNow(n)'
      BY <2>1, <2>2, SameWorld DEF MachineTrue
    <3> QED
      BY <2>1, <2>2, <3>1, <3>2 DEF QuietFacts, MachinesTrue, MachineTrue
  <2>6. QuietFacts => CountsTrue'
    <3>1. \A k \in Reachable : /\ GroupNow(k)' = GroupNow(k)
                                /\ MachineUUID(k)' = MachineUUID(k)
      BY <2>1, <2>2, SameWorld
    <3>2. \A g : OfOneMachine(g)' <=> OfOneMachine(g)
      BY <2>1, <2>2, <3>1, SameWorld DEF OfOneMachine
    <3>3. \A g : AskedOnce(g)' <=> AskedOnce(g)
      BY <2>1, SameWorld DEF AskedOnce
    <3> QED
      BY <2>1, <3>2, <3>3, SameWorld DEF QuietFacts, CountsTrue
  <2> QED
    BY <2>1, <2>3, <2>4, <2>5, <2>6 DEF HistoryTrue, QuietFacts
<1> QED
  BY <1>1, <1>2, <1>3, <1>4

LEMMA QuietInvariance == QuietSpec => []QuietIInv
<1>1. QuietInit => QuietIInv
  BY InitIInv DEF QuietInit, QuietIInv, HistoryTrue
<1>2. QuietIInv /\ [QuietNext]_quietVars => QuietIInv'
  <2> SUFFICES ASSUME QuietIInv, [QuietNext]_quietVars PROVE QuietIInv'
    OBVIOUS
  <2>1. [Next]_vars
    BY DEF QuietNext, quietVars
  <2> QED
    BY <2>1, NextIInv, HistoryStep DEF QuietIInv
<1> QED
  BY <1>1, <1>2, PTL DEF QuietSpec

-----------------------------------------------------------------------------
(* The theorems. *)

(* A scan that nothing comes between leaves every node on a fabric with    *)
(* the label of that fabric and every pool there with the devices that are *)
(* free, and no step of the scans after it spoils that                     *)
(* (startCheckResourcePoolLoop).                                           *)
THEOREM OneScanSettles == QuietSpec => []ScansSettle
<1>1. QuietIInv => ScansSettle
  BY DEF QuietIInv, HistoryTrue, Settles, Done, ScansSettle, Accurate
<1> QED
  BY <1>1, QuietInvariance, PTL

(* With the cluster manager it leaves every such node with the limits of   *)
(* one machine of its own node group (DeepCopy, getMinMaxNums,             *)
(* manageCDINodeLabel), in whatever order the machines were listed.        *)
THEOREM OneScanSettlesLimits == QuietSpec => []LimitsSettle
<1>1. QuietIInv => LimitsSettle
  BY DEF QuietIInv, HistoryTrue, Settles, Done, LimitsSettle, GroupLimits
<1> QED
  BY <1>1, QuietInvariance, PTL

(* When the machines of a group have one specification, as the manager     *)
(* takes for granted (lines 355-372), these are the machine's own limits.  *)
COROLLARY UniformGroupsOwnLimits ==
  ASSUME TypeOK, GroupLimits,
         \A n, k \in Reachable : GroupNow(n) # None /\ GroupNow(n) = GroupNow(k) =>
             specs[MachineUUID(n)] = specs[MachineUUID(k)],
         NEW n \in Reachable, GroupNow(n) # None, NEW m \in Models
  PROVE  labels[n].size[m] = SizeOf(LimitOf(specs[MachineUUID(n)], m))
BY DEF GroupLimits, LimitedNow

-----------------------------------------------------------------------------
(* A world in which a scan cannot succeed.                                 *)

(* The provider ids that are resolved belong to one node each.             *)
ResolvedUnambiguous ==
    /\ scan.step \in {"resolve", "bmh"} => Unambiguous(ProviderIDs \ scan.pending)
    /\ scan.step \notin {"idle", "resolve", "bmh"} => Unambiguous(ProviderIDs)

LEMMA ResolvedUnambiguousStep ==
  ASSUME IInv, LoopStep, UNCHANGED world, scan.step # "idle" => ResolvedUnambiguous
  PROVE  ResolvedUnambiguous'
<1>1. \A ids : Unambiguous(ids)' <=> Unambiguous(ids)
  BY SameWorld DEF Unambiguous
<1>2. ASSUME NEW uuids, NEW pending, Resolved(uuids, pending),
             Unambiguous(ProviderIDs \ pending)
      PROVE  ResolvedUnambiguous'
  <2>1. /\ scan'.step = "resolve" => scan'.pending = pending
        /\ scan'.step \notin {"idle", "resolve"} => pending = {}
        /\ scan'.step # "bmh"
    BY <1>2 DEF Resolved, NoScan
  <2>2. ProviderIDs \ {} = ProviderIDs
    OBVIOUS
  <2> QED
    BY <1>1, <1>2, <2>1, <2>2 DEF ResolvedUnambiguous
<1>3. CASE ListProviderIDs
  <2> DEFINE ids == {nodeStore[n] : n \in Nodes} \cap ProviderIDs
  <2>1. scan'.step = "idle" \/ (scan'.step = "resolve" /\ scan'.pending = ids)
    BY <1>3 DEF ListProviderIDs, NoScan
  <2>2. Unambiguous(ProviderIDs \ ids)
    BY DEF Unambiguous
  <2> HIDE DEF ids
  <2> QED
    BY <1>1, <2>1, <2>2 DEF ResolvedUnambiguous
<1>4. ASSUME NEW p \in ProviderIDs, FindNodeNameByProviderID(p)
      PROVE  ResolvedUnambiguous'
  <2> DEFINE names == {n \in Nodes : nodeStore[n] = p}
             rest == scan.pending \ {p}
  <2>1. scan \in Locals /\ Unambiguous(ProviderIDs \ scan.pending)
    BY <1>4 DEF IInv, TypeOK, FindNodeNameByProviderID, ResolvedUnambiguous
  <2>2. CASE \E n1, n2 \in names : n1 # n2
    <3>1. scan'.step = "idle"
      BY <1>4, <2>2, NoScanType DEF FindNodeNameByProviderID
    <3> QED
      BY <3>1 DEF ResolvedUnambiguous
  <2>3. CASE ~ \E n1, n2 \in names : n1 # n2
    <3>1. Unambiguous(ProviderIDs \ rest)
      BY <2>1, <2>3 DEF Unambiguous
    <3>2. CASE \E uuids : Resolved(uuids, rest)
      BY <1>2, <3>1, <3>2
    <3>3. CASE \E n \in Nodes : scan' = [scan EXCEPT !.step = "bmh", !.pending = rest,
                                                    !.found = <<n, p>>]
      <4>1. scan'.step = "bmh" /\ scan'.pending = rest
        BY <2>1, <3>3 DEF Locals
      <4> QED
        BY <1>1, <3>1, <4>1 DEF ResolvedUnambiguous
    <3> QED
      BY <1>4, <2>3, <3>2, <3>3 DEF FindNodeNameByProviderID
  <2> QED
    BY <2>2, <2>3
<1>5. CASE FindMachineUUIDByProviderID
  <2>1. Unambiguous(ProviderIDs \ scan.pending)
    BY <1>5 DEF FindMachineUUIDByProviderID, ResolvedUnambiguous
  <2> QED
    BY <1>2, <1>5, <2>1 DEF FindMachineUUIDByProviderID
<1>6. CASE scan.step \notin {"idle", "resolve", "bmh"}
  <2>1. scan'.step \notin {"resolve", "bmh"}
    <3>1. scan \in Locals /\ NoScan.step = "idle"
      BY DEF IInv, TypeOK, NoScan
    <3>2. CASE getMachineList \/ getNodeGroups \/ getNodeGroupInfo
      BY <3>1, <3>2 DEF getMachineList, getNodeGroups, getNodeGroupInfo, GroupStep, Locals
    <3>3. CASE CreateMachines
      BY <3>1, <3>3 DEF CreateMachines, NoScan
    <3>4. ASSUME NEW i \in DOMAIN scan.machines, NEW m \in Models,
                 getAvailableNums(i, m) \/ getMinMaxNums(i, m)
          PROVE  scan'.step \notin {"resolve", "bmh"}
      BY <3>1, <3>4 DEF getAvailableNums, getMinMaxNums, AfterCounts, Locals
    <3>5. CASE manageCDIResourceSlices \/ LabelNode
      BY <1>6, <3>1, <3>5 DEF manageCDIResourceSlices, LabelNode, Locals
    <3> QED
      BY <1>6, <3>2, <3>3, <3>4, <3>5 DEF LoopStep, ListProviderIDs,
         FindNodeNameByProviderID, FindMachineUUIDByProviderID
  <2> QED
    BY <1>1, <1>6, <2>1 DEF ResolvedUnambiguous
<1> QED
  BY <1>3, <1>4, <1>5, <1>6 DEF LoopStep, getMachineList, getNodeGroups, getNodeGroupInfo,
     CreateMachines, getAvailableNums, getMinMaxNums, manageCDIResourceSlices, LabelNode

ScanUnambiguous == quiet /\ scan.step # "idle" => ResolvedUnambiguous

LEMMA ScanUnambiguousStep ==
  QuietIInv /\ ScanUnambiguous /\ [QuietNext]_quietVars => ScanUnambiguous'
<1> SUFFICES ASSUME QuietIInv, ScanUnambiguous, [QuietNext]_quietVars, quiet'
             PROVE  ResolvedUnambiguous'
  BY DEF ScanUnambiguous
<1>1. CASE UNCHANGED quietVars
  <2>1. quiet' = quiet /\ scan' = scan /\ UNCHANGED world
    BY <1>1 DEF quietVars, vars
  <2>2. quiet
    BY <2>1
  <2>3. scan.step # "idle" => ResolvedUnambiguous
    BY <2>2 DEF ScanUnambiguous
  <2>4. \A ids : Unambiguous(ids)' <=> Unambiguous(ids)
    BY <2>1, SameWorld DEF Unambiguous
  <2> QED
    BY <2>1, <2>3, <2>4 DEF ResolvedUnambiguous
<1>2. CASE QuietNext
  <2>1. upsets' = upsets /\ (scan.step = "idle" \/ quiet)
    BY <1>2 DEF QuietNext, History
  <2>2. LoopStep /\ UNCHANGED world
    BY <1>2, <2>1, QuietSteps DEF QuietIInv
  <2> QED
    BY <2>1, <2>2, ResolvedUnambiguousStep DEF QuietIInv, ScanUnambiguous
<1> QED
  BY <1>1, <1>2

(* While two nodes share a provider id, or a fabric in use has more free   *)
(* devices than a scan accepts, scans publish nothing                      *)
(* (FindNodeNameByProviderID, getAvailableNums).                           *)
THEOREM UnscannableChangesNothing == QuietSpec => UnscannableUntouched
<1> DEFINE Inv == QuietIInv /\ ScanUnambiguous
           Untouched == quiet /\ quiet' /\ ~Scannable => UNCHANGED published
<1>1. ASSUME QuietIInv, ScanUnambiguous, QuietNext, quiet, quiet', UNCHANGED published => FALSE
      PROVE  Scannable
  <2>1. upsets' = upsets
    BY <1>1 DEF QuietNext, History
  <2>2. manageCDIResourceSlices \/ LabelNode
    BY <1>1, <2>1, QuietSteps DEF QuietIInv, LoopStep, ListProviderIDs,
       FindNodeNameByProviderID, FindMachineUUIDByProviderID, getMachineList, getNodeGroups,
       getNodeGroupInfo, CreateMachines, getAvailableNums, getMinMaxNums
  <2>3. scan.step \in {"slices", "label"}
    BY <2>2 DEF manageCDIResourceSlices, LabelNode
  <2>4. Unambiguous(ProviderIDs)
    BY <1>1, <2>3 DEF ScanUnambiguous, ResolvedUnambiguous
  <2>5. ASSUME NEW n \in Reachable, NEW m \in Models
        PROVE  free[FabricNow(n)][m] <= MaxDevices
    <3> DEFINE f == FabricNow(n)
    <3>1. f \in Fabrics
      BY <1>1, ReachableType DEF QuietIInv, IInv
    <3>2. CASE scan.step = "slices"
      <4>1. PICK i \in DOMAIN scan.machines : scan.machines[i].nodeName = n
        BY <1>1, <3>2 DEF HistoryTrue, QuietIInv, QuietFacts, MachinesTrue, Listed
      <4>2. scan.machines[i].fabricID = f
        BY <1>1, <3>2, <4>1 DEF HistoryTrue, QuietIInv, QuietFacts, MachinesTrue, MachineTrue
      <4>3. f \in ScannedFabrics /\ manageCDIResourceSlices
        BY <2>2, <3>2, <4>1, <4>2 DEF ScannedFabrics, LabelNode
      <4>4. scan.avail[f][m] \in 0 .. MaxDevices
        BY <1>1, <4>3, ManageSlices DEF QuietIInv
      <4>5. scan.avail[f][m] = free[f][m]
        BY <1>1, <3>1, <3>2, <4>4, MaxDevicesAssumption, NoneAssumption
        DEF HistoryTrue, QuietIInv, QuietFacts, CountsTrue
      <4> QED
        BY <4>4, <4>5, MaxDevicesAssumption
    <3>3. CASE scan.step = "label"
      <4>1. desired[<<m, f>>] # NoPool /\ desired[<<m, f>>].devices = free[f][m]
        BY <1>1, <3>3 DEF HistoryTrue, QuietIInv, QuietFacts, MachinesTrue, CountedNow
      <4>2. desired[<<m, f>>] \in Pool
        BY <1>1, <3>1, <4>1 DEF QuietIInv, IInv, TypeOK, PoolMap, PoolNames
      <4> QED
        BY <4>1, <4>2, MaxDevicesAssumption DEF Pool
    <3> QED
      BY <2>3, <3>2, <3>3
  <2> QED
    BY <2>4, <2>5 DEF Scannable
<1>2. Inv /\ [QuietNext]_quietVars => [Untouched]_quietVars
  BY <1>1
<1>3. QuietInit => Inv
  BY InitIInv DEF QuietInit, QuietIInv, HistoryTrue, ScanUnambiguous
<1>4. QuietIInv /\ [QuietNext]_quietVars /\ ScanUnambiguous => ScanUnambiguous'
  BY ScanUnambiguousStep
<1>5. QuietInit => ScanUnambiguous
  BY DEF QuietInit, ScanUnambiguous
<1> HIDE DEF Untouched
<1> QED
  BY <1>2, <1>4, <1>5, QuietInvariance, PTL DEF QuietSpec, UnscannableUntouched, Untouched
=============================================================================
