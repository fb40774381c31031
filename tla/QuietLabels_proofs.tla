------------------------- MODULE QuietLabels_proofs -------------------------
(***************************************************************************)
(* The theorem about QuietLabels, for any nodes, provider ids, fabrics,    *)
(* other writers and upsets: one scan on caches that have caught up labels *)
(* every node, and only an upset can take a label away.                    *)
(***************************************************************************)
EXTENDS QuietLabels, NodeCache_proofs

-----------------------------------------------------------------------------
(* The inductive invariant.  Scannable is part of its hypotheses: only an  *)
(* upset can change which provider ids the nodes have.                     *)

(* Only the steps that use them find anything in the locals of a scan. *)
LocalsShape ==
    /\ step # "resolve" => pending = {}
    /\ step \notin {"resolve", "machines"} => uuids = NoUUIDs
    /\ step # "label" => machines = {}

(* Two states of a node that differ in no more than version and labels. *)
Alike(a, b) ==
    /\ a = Absent <=> b = Absent
    /\ a # Absent => a.providerID = b.providerID

CopiesAlike ==
    /\ \A n \in Nodes : Alike(cache[n], nodes[n])
    /\ \A i \in 1 .. Len(news) : Alike(news[i].object, nodes[news[i].node])
    /\ UseCapiBmh => hostCache = hosts

OnFabric(n) == Machine(n) # None /\ fabricOf[Machine(n)] # None
FabricNow(n) == fabricOf[Machine(n)]

(* Nothing a scan has found is wrong, ... *)
FoundTrue ==
    /\ \A n \in Nodes : uuids[n] # None => n \in Existing /\ uuids[n] = Machine(n)
    /\ \A m \in machines : m.node \in Existing /\ OnFabric(m.node) /\ m.fabric = FabricNow(m.node)
    /\ held # None => /\ held.node \in Existing /\ OnFabric(held.node)
                      /\ held.object.fabric = FabricNow(held.node)

(* A node no scan has written to since the caches had caught up. *)
Untouched(n) ==
    cache[n] = nodes[n] /\ \A i \in 1 .. Len(news) : news[i].node # n

(* ... and nothing is missing from what a quiet scan has found: a node is  *)
(* still to be looked up, found, still to be labelled with an update that  *)
(* will be taken, or labelled.                                             *)
FoundAll ==
    /\ step \in {"resolve", "machines"} =>
          /\ news = << >> /\ cache = nodes
          /\ \A n \in Existing : Machine(n) # None =>
                nodes[n].providerID \in pending \/ uuids[n] = Machine(n)
    /\ step = "label" =>
          /\ \A m \in machines : Untouched(m.node)
          /\ held # None => /\ Current
                            /\ \A m \in machines : m.node # held.node
          /\ \A n \in Existing : OnFabric(n) =>
                \/ [node |-> n, fabric |-> FabricNow(n)] \in machines
                \/ held # None /\ held.node = n
                \/ nodes[n].fabric = FabricNow(n)

Steady == (quiet \/ settled) /\ Scannable => Running /\ CopiesAlike /\ FoundTrue
Complete == quiet /\ Scannable => FoundAll

QuietIInv == IInv /\ LocalsShape /\ Steady /\ Complete /\ LabelsSettle

-----------------------------------------------------------------------------
(* Steps that upset nothing. *)

QuietStep == StartInformers \/ DeliverNode \/ DeliverHost \/ LoopStep

LEMMA UpsetOrQuiet ==
  ASSUME IInv, [Next]_vars, upsets' = upsets
  PROVE  QuietStep \/ UNCHANGED vars
<1>1. upsets \in Nat /\ upsets + 1 # upsets
  BY MaxUpsetsAssumption DEF IInv, TypeOK
<1> QED
  BY <1>1 DEF Next, QuietStep, CallFails, Crash, OtherWrites, NodeChanges, FabricChanges, Upset

(* An update that is taken is that of the node it was made for. *)
LEMMA UpdateFacts ==
  ASSUME IInv, UpdateNode
  PROVE  /\ held \in [node : Nodes, object : Object]
         /\ nodes[held.node] # Absent
         /\ held.object.providerID = nodes[held.node].providerID
         /\ nodes' \in [Nodes -> Object \cup {Absent}]
         /\ \A n \in Nodes \ {held.node} : nodes'[n] = nodes[n]
         /\ nodes'[held.node] # Absent
         /\ nodes'[held.node].providerID = held.object.providerID
         /\ nodes'[held.node].fabric = held.object.fabric
         /\ cache' = cache /\ hostCache' = hostCache
         /\ \/ news' = news
            \/ news' = Append(news, [node |-> held.node, object |-> nodes'[held.node]])
<1>1. held \in [node : Nodes, object : Object] /\ held # None
  BY DEF IInv, TypeOK, UpdateNode
<1>2. /\ nodes[held.node] # Absent
      /\ nodes[held.node].version = held.object.version
      /\ held.object.providerID = nodes[held.node].providerID
  BY <1>1 DEF UpdateNode, Current, IInv, HeldTrue
<1>3. nodes \in [Nodes -> Object \cup {Absent}] /\ version \in Nat
  BY DEF IInv, TypeOK
<1>4. CASE nodes[held.node] = held.object
  BY <1>1, <1>2, <1>3, <1>4 DEF UpdateNode, Update, apiServer, informers
<1>5. CASE nodes[held.node] # held.object
  <2> DEFINE new == [held.object EXCEPT !.version = version + 1]
  <2>1. held.object \in Object /\ held.object # Absent
    BY <1>1, AbsentAssumption
  <2>2. /\ new \in Object
        /\ new.providerID = held.object.providerID
        /\ new.fabric = held.object.fabric
    BY <2>1, <1>3 DEF Object
  <2>3. new # Absent
    BY <2>2, AbsentAssumption
  <2>4. step # "down"
    BY <1>1 DEF IInv, HeldTrue
  <2>5. /\ nodes' = [nodes EXCEPT ![held.node] = new]
        /\ news' = Append(news, [node |-> held.node, object |-> new])
        /\ cache' = cache /\ hostCache' = hostCache
    BY <1>5, <2>1, <2>4 DEF UpdateNode, Update, Store
  <2> HIDE DEF new
  <2> QED
    BY <1>1, <1>2, <1>3, <2>2, <2>3, <2>5
<1> QED
  BY <1>4, <1>5

(* Without an upset nodes change in version and labels only. *)
LEMMA WorldSteps ==
  ASSUME IInv, QuietStep
  PROVE  /\ UNCHANGED <<fixed, fabricOf>>
         /\ \A n \in Nodes : Alike(nodes'[n], nodes[n])
<1>1. UNCHANGED <<fixed, fabricOf>>
  BY DEF QuietStep, StartInformers, DeliverNode, DeliverHost, LoopStep, Run, ListProviderIDs,
     FindByProviderID, getMachineList, GetNode, UpdateNode, UpdateConflicts
<1>2. CASE UpdateNode
  BY <1>1, <1>2, UpdateFacts DEF Alike
<1>3. CASE ~UpdateNode
  <2>1. nodes' = nodes
    BY <1>3 DEF QuietStep, StartInformers, DeliverNode, DeliverHost, LoopStep, Run,
       ListProviderIDs, FindByProviderID, getMachineList, GetNode, UpdateConflicts, apiServer
  <2> QED
    BY <1>1, <2>1 DEF Alike
<1> QED
  BY <1>2, <1>3

LEMMA SameMachines ==
  ASSUME UNCHANGED <<fixed, fabricOf>>,
         \A n \in Nodes : Alike(nodes'[n], nodes[n])
  PROVE  /\ Existing' = Existing
         /\ \A n \in Existing : /\ Machine(n)' = Machine(n)
                               /\ OnFabric(n)' = OnFabric(n)
                               /\ FabricNow(n)' = FabricNow(n)
         /\ Scannable' = Scannable
<1>1. Existing' = Existing
  BY DEF Existing, Alike
<1>2. \A n \in Existing : nodes'[n].providerID = nodes[n].providerID
  BY DEF Existing, Alike
<1>3. hosts' = hosts /\ served' = served /\ fabricOf' = fabricOf
  BY DEF fixed
<1>4. \A n \in Existing : Machine(n)' = Machine(n)
  BY <1>2, <1>3 DEF Machine
<1>5. \A n \in Existing : OnFabric(n)' = OnFabric(n) /\ FabricNow(n)' = FabricNow(n)
  BY <1>3, <1>4 DEF OnFabric, FabricNow
<1>6. Scannable' = Scannable
  BY <1>1, <1>2, <1>3 DEF Scannable
<1> QED
  BY <1>1, <1>4, <1>5, <1>6

-----------------------------------------------------------------------------
(* What each of these steps keeps, when nothing a scan has found is wrong. *)

StepKeeps ==
    /\ Running' /\ CopiesAlike' /\ FoundTrue'
    /\ (step = "idle" => CaughtUp) /\ FoundAll => FoundAll'
    /\ FoundAll /\ ScanEndsNow => AllLabelled'
    /\ AllLabelled => AllLabelled'

SteadyNow == IInv /\ LocalsShape /\ Scannable /\ Running /\ CopiesAlike /\ FoundTrue

LEMMA NotStarting ==
  ASSUME SteadyNow, StartInformers \/ Run \/ DeliverHost
  PROVE  FALSE
BY DEF SteadyNow, Running, StartInformers, Run, DeliverHost, CopiesAlike

LEMMA DeliverNodeKeeps == ASSUME SteadyNow, DeliverNode PROVE StepKeeps
<1>1. /\ news \in Seq(Copies) /\ news # << >>
      /\ cache \in [Nodes -> Object \cup {Absent}]
  BY DEF SteadyNow, IInv, TypeOK, DeliverNode
<1>2. /\ Head(news) = news[1] /\ Head(news) \in Copies
      /\ 1 \in 1 .. Len(news)
      /\ \A i \in 1 .. Len(Tail(news)) : i + 1 \in 1 .. Len(news) /\ Tail(news)[i] = news[i + 1]
  BY <1>1, HeadTail
<1>3. /\ cache' = [cache EXCEPT ![news[1].node] = news[1].object]
      /\ news' = Tail(news)
      /\ UNCHANGED <<nodes, hosts, served, fabricOf, hostCache>>
      /\ UNCHANGED <<step, pending, uuids, machines, held>>
  BY <1>2 DEF DeliverNode, apiServer, fixed, scan
<1>4. /\ Existing' = Existing
      /\ \A n \in Nodes : /\ Machine(n)' = Machine(n)
                           /\ OnFabric(n)' = OnFabric(n)
                           /\ FabricNow(n)' = FabricNow(n)
  BY <1>3 DEF Existing, Machine, OnFabric, FabricNow
<1>5. CopiesAlike'
  <2>1. ASSUME NEW n \in Nodes PROVE Alike(cache'[n], nodes'[n])
    BY <1>1, <1>2, <1>3 DEF SteadyNow, CopiesAlike
  <2>2. ASSUME NEW i \in 1 .. Len(news') PROVE Alike(news'[i].object, nodes'[news'[i].node])
    BY <1>2, <1>3 DEF SteadyNow, CopiesAlike
  <2> QED
    BY <1>3, <2>1, <2>2 DEF SteadyNow, CopiesAlike
<1>6. Running' /\ FoundTrue'
  <2>1. held # None => held.node \in Nodes
    BY DEF SteadyNow, IInv, TypeOK
  <2>2. \A m \in machines : m.node \in Nodes
    BY DEF SteadyNow, IInv, TypeOK
  <2> QED
    BY <1>3, <1>4, <2>1, <2>2 DEF SteadyNow, Running, FoundTrue
<1>7. ASSUME FoundAll PROVE FoundAll'
  <2>1. step \notin {"resolve", "machines"}
    BY <1>1, <1>7 DEF FoundAll
  <2>2. CASE step # "label"
    BY <1>3, <2>1, <2>2 DEF FoundAll
  <2>3. CASE step = "label"
    <3>1. ASSUME NEW m \in machines PROVE Untouched(m.node)'
      <4>1. Untouched(m.node) /\ m.node \in Nodes
        BY <1>7, <2>3 DEF FoundAll, SteadyNow, IInv, TypeOK
      <4>2. news[1].node # m.node
        BY <1>2, <4>1 DEF Untouched
      <4> QED
        BY <1>1, <1>2, <1>3, <4>1, <4>2 DEF Untouched
    <3>2. Current' = Current
      BY <1>3 DEF Current
    <3> QED
      BY <1>3, <1>4, <1>7, <2>3, <3>1, <3>2 DEF FoundAll, Existing
  <2> QED
    BY <2>2, <2>3
<1>8. /\ ~ScanEndsNow
      /\ AllLabelled => AllLabelled'
  BY <1>3, <1>4 DEF ScanEndsNow, AllLabelled, Existing
<1> QED
  BY <1>5, <1>6, <1>7, <1>8 DEF StepKeeps

(* A step that only reads leaves all but the locals of the scan. *)
LEMMA ReadKeeps ==
  ASSUME SteadyNow, UNCHANGED <<apiServer, fixed, fabricOf, informers>>
  PROVE  /\ UNCHANGED <<nodes, cache, news, hostCache>>
         /\ Existing' = Existing
         /\ \A n \in Nodes : /\ Machine(n)' = Machine(n)
                              /\ OnFabric(n)' = OnFabric(n)
                              /\ FabricNow(n)' = FabricNow(n)
         /\ CopiesAlike'
         /\ AllLabelled' = AllLabelled
<1>1. UNCHANGED <<nodes, cache, news, hostCache, hosts, served, fabricOf>>
  BY DEF apiServer, fixed, informers
<1>2. /\ Existing' = Existing
      /\ \A n \in Nodes : /\ Machine(n)' = Machine(n)
                           /\ OnFabric(n)' = OnFabric(n)
                           /\ FabricNow(n)' = FabricNow(n)
  BY <1>1 DEF Existing, Machine, OnFabric, FabricNow
<1>3. CopiesAlike'
  BY <1>1 DEF SteadyNow, CopiesAlike
<1>4. AllLabelled' = AllLabelled
  BY <1>1, <1>2 DEF AllLabelled, Existing, FabricNow
<1> QED
  BY <1>1, <1>2, <1>3, <1>4

(* A scan that starts on caches that have caught up will look up every     *)
(* node that has a provider id.                                            *)
LEMMA ListProviderIDsKeeps == ASSUME SteadyNow, ListProviderIDs PROVE StepKeeps
<1>1. UNCHANGED <<apiServer, fixed, fabricOf, informers>>
  BY DEF ListProviderIDs
<1>2. /\ step = "idle" /\ step' \in {"idle", "resolve"}
      /\ pending' = {cache[n].providerID : n \in {m \in Nodes : cache[m] # Absent}} \ {None}
      /\ UNCHANGED <<uuids, machines, held>>
  BY DEF ListProviderIDs
<1>3. Running' /\ FoundTrue'
  <2>1. /\ held # None => held.node \in Nodes
        /\ \A m \in machines : m.node \in Nodes
    BY DEF SteadyNow, IInv, TypeOK
  <2> QED
    BY <1>1, <1>2, <2>1, ReadKeeps DEF SteadyNow, Running, FoundTrue
<1>4. ASSUME CaughtUp PROVE FoundAll'
  <2>1. \A n \in Existing : Machine(n) # None => nodes[n].providerID \in pending'
    <3>1. ASSUME NEW n \in Existing, Machine(n) # None
          PROVE  nodes[n].providerID \in pending'
      <4>1. nodes[n].providerID # None
        <5>1. hosts \in SUBSET ProviderIDs
          BY DEF SteadyNow, IInv, TypeOK
        <5> QED
          BY <3>1, <5>1, NoneAssumption DEF Machine
      <4> QED
        BY <1>2, <1>4, <4>1 DEF CaughtUp, Existing
    <3> QED
      BY <3>1
  <2> QED
    BY <1>1, <1>2, <1>4, <2>1, ReadKeeps DEF FoundAll, CaughtUp, Existing
<1>5. ~ScanEndsNow
  BY <1>2 DEF ScanEndsNow
<1> QED
  BY <1>1, <1>2, <1>3, <1>4, <1>5, ReadKeeps DEF StepKeeps

(* A conflict abandons the scan; a quiet scan has none. *)
LEMMA UpdateConflictsKeeps == ASSUME SteadyNow, UpdateConflicts PROVE StepKeeps
<1>1. UNCHANGED <<apiServer, fixed, fabricOf, informers>>
  BY DEF UpdateConflicts
<1>2. /\ held # None /\ ~Current
      /\ step' = "idle" /\ uuids' = NoUUIDs /\ machines' = {} /\ held' = None
  BY DEF UpdateConflicts, Locals
<1>3. Running' /\ FoundTrue'
  BY <1>2 DEF Running, FoundTrue, NoUUIDs
<1>4. ~FoundAll
  BY <1>2 DEF FoundAll, SteadyNow, IInv, HeldTrue
<1> QED
  BY <1>1, <1>3, <1>4, ReadKeeps DEF StepKeeps

(* The machine list is that of the fabrics as they are. *)
LEMMA GetMachineListKeeps == ASSUME SteadyNow, getMachineList PROVE StepKeeps
<1>1. UNCHANGED <<apiServer, fixed, fabricOf, informers>>
  BY DEF getMachineList
<1>2. /\ step = "machines" /\ pending = {}
      /\ machines' = MachinesOf
      /\ step' = IF machines' = {} THEN "idle" ELSE "label"
      /\ uuids' = NoUUIDs
      /\ held' = held /\ held = None
  BY DEF getMachineList, SteadyNow, LocalsShape, IInv, HeldTrue
<1>3. \A m \in MachinesOf : /\ m.node \in Existing /\ OnFabric(m.node)
                            /\ m.fabric = FabricNow(m.node)
  BY DEF MachinesOf, SteadyNow, FoundTrue, OnFabric, FabricNow
<1>4. Running' /\ FoundTrue'
  <2>1. Running'
    BY <1>2 DEF Running
  <2>2. \A m \in machines' : m.node \in Nodes
    BY <1>2 DEF MachinesOf
  <2> QED
    BY <1>1, <1>2, <1>3, <2>1, <2>2, ReadKeeps DEF FoundTrue, NoUUIDs
<1>5. ASSUME FoundAll
      PROVE  \A n \in Existing : OnFabric(n) =>
                [node |-> n, fabric |-> FabricNow(n)] \in MachinesOf
  <2>1. ASSUME NEW n \in Existing, OnFabric(n)
        PROVE  [node |-> n, fabric |-> FabricNow(n)] \in MachinesOf
    <3>1. uuids[n] = Machine(n) /\ n \in Nodes
      BY <1>2, <1>5, <2>1 DEF FoundAll, OnFabric, Existing
    <3> QED
      BY <2>1, <3>1 DEF MachinesOf, OnFabric, FabricNow
  <2> QED
    BY <2>1
<1>6. ASSUME FoundAll PROVE FoundAll'
  <2>1. news = << >> /\ cache = nodes
    BY <1>2, <1>6 DEF FoundAll
  <2>2. \A n \in Nodes : Untouched(n)'
    BY <1>1, <2>1, ReadKeeps DEF Untouched
  <2>3. \A m \in machines' : m.node \in Nodes
    BY <1>2 DEF MachinesOf
  <2>4. \A n \in Existing : n \in Nodes
    BY DEF Existing
  <2> QED
    BY <1>1, <1>2, <1>5, <1>6, <2>2, <2>3, <2>4, ReadKeeps DEF FoundAll
<1>7. ASSUME FoundAll, ScanEndsNow PROVE AllLabelled'
  <2>1. MachinesOf = {}
    BY <1>2, <1>7 DEF ScanEndsNow
  <2>2. \A n \in Existing : ~OnFabric(n)
    BY <1>5, <1>7, <2>1
  <2>3. AllLabelled
    BY <2>2 DEF AllLabelled, OnFabric
  <2> QED
    BY <1>1, <2>3, ReadKeeps
<1> QED
  BY <1>1, <1>4, <1>6, <1>7, ReadKeeps DEF StepKeeps

(* The lookup of a provider id finds its node, and the host if there is    *)
(* one; a scan that found none of all it had to look up is over.           *)
LEMMA FindKeeps ==
  ASSUME SteadyNow, NEW p \in ProviderIDs, FindByProviderID(p)
  PROVE  StepKeeps
<1>1. step = "resolve" /\ p \in pending /\ p # None
  BY NoneAssumption DEF FindByProviderID
<1>2. \A n \in Nodes : n \in NodesOf(p) <=> n \in Existing /\ nodes[n].providerID = p
  BY DEF SteadyNow, CopiesAlike, Alike, NodesOf, Existing
<1>3. \A n, m \in NodesOf(p) : n = m
  <2>1. ASSUME NEW n \in NodesOf(p), NEW m \in NodesOf(p) PROVE n = m
    <3>1. n \in Nodes /\ m \in Nodes
      BY DEF NodesOf
    <3> QED
      BY <1>1, <1>2, <3>1 DEF SteadyNow, Scannable
  <2> QED
    BY <2>1
<1>4. UseCapiBmh => served
  BY DEF SteadyNow, Scannable
<1>5. UNCHANGED <<apiServer, fixed, fabricOf, informers>>
  BY <1>3, <1>4 DEF FindByProviderID
<1>6. PICK found :
        /\ Resolved(p, found)
        /\ \A n \in Nodes : \/ found[n] = uuids[n]
                            \/ n \in NodesOf(p) /\ found[n] = p /\ found[n] = Machine(n)
        /\ \A n \in NodesOf(p) : Machine(n) # None => found[n] = Machine(n)
        /\ found \in [Nodes -> ProviderIDs \cup {None}]
  <2>1. uuids \in [Nodes -> ProviderIDs \cup {None}]
    BY DEF SteadyNow, IInv, TypeOK
  <2>2. CASE NodesOf(p) = {} /\ Resolved(p, uuids)
    BY <2>1, <2>2
  <2>3. ASSUME NEW n \in Nodes, NodesOf(p) = {n},
               Resolved(p, IF UseCapiBmh /\ p \notin hostCache THEN uuids
                           ELSE [uuids EXCEPT ![n] = p])
        PROVE  \E found :
                 /\ Resolved(p, found)
                 /\ \A k \in Nodes :
                       \/ found[k] = uuids[k]
                       \/ k \in NodesOf(p) /\ found[k] = p /\ found[k] = Machine(k)
                 /\ \A k \in NodesOf(p) : Machine(k) # None => found[k] = Machine(k)
                 /\ found \in [Nodes -> ProviderIDs \cup {None}]
    <3>1. n \in Existing /\ nodes[n].providerID = p
      BY <1>2, <2>3
    <3>2. UseCapiBmh => hostCache = hosts
      BY DEF SteadyNow, CopiesAlike
    <3>3. CASE UseCapiBmh /\ p \notin hostCache
      <4>1. Machine(n) = None
        BY <3>1, <3>2, <3>3 DEF Machine
      <4> QED
        BY <2>1, <2>3, <3>3, <4>1
    <3>4. CASE ~(UseCapiBmh /\ p \notin hostCache)
      <4>1. Machine(n) = p
        BY <3>1, <3>2, <3>4 DEF Machine
      <4> DEFINE found == [uuids EXCEPT ![n] = p]
      <4>2. /\ found \in [Nodes -> ProviderIDs \cup {None}]
            /\ found[n] = p
            /\ \A k \in Nodes \ {n} : found[k] = uuids[k]
        BY <2>1
      <4>3. Resolved(p, found)
        BY <2>3, <3>4
      <4> HIDE DEF found
      <4> QED
        BY <2>3, <4>1, <4>2, <4>3
    <3> QED
      BY <3>3, <3>4
  <2> QED
    BY <1>3, <1>4, <2>2, <2>3 DEF FindByProviderID
<1>7. /\ pending' = pending \ {p}
      /\ uuids' = found
      /\ step' = IF pending' # {} THEN "resolve"
                 ELSE IF found = NoUUIDs THEN "idle" ELSE "machines"
      /\ machines' = machines /\ held' = held /\ machines = {} /\ held = None
  BY <1>1, <1>6 DEF Resolved, SteadyNow, LocalsShape, IInv, HeldTrue
<1>8. Running' /\ FoundTrue'
  <2>1. \A n \in Nodes : found[n] # None => n \in Existing /\ found[n] = Machine(n)
    BY <1>2, <1>6 DEF SteadyNow, FoundTrue
  <2> QED
    BY <1>5, <1>7, <2>1, ReadKeeps DEF Running, FoundTrue
<1>9. ASSUME FoundAll
      PROVE  /\ news = << >> /\ cache = nodes
             /\ \A n \in Existing : Machine(n) # None =>
                   nodes[n].providerID \in pending \ {p} \/ found[n] = Machine(n)
  <2>1. ASSUME NEW n \in Existing, Machine(n) # None
        PROVE  nodes[n].providerID \in pending \ {p} \/ found[n] = Machine(n)
    <3>1. n \in Nodes
      BY DEF Existing
    <3>2. CASE n \in NodesOf(p)
      BY <1>6, <2>1, <3>2
    <3>3. CASE n \notin NodesOf(p)
      BY <1>1, <1>2, <1>6, <1>9, <2>1, <3>1, <3>3 DEF FoundAll
    <3> QED
      BY <3>2, <3>3
  <2> QED
    BY <1>1, <1>9, <2>1 DEF FoundAll
<1>10. ASSUME FoundAll PROVE FoundAll'
  <2>1. \A n \in Existing : n \in Nodes
    BY DEF Existing
  <2> QED
    BY <1>5, <1>7, <1>9, <1>10, <2>1, ReadKeeps DEF FoundAll
<1>11. ASSUME FoundAll, ScanEndsNow PROVE AllLabelled'
  <2>1. pending \ {p} = {} /\ found = NoUUIDs
    BY <1>7, <1>11 DEF ScanEndsNow
  <2>2. \A n \in Existing : Machine(n) = None
    BY <1>9, <1>11, <2>1 DEF NoUUIDs, Existing
  <2>3. AllLabelled
    BY <2>2 DEF AllLabelled
  <2> QED
    BY <1>5, <2>3, ReadKeeps
<1> QED
  BY <1>1, <1>5, <1>8, <1>10, <1>11, ReadKeeps DEF StepKeeps

(* The copy of a node that is got is of a node that is there; in a quiet   *)
(* scan it is the node.                                                    *)
LEMMA GetNodeKeeps ==
  ASSUME SteadyNow, NEW m \in machines, GetNode(m)
  PROVE  StepKeeps
<1>1. UNCHANGED <<apiServer, fixed, fabricOf, informers>>
  BY DEF GetNode
<1>2. /\ m.node \in Existing /\ OnFabric(m.node) /\ m.fabric = FabricNow(m.node)
      /\ m.node \in Nodes /\ m \in [node : Nodes, fabric : Fabrics]
  BY DEF SteadyNow, FoundTrue, IInv, TypeOK
<1>3. cache[m.node] \in Object /\ cache[m.node] # Absent
  BY <1>2 DEF SteadyNow, CopiesAlike, Alike, Existing, IInv, TypeOK
<1> DEFINE object == [cache[m.node] EXCEPT !.fabric = m.fabric]
           got == [node |-> m.node, object |-> object]
<1>4. /\ object.fabric = m.fabric
      /\ object.version = cache[m.node].version
  BY <1>3 DEF Object
<1>5. got # None
  <2>1. got \in [node : Nodes, object : Object]
    BY <1>2, <1>3 DEF Object
  <2> QED
    BY <2>1, AbsentAssumption
<1>6. /\ step = "label" /\ held' = got
      /\ machines' = machines \ {m}
      /\ UNCHANGED <<step, pending, uuids>>
  BY <1>3 DEF GetNode
<1>7. held'.node = m.node /\ held'.object = object
  BY <1>6
<1> HIDE DEF object, got
<1>8. Running' /\ FoundTrue'
  <2>1. \A k \in machines : k.node \in Nodes
    BY DEF SteadyNow, IInv, TypeOK
  <2> QED
    BY <1>1, <1>2, <1>4, <1>6, <1>7, <2>1, ReadKeeps DEF SteadyNow, Running, FoundTrue
<1>9. ASSUME FoundAll PROVE FoundAll'
  <2>1. \A k \in machines : Untouched(k.node)
    BY <1>6, <1>9 DEF FoundAll
  <2>2. \A k \in machines' : Untouched(k.node)'
    BY <1>1, <1>6, <2>1, ReadKeeps DEF Untouched
  <2>3. Current'
    BY <1>1, <1>2, <1>4, <1>7, <2>1, ReadKeeps DEF Current, Untouched, Existing
  <2>4. \A k \in machines' : k.node # held'.node
    <3>1. ASSUME NEW k \in machines, k.node = m.node PROVE k = m
      <4>1. k.fabric = m.fabric
        BY <1>2, <3>1 DEF SteadyNow, FoundTrue
      <4>2. k \in [node : Nodes, fabric : Fabrics]
        BY DEF SteadyNow, IInv, TypeOK
      <4> QED
        BY <1>2, <3>1, <4>1, <4>2
    <3> QED
      BY <1>6, <1>7, <3>1
  <2>5. ASSUME NEW n \in Existing, OnFabric(n)
        PROVE  \/ [node |-> n, fabric |-> FabricNow(n)] \in machines'
               \/ held'.node = n
               \/ nodes[n].fabric = FabricNow(n)
    <3>1. CASE [node |-> n, fabric |-> FabricNow(n)] = m
      BY <1>7, <3>1
    <3>2. CASE [node |-> n, fabric |-> FabricNow(n)] # m
      BY <1>6, <1>9, <2>5, <3>2 DEF FoundAll, GetNode
    <3> QED
      BY <3>1, <3>2
  <2>6. \A n \in Existing : n \in Nodes
    BY DEF Existing
  <2> QED
    BY <1>1, <1>5, <1>6, <2>2, <2>3, <2>4, <2>5, <2>6, ReadKeeps DEF FoundAll
<1>10. ~ScanEndsNow
  BY <1>6 DEF ScanEndsNow
<1> QED
  BY <1>1, <1>6, <1>8, <1>9, <1>10, ReadKeeps DEF StepKeeps

(* An update that is taken puts the right label on its node and touches no *)
(* other; the last one ends a scan that has found every node.              *)
LEMMA UpdateNodeKeeps == ASSUME SteadyNow, UpdateNode PROVE StepKeeps
<1> USE DEF SteadyNow
<1>1. /\ held \in [node : Nodes, object : Object] /\ held # None
      /\ held.node \in Existing /\ OnFabric(held.node)
      /\ held.object.fabric = FabricNow(held.node)
      /\ step = "label" /\ uuids = NoUUIDs
  BY UpdateFacts DEF FoundTrue, UpdateNode, IInv, HeldTrue, LocalsShape
<1>2. /\ \A n \in Nodes \ {held.node} : nodes'[n] = nodes[n]
      /\ nodes'[held.node].fabric = held.object.fabric
      /\ cache' = cache /\ hostCache' = hostCache
      /\ \/ news' = news
         \/ news' = Append(news, [node |-> held.node, object |-> nodes'[held.node]])
      /\ nodes' \in [Nodes -> Object \cup {Absent}]
  BY UpdateFacts
<1>3. /\ machines' = machines /\ held' = None
      /\ step' = IF machines = {} THEN "idle" ELSE "label"
      /\ uuids' = uuids
  BY DEF UpdateNode, Labelled
<1>4. UNCHANGED <<fixed, fabricOf>> /\ \A n \in Nodes : Alike(nodes'[n], nodes[n])
  BY WorldSteps DEF QuietStep, LoopStep
<1>5. /\ Existing' = Existing
      /\ \A n \in Existing : /\ Machine(n)' = Machine(n)
                            /\ OnFabric(n)' = OnFabric(n)
                            /\ FabricNow(n)' = FabricNow(n)
      /\ \A n \in Existing : n \in Nodes
  BY <1>4, SameMachines DEF Existing
<1>6. /\ news \in Seq(Copies) /\ news' \in Seq(Copies)
      /\ Len(news) \in Nat /\ Len(news') \in Nat
      /\ \A i \in 1 .. Len(news) : news[i].node \in Nodes
      /\ \A i \in 1 .. Len(news') :
            \/ i \in 1 .. Len(news) /\ news'[i] = news[i]
            \/ news'[i] = [node |-> held.node, object |-> nodes'[held.node]]
  <2>1. news \in Seq(Copies)
    BY DEF IInv, TypeOK
  <2>2. \A c \in Copies : c.node \in Nodes
    BY DEF Copies
  <2>3. \A i \in 1 .. Len(news) : news[i].node \in Nodes
    BY <2>1, <2>2
  <2> DEFINE e == [node |-> held.node, object |-> nodes'[held.node]]
  <2>4. e \in Copies
    BY <1>1, <1>2 DEF Copies
  <2> HIDE DEF e
  <2>5. news' = news \/ news' = Append(news, e)
    BY <1>2 DEF e
  <2>6. /\ news' \in Seq(Copies) /\ Len(news) \in Nat /\ Len(news') \in Nat
        /\ \A i \in 1 .. Len(news') :
              \/ i \in 1 .. Len(news) /\ news'[i] = news[i]
              \/ news'[i] = e
    <3>1. CASE news' = news
      BY <2>1, <3>1
    <3>2. CASE news' = Append(news, e)
      BY <2>1, <2>4, <3>2, Appended
    <3> QED
      BY <2>5, <3>1, <3>2
  <2> QED
    BY <2>1, <2>3, <2>6 DEF e
<1>7. CopiesAlike'
  <2>1. ASSUME NEW n \in Nodes PROVE Alike(cache'[n], nodes'[n])
    BY <1>2, <1>4 DEF CopiesAlike, Alike
  <2>2. ASSUME NEW i \in 1 .. Len(news')
        PROVE  Alike(news'[i].object, nodes'[news'[i].node])
    <3>1. CASE i \in 1 .. Len(news) /\ news'[i] = news[i]
      BY <1>4, <1>6, <3>1 DEF CopiesAlike, Alike
    <3>2. CASE news'[i] = [node |-> held.node, object |-> nodes'[held.node]]
      BY <3>2 DEF Alike
    <3> QED
      BY <1>6, <2>2, <3>1, <3>2
  <2>3. UseCapiBmh => hostCache' = hosts'
    BY <1>2, <1>4 DEF CopiesAlike, fixed
  <2> QED
    BY <2>1, <2>2, <2>3 DEF CopiesAlike
<1>8. Running' /\ FoundTrue'
  <2>1. Running'
    BY <1>3 DEF Running
  <2>2. \A n \in Nodes : uuids'[n] = None
    BY <1>1, <1>3 DEF NoUUIDs
  <2> QED
    BY <1>3, <1>5, <2>1, <2>2 DEF FoundTrue
<1>9. ASSUME FoundAll PROVE FoundAll'
  <2>1. \A m \in machines : /\ Untouched(m.node) /\ m.node # held.node
                            /\ m.node \in Nodes
    BY <1>1, <1>9 DEF FoundAll, IInv, TypeOK
  <2>2. ASSUME NEW m \in machines PROVE Untouched(m.node)'
    <3>1. cache'[m.node] = nodes'[m.node]
      BY <1>2, <2>1 DEF Untouched
    <3>2. \A i \in 1 .. Len(news') : news'[i].node # m.node
      BY <1>6, <2>1 DEF Untouched
    <3> QED
      BY <3>1, <3>2 DEF Untouched
  <2>3. ASSUME NEW n \in Existing, OnFabric(n)
        PROVE  [node |-> n, fabric |-> FabricNow(n)] \in machines \/ nodes'[n].fabric = FabricNow(n)
    BY <1>1, <1>2, <1>5, <1>9, <2>3 DEF FoundAll
  <2> QED
    BY <1>3, <1>5, <2>2, <2>3 DEF FoundAll
<1>10. ASSUME FoundAll, ScanEndsNow PROVE AllLabelled'
  <2>1. machines = {}
    BY <1>3, <1>10 DEF ScanEndsNow
  <2>2. \A n \in Existing : OnFabric(n) => nodes'[n].fabric = FabricNow(n)
    BY <1>1, <1>2, <1>5, <1>10, <2>1 DEF FoundAll
  <2> QED
    BY <1>5, <2>2 DEF AllLabelled, OnFabric, FabricNow
<1>11. ASSUME AllLabelled PROVE AllLabelled'
  <2>1. \A n \in Existing : OnFabric(n) => nodes'[n].fabric = FabricNow(n)
    BY <1>1, <1>2, <1>5, <1>11 DEF AllLabelled, OnFabric, FabricNow
  <2> QED
    BY <1>5, <2>1 DEF AllLabelled, OnFabric, FabricNow
<1>12. step # "idle"
  BY <1>1
<1> QED
  BY <1>7, <1>8, <1>9, <1>10, <1>11, <1>12 DEF StepKeeps

LEMMA StutterKeeps == ASSUME SteadyNow, UNCHANGED vars PROVE StepKeeps
<1>1. /\ UNCHANGED <<apiServer, fixed, fabricOf, informers>>
      /\ UNCHANGED <<step, pending, uuids, machines, held>>
  BY DEF vars, scan
<1>2. Running' /\ FoundTrue'
  <2>1. /\ held # None => held.node \in Nodes
        /\ \A m \in machines : m.node \in Nodes
    BY DEF SteadyNow, IInv, TypeOK
  <2> QED
    BY <1>1, <2>1, ReadKeeps DEF SteadyNow, Running, FoundTrue
<1>3. ASSUME FoundAll PROVE FoundAll'
  <2>1. \A n \in Existing : n \in Nodes
    BY DEF Existing
  <2>2. \A n \in Nodes : Untouched(n)' <=> Untouched(n)
    BY <1>1, ReadKeeps DEF Untouched
  <2>3. Current' <=> Current
    BY <1>1, ReadKeeps DEF Current
  <2>4. \A m \in machines : m.node \in Nodes
    BY DEF SteadyNow, IInv, TypeOK
  <2> QED
    BY <1>1, <1>3, <2>1, <2>2, <2>3, <2>4, ReadKeeps DEF FoundAll
<1>4. ~ScanEndsNow
  BY <1>1 DEF ScanEndsNow
<1> QED
  BY <1>1, <1>2, <1>3, <1>4, ReadKeeps DEF StepKeeps

LEMMA QuietKeeps ==
  ASSUME SteadyNow, QuietStep \/ UNCHANGED vars
  PROVE  StepKeeps
BY NotStarting, DeliverNodeKeeps, ListProviderIDsKeeps, FindKeeps, GetMachineListKeeps,
   GetNodeKeeps, UpdateNodeKeeps, UpdateConflictsKeeps, StutterKeeps DEF QuietStep, LoopStep

LEMMA SameScannable ==
  ASSUME IInv, QuietStep \/ UNCHANGED vars
  PROVE  Scannable' = Scannable
<1>1. CASE UNCHANGED vars
  BY <1>1, SameMachines DEF vars, apiServer, Alike
<1> QED
  BY <1>1, WorldSteps, SameMachines

-----------------------------------------------------------------------------
(* The inductive invariant is kept. *)

LEMMA LocalsShapeStep ==
  ASSUME IInv, LocalsShape, [Next]_vars
  PROVE  LocalsShape'
<1>1. ASSUME NEW s, Locals(s) PROVE LocalsShape'
  BY <1>1 DEF Locals, LocalsShape
<1>2. CASE UNCHANGED <<step, pending, uuids, machines>>
  BY <1>2 DEF LocalsShape
<1>3. CASE ListProviderIDs
  BY <1>3 DEF ListProviderIDs, LocalsShape
<1>4. ASSUME NEW p \in ProviderIDs, FindByProviderID(p) PROVE LocalsShape'
  <2>1. CASE step = "resolve" /\ \E found : Resolved(p, found)
    BY <2>1 DEF Resolved, LocalsShape
  <2> QED
    BY <1>1, <1>4, <2>1 DEF FindByProviderID, Crashed
<1>5. CASE getMachineList
  BY <1>5 DEF getMachineList, LocalsShape
<1>6. ASSUME NEW m \in machines, GetNode(m) PROVE LocalsShape'
  BY <1>6 DEF GetNode, Labelled, LocalsShape
<1>7. CASE UpdateNode
  BY <1>7 DEF UpdateNode, Labelled, LocalsShape, IInv, HeldTrue
<1> QED
  BY <1>1, <1>2, <1>3, <1>4, <1>5, <1>6, <1>7
     DEF Next, LoopStep, StartInformers, DeliverNode, DeliverHost, Run, UpdateConflicts, CallFails,
         Crash, Crashed, OtherWrites, NodeChanges, FabricChanges, vars, scan

(* Caches that have caught up are like the nodes, and between scans there  *)
(* is nothing found to be wrong.                                           *)
LEMMA CaughtUpSteady ==
  ASSUME IInv, LocalsShape, step = "idle", CaughtUp
  PROVE  Running /\ CopiesAlike /\ FoundTrue /\ FoundAll
<1>1. uuids = NoUUIDs /\ machines = {} /\ held = None
  BY DEF LocalsShape, IInv, HeldTrue
<1>2. CopiesAlike
  BY DEF CaughtUp, CopiesAlike, Alike
<1> QED
  BY <1>1, <1>2 DEF Running, FoundTrue, FoundAll, NoUUIDs

LEMMA QuietStepInv == QuietIInv /\ [QuietNext]_quietVars => QuietIInv'
<1> SUFFICES ASSUME QuietIInv, [QuietNext]_quietVars PROVE QuietIInv'
  OBVIOUS
<1> USE DEF QuietIInv
<1>1. [Next]_vars /\ (History \/ UNCHANGED quietVars)
  BY DEF QuietNext, quietVars, Next, LoopStep
<1>2. IInv' /\ LocalsShape'
  BY <1>1, NextIInv, LocalsShapeStep
<1>3. CASE ~quiet' /\ ~settled'
  BY <1>2, <1>3 DEF Steady, Complete, LabelsSettle
<1>4. CASE (quiet' \/ settled') /\ ~Scannable'
  BY <1>2, <1>4 DEF Steady, Complete, LabelsSettle
<1>5. CASE (quiet' \/ settled') /\ Scannable'
  <2>1. /\ QuietStep \/ UNCHANGED vars
        /\ quiet' => quiet \/ (step = "idle" /\ CaughtUp)
        /\ quiet' /\ step = "idle" /\ step' # "idle" => CaughtUp
        /\ settled' => settled \/ (quiet /\ ScanEndsNow)
    <3>1. CASE UNCHANGED quietVars
      BY <3>1 DEF quietVars, vars, scan
    <3>2. CASE History
      <4>1. upsets' = upsets
        BY <1>5, <3>2 DEF History
      <4>2. QuietStep \/ UNCHANGED vars
        BY <1>1, <4>1, UpsetOrQuiet
      <4> QED
        BY <4>2, <3>2 DEF History
    <3> QED
      BY <1>1, <3>1, <3>2
  <2>2. Scannable
    BY <1>5, <2>1, SameScannable
  <2>3. SteadyNow
    BY <1>5, <2>1, <2>2, CaughtUpSteady DEF Steady, SteadyNow
  <2>4. StepKeeps
    BY <2>1, <2>3, QuietKeeps
  <2>5. Steady'
    BY <2>4 DEF StepKeeps, Steady
  <2>6. Complete'
    <3> SUFFICES ASSUME quiet' PROVE FoundAll'
      BY DEF Complete
    <3>1. CASE step = "idle" /\ step' = "idle"
      BY <3>1 DEF FoundAll
    <3>2. CASE step = "idle" /\ step' # "idle"
      BY <1>2, <2>1, <2>4, <3>2, CaughtUpSteady DEF StepKeeps
    <3>3. CASE step # "idle"
      BY <2>1, <2>2, <2>4, <3>3 DEF StepKeeps, Complete
    <3> QED
      BY <3>1, <3>2, <3>3
  <2>7. LabelsSettle'
    <3> SUFFICES ASSUME settled' PROVE AllLabelled'
      BY DEF LabelsSettle
    <3>1. CASE settled
      BY <2>2, <2>4, <3>1 DEF LabelsSettle, StepKeeps
    <3>2. CASE quiet /\ ScanEndsNow
      BY <2>2, <2>4, <3>2 DEF Complete, StepKeeps
    <3> QED
      BY <2>1, <3>1, <3>2
  <2> QED
    BY <1>2, <2>5, <2>6, <2>7
<1> QED
  BY <1>3, <1>4, <1>5

LEMMA QuietInvariance == QuietSpec => []QuietIInv
<1>1. QuietInit => QuietIInv
  <2> SUFFICES ASSUME QuietInit PROVE QuietIInv
    OBVIOUS
  <2>1. IInv /\ ~quiet /\ ~settled
    BY InitIInv DEF QuietInit
  <2>2. LocalsShape
    BY DEF QuietInit, Init, LocalsShape
  <2> QED
    BY <2>1, <2>2 DEF QuietIInv, Steady, Complete, LabelsSettle
<1>2. QuietIInv /\ [QuietNext]_quietVars => QuietIInv'
  BY QuietStepInv
<1> QED
  BY <1>1, <1>2, PTL DEF QuietSpec

-----------------------------------------------------------------------------
(* A scan that begins on caches that have caught up and that nothing comes *)
(* between leaves every node on a fabric with the label of that fabric;    *)
(* the scans that follow on caches that lag behind, the conflicts they     *)
(* meet and the old nodes they write back take none away                   *)
(* (getMachineUUIDs, manageCDINodeLabel, FindNodeNameByProviderID).        *)
THEOREM OneScanLabels == QuietSpec => []LabelsSettle
<1>1. QuietIInv => LabelsSettle
  BY DEF QuietIInv
<1> QED
  BY <1>1, QuietInvariance, PTL
=============================================================================
