----------------------------- MODULE NodeCache -----------------------------
(***************************************************************************)
(* The informers' caches between the driver and the API server             *)
(* (pkg/kube_utils/kube_utils.go): how they are filled at the start, how   *)
(* they lag behind, and what a scan does that looks nodes up in them and   *)
(* writes labels back (getMachineUUIDs and manageCDINodeLabel in           *)
(* pkg/manager/manager.go), while others write to the same nodes, nodes    *)
(* are replaced, and the process crashes and is restarted.                 *)
(*                                                                         *)
(* ResourcePoolLoop has the whole of a scan and reads the nodes            *)
(* themselves; here a scan is its lookups, one answer of the fabric        *)
(* manager (FM), and its label updates, on the caches it really reads.     *)
(* Only the fabric label is modelled.                                      *)
(*                                                                         *)
(* The API server and the informers are external: every change of a node   *)
(* gives it a new resource version, an update must name the current one,   *)
(* and a watch tells of all changes in their order, after a list of what   *)
(* there was.  BareMetalHosts are there before the process and do not      *)
(* change; a host's machine is named by the provider id of its node.       *)
(*                                                                         *)
(* The caches of the ConfigMaps and Secrets are waited for like the nodes' *)
(* and read as a whole; they are left out.                                 *)
(*                                                                         *)
(* Bound: `upsets' counts the changes of the world, the failed calls and   *)
(* the crashes; there are at most MaxUpsets of them, of kinds UpsetKinds.  *)
(***************************************************************************)
EXTENDS Integers, Sequences, FiniteSets

CONSTANTS
    Nodes,         \* the names of Kubernetes nodes
    ProviderIDs,   \* normalized provider ids, each that of a machine
    Fabrics,       \* the fabrics of the fabric manager
    OtherLabels,   \* what other writers set on a node
    UseCapiBmh,    \* option: a machine is known by its BareMetalHost
    None,          \* "nil", "" and "not found"
    Absent,        \* a node that does not exist
    UpsetKinds, MaxUpsets

ASSUME NodesAssumption == IsFiniteSet(Nodes)
ASSUME OptionAssumption == UseCapiBmh \in BOOLEAN
ASSUME NoneAssumption == None \notin ProviderIDs \cup Fabrics \cup OtherLabels
ASSUME MaxUpsetsAssumption == MaxUpsets \in Nat

(* A node, as the API server stores it and the caches copy it. *)
Object ==
    [version : Nat, providerID : ProviderIDs \cup {None},
     fabric : Fabrics \cup {None}, other : OtherLabels]

ASSUME AbsentAssumption == Absent \notin Object /\ None \notin [node : Nodes, object : Object]

VARIABLES
    (* The API server and the fabric manager. *)
    nodes,       \* the nodes
    version,     \* the last resource version
    hosts,       \* the provider ids with a BareMetalHost
    served,      \* whether the group version of BareMetalHosts, which is
                 \* served, has them (Startup has the other cases)
    fabricOf,    \* the fabric of the machine of a provider id
    upsets,
    (* The informers of the process. *)
    cache,       \* the nodes in the indexer
    news,        \* what was listed and watched and is not in it yet
    unsynced,    \* how many of the news were listed
    hostCache,   \* the BareMetalHosts in the indexer
    startedAt,   \* history: the resource version the informers started at
    (* The manager goroutine: where it is, and the locals of a scan. *)
    step,
    pending,     \* getMachineUUIDs: the provider ids still to look up
    uuids,       \* the provider id (or machine) found for every node
    machines,    \* manageCDINodeLabel: the machines still to label
    held         \* the node that was got and not updated yet

apiServer == <<nodes, version>>
fixed == <<hosts, served>>
informers == <<cache, news, unsynced, hostCache, startedAt>>
scan == <<step, pending, uuids, machines, held>>
vars == <<apiServer, fixed, fabricOf, upsets, informers, scan>>

Copies == [node : Nodes, object : Object \cup {Absent}]
Steps == {"down", "syncing", "idle", "resolve", "machines", "label"}

-----------------------------------------------------------------------------
NoUUIDs == [n \in Nodes |-> None]
NoNodes == [n \in Nodes |-> Absent]

Existing == {n \in Nodes : nodes[n] # Absent}

(* No scan under way; the process is at step s. *)
Locals(s) ==
    /\ step' = s
    /\ pending' = {}
    /\ uuids' = NoUUIDs
    /\ machines' = {}
    /\ held' = None

Init ==
    /\ version = 1
    /\ nodes \in [Nodes -> {o \in Object : o.version = 1 /\ o.fabric = None} \cup {Absent}]
    /\ hosts \in SUBSET ProviderIDs
    /\ served \in BOOLEAN
    /\ fabricOf \in [ProviderIDs -> Fabrics \cup {None}]
    /\ upsets = 0
    /\ cache = NoNodes
    /\ news = << >>
    /\ unsynced = 0
    /\ hostCache = {}
    /\ startedAt = 0
    /\ step = "down"
    /\ pending = {}
    /\ uuids = NoUUIDs
    /\ machines = {}
    /\ held = None

-----------------------------------------------------------------------------
(* The informers. *)

(* The lists of the nodes that exist, in some order. *)
Listings ==
    {[i \in DOMAIN order |-> [node |-> order[i], object |-> nodes[order[i]]]] :
        order \in {o \in [1 .. Cardinality(Existing) -> Existing] :
                      \A n \in Existing : \E i \in DOMAIN o : o[i] = n}}

(* A process starts: the informers' first list. *)
StartInformers ==
    /\ step = "down"
    /\ cache' = NoNodes
    /\ news' \in Listings
    /\ unsynced' = Cardinality(Existing)
    /\ hostCache' = {}
    /\ startedAt' = version
    /\ Locals("syncing")
    /\ UNCHANGED <<apiServer, fixed, fabricOf, upsets>>

DeliverNode ==
    /\ news # << >>
    /\ cache' = [cache EXCEPT ![Head(news).node] = Head(news).object]
    /\ news' = Tail(news)
    /\ unsynced' = IF unsynced > 0 THEN unsynced - 1 ELSE 0
    /\ UNCHANGED <<apiServer, fixed, fabricOf, upsets, hostCache, startedAt, scan>>

DeliverHost ==
    /\ step # "down"
    /\ UseCapiBmh /\ served
    /\ \E h \in hosts \ hostCache : hostCache' = hostCache \cup {h}
    /\ UNCHANGED <<apiServer, fixed, fabricOf, upsets, cache, news, unsynced, startedAt, scan>>

(* The field of KubeControllers: CreateKubeControllers sets a variable of  *)
(* this name in an inner scope and leaves the outer one as it was.         *)
bmhAvailable == FALSE

(* Faulty variant of the next definition: the node cache is not waited for. *)
HasSynced_notNodes == bmhAvailable => hostCache = hosts

HasSynced == unsynced = 0 /\ (bmhAvailable => hostCache = hosts)

Run ==
    /\ step = "syncing"
    /\ HasSynced
    /\ Locals("idle")
    /\ UNCHANGED <<apiServer, fixed, fabricOf, upsets, informers>>

-----------------------------------------------------------------------------
(* The lookups of a scan. *)

ListProviderIDs ==
    /\ step = "idle"
    /\ pending' = {cache[n].providerID : n \in {m \in Nodes : cache[m] # Absent}} \ {None}
    /\ step' = IF pending' = {} THEN "idle" ELSE "resolve"
    /\ UNCHANGED <<apiServer, fixed, fabricOf, upsets, informers, uuids, machines, held>>

NodesOf(p) == {n \in Nodes : cache[n] # Absent /\ cache[n].providerID = p}

(* The lookups of p are over, and the scan with them when they were the    *)
(* last and no machine was found.                                          *)
Resolved(p, found) ==
    /\ pending' = pending \ {p}
    /\ uuids' = found
    /\ step' = IF pending' # {} THEN "resolve"
               ELSE IF found = NoUUIDs THEN "idle" ELSE "machines"
    /\ UNCHANGED <<machines, held>>

Crashed ==
    /\ Locals("down")
    /\ cache' = NoNodes
    /\ news' = << >>
    /\ unsynced' = 0
    /\ hostCache' = {}
    /\ startedAt' = 0

(* The node of a provider id, and its host if the option is set; without   *)
(* an informer of hosts that lookup ends the process.                      *)
FindByProviderID(p) ==
    /\ step = "resolve"
    /\ p \in pending
    /\ \/ NodesOf(p) = {} /\ Resolved(p, uuids) /\ UNCHANGED informers
       \/ (\E n, m \in NodesOf(p) : n # m) /\ Locals("idle") /\ UNCHANGED informers
       \/ \E n \in Nodes :
             /\ NodesOf(p) = {n}
             /\ IF UseCapiBmh /\ ~served THEN Crashed
                ELSE /\ Resolved(p, IF UseCapiBmh /\ p \notin hostCache THEN uuids
                                    ELSE [uuids EXCEPT ![n] = p])
                     /\ UNCHANGED informers
    /\ UNCHANGED <<apiServer, fixed, fabricOf, upsets>>

(* Faulty variant of the next definition: a machine on no fabric is kept. *)
MachinesOf_nil == {[node |-> n, fabric |-> fabricOf[uuids[n]]] : n \in {m \in Nodes : uuids[m] # None}}

(* The machines on a fabric, as the FM answers now. *)
MachinesOf ==
    {[node |-> n, fabric |-> fabricOf[uuids[n]]] :
        n \in {m \in Nodes : uuids[m] # None /\ fabricOf[uuids[m]] # None}}

getMachineList ==
    /\ step = "machines"
    /\ machines' = MachinesOf
    /\ step' = IF machines' = {} THEN "idle" ELSE "label"
    /\ uuids' = NoUUIDs
    /\ UNCHANGED <<apiServer, fixed, fabricOf, upsets, informers, pending, held>>

-----------------------------------------------------------------------------
(* manageCDINodeLabel: get a node from the cache, update it in the API     *)
(* server.                                                                 *)

(* Faulty variant of the next definition: the first node is the last.      *)
Labelled_first(rest) ==
    /\ machines' = {}
    /\ step' = "idle"
    /\ held' = None
    /\ UNCHANGED <<pending, uuids>>

Labelled(rest) ==
    /\ machines' = rest
    /\ step' = IF rest = {} THEN "idle" ELSE "label"
    /\ held' = None
    /\ UNCHANGED <<pending, uuids>>

GetNode(m) ==
    /\ step = "label"
    /\ held = None
    /\ m \in machines
    /\ \/ cache[m.node] = Absent /\ Labelled(machines \ {m})
       \/ /\ cache[m.node] # Absent
          /\ held' = [node |-> m.node, object |-> [cache[m.node] EXCEPT !.fabric = m.fabric]]
          /\ machines' = machines \ {m}
          /\ UNCHANGED <<step, pending, uuids>>
    /\ UNCHANGED <<apiServer, fixed, fabricOf, upsets, informers>>

(* Node n changes to object in the API server, and the watch tells. *)
Store(n, object) ==
    LET new == IF object = Absent THEN Absent ELSE [object EXCEPT !.version = version + 1]
    IN  /\ nodes' = [nodes EXCEPT ![n] = new]
        /\ version' = version + 1
        /\ news' = IF step = "down" THEN news
                   ELSE Append(news, [node |-> n, object |-> new])
        /\ UNCHANGED <<cache, unsynced, hostCache, startedAt>>

(* Faulty variant of the next definition: the update names no version.     *)
Current_anyVersion == nodes[held.node] # Absent

Current == nodes[held.node] # Absent /\ nodes[held.node].version = held.object.version

(* An update that changes nothing leaves the version. *)
Update ==
    IF nodes[held.node] = held.object THEN UNCHANGED <<apiServer, informers>>
    ELSE Store(held.node, held.object)

UpdateNode ==
    /\ held # None
    /\ Current
    /\ Update
    /\ Labelled(machines)
    /\ UNCHANGED <<fixed, fabricOf, upsets>>

(* Faulty variant of the next definition: the update is tried again with   *)
(* the object at hand.                                                     *)
UpdateConflicts_retried ==
    /\ held # None
    /\ ~Current
    /\ UNCHANGED vars

(* A conflict, or no such node: the scan is abandoned. *)
UpdateConflicts ==
    /\ held # None
    /\ ~Current
    /\ Locals("idle")
    /\ UNCHANGED <<apiServer, fixed, fabricOf, upsets, informers>>

-----------------------------------------------------------------------------
(* Upsets. *)

Upset(kind) ==
    /\ kind \in UpsetKinds
    /\ upsets < MaxUpsets
    /\ upsets' = upsets + 1

(* A call fails or is not answered in time, an update also after it was    *)
(* done.                                                                   *)
CallFails ==
    /\ Upset("api")
    /\ \/ step = "machines" /\ UNCHANGED <<apiServer, informers>>
       \/ held # None /\ UNCHANGED <<apiServer, informers>>
       \/ held # None /\ Current /\ Update
    /\ Locals("idle")
    /\ UNCHANGED <<fixed, fabricOf>>

Crash ==
    /\ Upset("crash")
    /\ step # "down"
    /\ Crashed
    /\ UNCHANGED <<apiServer, fixed, fabricOf>>

OtherWrites ==
    /\ Upset("other")
    /\ \E n \in Existing, l \in OtherLabels :
          /\ l # nodes[n].other
          /\ Store(n, [nodes[n] EXCEPT !.other = l])
    /\ UNCHANGED <<fixed, fabricOf, scan>>

(* A node comes, with its provider id or without, gets it, or goes. *)
NodeChanges ==
    /\ Upset("nodes")
    /\ \E n \in Nodes :
          \/ \E p \in ProviderIDs \cup {None}, l \in OtherLabels :
                /\ nodes[n] = Absent
                /\ Store(n, [version |-> 0, providerID |-> p, fabric |-> None, other |-> l])
          \/ \E p \in ProviderIDs :
                /\ nodes[n] # Absent
                /\ nodes[n].providerID = None
                /\ Store(n, [nodes[n] EXCEPT !.providerID = p])
          \/ nodes[n] # Absent /\ Store(n, Absent)
    /\ UNCHANGED <<fixed, fabricOf, scan>>

FabricChanges ==
    /\ Upset("fabric")
    /\ \E p \in ProviderIDs, f \in Fabrics \cup {None} :
          f # fabricOf[p] /\ fabricOf' = [fabricOf EXCEPT ![p] = f]
    /\ UNCHANGED <<apiServer, fixed, informers, scan>>

-----------------------------------------------------------------------------
LoopStep ==
    \/ Run
    \/ ListProviderIDs
    \/ \E p \in ProviderIDs : FindByProviderID(p)
    \/ getMachineList
    \/ \E m \in machines : GetNode(m)
    \/ UpdateNode
    \/ UpdateConflicts

Next ==
    \/ StartInformers
    \/ DeliverNode
    \/ DeliverHost
    \/ LoopStep
    \/ CallFails
    \/ Crash
    \/ OtherWrites
    \/ NodeChanges
    \/ FabricChanges

(* The kubelet restarts the container, watches deliver, and the goroutine  *)
(* of the scans runs; upsets are never owed.                               *)
Fairness ==
    /\ WF_vars(StartInformers)
    /\ WF_vars(DeliverNode)
    /\ WF_vars(DeliverHost)
    /\ WF_vars(LoopStep)

Spec == Init /\ [][Next]_vars /\ Fairness

-----------------------------------------------------------------------------
(* Properties. *)

(* Every variable has its type.  No scan labels a node with no fabric.     *)
TypeOK ==
    /\ nodes \in [Nodes -> Object \cup {Absent}]
    /\ version \in Nat
    /\ hosts \in SUBSET ProviderIDs
    /\ served \in BOOLEAN
    /\ fabricOf \in [ProviderIDs -> Fabrics \cup {None}]
    /\ upsets \in 0 .. MaxUpsets
    /\ cache \in [Nodes -> Object \cup {Absent}]
    /\ news \in Seq(Copies)
    /\ unsynced \in 0 .. Len(news)
    /\ hostCache \in SUBSET ProviderIDs
    /\ startedAt \in Nat
    /\ step \in Steps
    /\ pending \in SUBSET ProviderIDs
    /\ uuids \in [Nodes -> ProviderIDs \cup {None}]
    /\ machines \in SUBSET [node : Nodes, fabric : Fabrics]
    /\ held \in [node : Nodes, object : Object] \cup {None}

(* Labels are written with a whole node object from the cache (Update in   *)
(* manageCDINodeLabel), which may be older than the node: such an update   *)
(* never undoes what another writer has set since, never touches a node    *)
(* that was replaced meanwhile as if it were the old one, and never brings *)
(* a deleted node back.                                                    *)
OthersKept ==
    [][held # None /\ held' = None => \A n \in Nodes :
          IF nodes[n] = Absent THEN nodes'[n] = Absent
          ELSE /\ nodes'[n] # Absent
               /\ nodes'[n].other = nodes[n].other
               /\ nodes'[n].providerID = nodes[n].providerID]_vars

Running == step \notin {"down", "syncing"}

(* No scan runs before every node that was there when the process started  *)
(* is in the cache (Run in kube_utils.go): in no life of the process does  *)
(* a scan miss a node it could have known.                                 *)
ScansKnowNodes ==
    Running => \A n \in Existing : nodes[n].version <= startedAt => cache[n] = nodes[n]

(* kube_utils.go, lines 202-205: when BareMetalHosts are served, Run waits *)
(* for their cache too.                                                    *)
ScansKnowHosts == Running /\ UseCapiBmh /\ served => hostCache = hosts

Machine(n) ==
    IF UseCapiBmh /\ nodes[n].providerID \notin hosts THEN None ELSE nodes[n].providerID

(* Nothing makes every scan fail: provider ids are unique, and hosts are   *)
(* served if they are asked for.                                           *)
Scannable ==
    /\ UseCapiBmh => served
    /\ \A n, m \in Existing :
          nodes[n].providerID = nodes[m].providerID /\ nodes[n].providerID # None => n = m

(* Every node whose machine is on a fabric is labelled with that fabric in *)
(* the API server.                                                         *)
AllLabelled ==
    \A n \in Existing :
        Machine(n) # None /\ fabricOf[Machine(n)] # None =>
            nodes[n].fabric = fabricOf[Machine(n)]

(* When the upsets are over the nodes get their labels and keep them:      *)
(* whatever stale copies, conflicts, lost answers, half-filled caches and  *)
(* labels of an earlier life the scans began with.                         *)
EventuallyLabelled == <>[](Scannable => AllLabelled)

(* README.md, line 15: the labels inform about the devices that can be     *)
(* attached.  When the upsets are over no node is labelled with a fabric   *)
(* its machine is not on.                                                  *)
EventuallyNoFalseLabel ==
    <>[](Scannable => \A n \in Existing :
            Machine(n) # None => nodes[n].fabric \in {None, fabricOf[Machine(n)]})
=============================================================================
