-------------------------- MODULE NodeCache_proofs --------------------------
(***************************************************************************)
(* Theorems about the caches, for any nodes, provider ids, fabrics, other  *)
(* writers and upsets: an update never undoes another's change, and no     *)
(* scan misses a node that was there when the process started.             *)
(***************************************************************************)
EXTENDS NodeCache, FiniteSetTheorems, TLAPS

-----------------------------------------------------------------------------
(* The inductive invariant. *)

(* What a copy of a node says is no newer than the node; if it is as new,  *)
(* it is the node.                                                         *)
Copy(n, object) ==
    /\ object.version <= version
    /\ nodes[n] # Absent /\ nodes[n].version = object.version => nodes[n] = object

CopiesTrue ==
    /\ \A n \in Nodes : nodes[n] # Absent => nodes[n].version <= version
    /\ \A n \in Nodes : cache[n] # Absent => Copy(n, cache[n])
    /\ \A i \in 1 .. Len(news) :
          news[i].object # Absent => Copy(news[i].node, news[i].object)

(* The node to be updated differs from its copy in the driver's label. *)
HeldTrue ==
    held # None =>
        LET n == held.node
        IN  /\ step = "label"
            /\ held.object.version <= version
            /\ nodes[n] # Absent /\ nodes[n].version = held.object.version =>
                  /\ nodes[n].other = held.object.other
                  /\ nodes[n].providerID = held.object.providerID

(* A node that has not changed since the informers started is in the cache *)
(* or among the listed nodes still to come, and no news contradict that.   *)
Listed ==
    /\ startedAt <= version
    /\ \A n \in Nodes : nodes[n] # Absent /\ nodes[n].version <= startedAt =>
          /\ \/ cache[n] = nodes[n]
             \/ \E i \in 1 .. unsynced : news[i].node = n
          /\ \A i \in 1 .. Len(news) : news[i].node = n => news[i].object = nodes[n]

ListedHeld ==
    /\ step # "down" => Listed
    /\ Running => unsynced = 0

IInv == TypeOK /\ CopiesTrue /\ HeldTrue /\ ListedHeld

-----------------------------------------------------------------------------
(* Sequences and lists. *)

LEMMA HeadTail ==
  ASSUME NEW S, NEW s \in Seq(S), s # << >>
  PROVE  /\ Head(s) \in S /\ Head(s) = s[1]
         /\ Tail(s) \in Seq(S)
         /\ Len(s) \in Nat /\ Len(s) > 0
         /\ Len(Tail(s)) = Len(s) - 1
         /\ \A i \in 1 .. Len(Tail(s)) : i + 1 \in 1 .. Len(s) /\ Tail(s)[i] = s[i + 1]
OBVIOUS

LEMMA Appended ==
  ASSUME NEW S, NEW s \in Seq(S), NEW e \in S
  PROVE  /\ Append(s, e) \in Seq(S)
         /\ Len(s) \in Nat
         /\ Len(Append(s, e)) = Len(s) + 1
         /\ Append(s, e)[Len(s) + 1] = e
         /\ \A i \in 1 .. Len(s) : Append(s, e)[i] = s[i]
OBVIOUS

LEMMA ListingsType ==
  ASSUME TypeOK, NEW list \in Listings
  PROVE  /\ list \in Seq(Copies)
         /\ Cardinality(Existing) \in Nat
         /\ Len(list) = Cardinality(Existing)
         /\ \A i \in 1 .. Len(list) : /\ list[i].node \in Existing
                                      /\ list[i].object = nodes[list[i].node]
         /\ \A n \in Existing : \E i \in 1 .. Len(list) : list[i].node = n
<1>1. Cardinality(Existing) \in Nat
  <2>1. IsFiniteSet(Existing)
    BY NodesAssumption, FS_Subset DEF Existing
  <2> QED
    BY <2>1, FS_CardinalityType
<1>2. PICK order \in [1 .. Cardinality(Existing) -> Existing] :
        /\ \A n \in Existing : \E i \in DOMAIN order : order[i] = n
        /\ list = [i \in DOMAIN order |-> [node |-> order[i], object |-> nodes[order[i]]]]
  BY DEF Listings
<1>3. \A i \in 1 .. Cardinality(Existing) :
        /\ list[i] = [node |-> order[i], object |-> nodes[order[i]]]
        /\ order[i] \in Existing
  BY <1>2
<1>4. \A i \in 1 .. Cardinality(Existing) : list[i] \in Copies
  <2>1. \A n \in Existing : n \in Nodes /\ nodes[n] \in Object \cup {Absent}
    BY DEF Existing, TypeOK
  <2>2. \A n \in Existing : [node |-> n, object |-> nodes[n]] \in Copies
    BY <2>1 DEF Copies
  <2> QED
    BY <1>3, <2>2
<1>5. list \in [1 .. Cardinality(Existing) -> Copies]
  BY <1>2, <1>4
<1>6. list \in Seq(Copies) /\ Len(list) = Cardinality(Existing)
  BY <1>1, <1>5
<1> QED
  BY <1>1, <1>2, <1>3, <1>6

-----------------------------------------------------------------------------
LEMMA InitIInv == Init => IInv
<1> SUFFICES ASSUME Init PROVE IInv
  OBVIOUS
<1>1. TypeOK
  <2>1. served \in BOOLEAN
    BY Zenon DEF Init
  <2>2. nodes \in [Nodes -> Object \cup {Absent}]
    BY DEF Init
  <2>3. news \in Seq(Copies) /\ unsynced \in 0 .. Len(news)
    BY DEF Init
  <2> QED
    BY <2>1, <2>2, <2>3, MaxUpsetsAssumption DEF Init, TypeOK, NoNodes, NoUUIDs, Steps
<1>2. CopiesTrue
  BY DEF Init, CopiesTrue, NoNodes
<1>3. HeldTrue /\ ListedHeld
  BY DEF Init, HeldTrue, ListedHeld, Running
<1> QED
  BY <1>1, <1>2, <1>3 DEF IInv

(* What the informers and the API server have keeps its type and its part  *)
(* of the invariant, whatever a scan does with its locals.                 *)
Kept ==
    /\ nodes \in [Nodes -> Object \cup {Absent}]
    /\ version \in Nat
    /\ cache \in [Nodes -> Object \cup {Absent}]
    /\ news \in Seq(Copies)
    /\ unsynced \in 0 .. Len(news)
    /\ hostCache \in SUBSET ProviderIDs
    /\ startedAt \in Nat
    /\ CopiesTrue

(* A change of node n in the API server. *)
LEMMA StoreKept ==
  ASSUME IInv, NEW n \in Nodes, NEW object \in Object \cup {Absent}, Store(n, object)
  PROVE  /\ Kept'
         /\ step # "down" => Listed'
         /\ unsynced' = unsynced
         /\ version' = version + 1
         /\ \A m \in Nodes \ {n} : nodes'[m] = nodes[m]
         /\ nodes'[n] # Absent => nodes'[n].version = version + 1
         /\ IF object = Absent THEN nodes'[n] = Absent
            ELSE /\ nodes'[n] # Absent
                 /\ nodes'[n].other = object.other
                 /\ nodes'[n].providerID = object.providerID
<1> DEFINE new == IF object = Absent THEN Absent ELSE [object EXCEPT !.version = version + 1]
           e == [node |-> n, object |-> new]
<1>1. version \in Nat /\ startedAt \in Nat
  BY DEF IInv, TypeOK
<1>2. /\ new \in Object \cup {Absent}
      /\ object # Absent => /\ new # Absent
                            /\ new.version = version + 1
                            /\ new.other = object.other
                            /\ new.providerID = object.providerID
      /\ object = Absent => new = Absent
  BY <1>1, AbsentAssumption DEF Object
<1>3. /\ nodes' = [nodes EXCEPT ![n] = new]
      /\ version' = version + 1
      /\ news' = IF step = "down" THEN news ELSE Append(news, e)
      /\ UNCHANGED <<cache, unsynced, hostCache, startedAt>>
  BY DEF Store
<1> HIDE DEF new
<1>4. /\ nodes' \in [Nodes -> Object \cup {Absent}]
      /\ nodes'[n] = new
      /\ \A m \in Nodes \ {n} : nodes'[m] = nodes[m]
  BY <1>2, <1>3 DEF IInv, TypeOK
<1>5. e \in Copies
  BY <1>2 DEF Copies
<1> HIDE DEF e
<1>6. /\ news \in Seq(Copies)
      /\ unsynced \in 0 .. Len(news)
      /\ Len(news) \in Nat
  BY DEF IInv, TypeOK
<1>7. /\ news' \in Seq(Copies)
      /\ Len(news') \in Nat
      /\ Len(news') >= Len(news)
      /\ \A i \in 1 .. Len(news) : news'[i] = news[i]
      /\ \A i \in 1 .. Len(news') : i \in 1 .. Len(news) \/ news'[i] = e
  BY <1>3, <1>5, <1>6, Appended
<1>8. \A i \in 1 .. Len(news) : news[i].node \in Nodes /\ news[i].object \in Object \cup {Absent}
  <2>1. \A c \in Copies : c.node \in Nodes /\ c.object \in Object \cup {Absent}
    BY DEF Copies
  <2>2. \A i \in 1 .. Len(news) : news[i] \in Copies
    BY <1>6
  <2> QED
    BY <2>1, <2>2
<1>9. CopiesTrue'
  <2>1. \A m \in Nodes : nodes'[m] # Absent => nodes'[m].version <= version + 1
    BY <1>1, <1>2, <1>4 DEF IInv, TypeOK, CopiesTrue, Object
  <2>2. ASSUME NEW m \in Nodes, NEW o \in Object, Copy(m, o)
        PROVE  /\ o.version <= version + 1
               /\ nodes'[m] # Absent /\ nodes'[m].version = o.version => nodes'[m] = o
    <3>1. o.version \in Nat /\ o.version <= version
      BY <2>2 DEF Copy, Object
    <3> QED
      BY <1>1, <1>2, <1>4, <2>2, <3>1 DEF Copy
  <2>3. \A m \in Nodes : cache'[m] # Absent => Copy(m, cache[m])'
    BY <1>3, <2>2 DEF IInv, TypeOK, CopiesTrue, Copy
  <2>4. ASSUME NEW i \in 1 .. Len(news'), news'[i].object # Absent
        PROVE  Copy(news[i].node, news[i].object)'
    <3>1. CASE i \in 1 .. Len(news)
      BY <1>3, <1>7, <1>8, <2>2, <2>4, <3>1 DEF IInv, CopiesTrue, Copy
    <3>2. CASE news'[i] = e
      BY <1>1, <1>2, <1>3, <1>4, <2>4, <3>2 DEF Copy, e
    <3> QED
      BY <1>7, <2>4, <3>1, <3>2
  <2> QED
    BY <1>3, <2>1, <2>3, <2>4 DEF CopiesTrue
<1>10. Kept'
  BY <1>1, <1>3, <1>4, <1>6, <1>7, <1>9 DEF Kept, IInv, TypeOK
<1>11. ASSUME step # "down" PROVE Listed'
  <2>1. Listed
    BY <1>11 DEF IInv, ListedHeld
  <2>2. ASSUME NEW m \in Nodes, nodes'[m] # Absent, nodes'[m].version <= startedAt
        PROVE  m # n /\ nodes'[m] = nodes[m]
    BY <1>1, <1>2, <1>4, <2>1, <2>2 DEF Listed
  <2>3. ASSUME NEW m \in Nodes, nodes'[m] # Absent, nodes'[m].version <= startedAt,
               NEW i \in 1 .. Len(news'), news'[i].node = m
        PROVE  news'[i].object = nodes'[m]
    BY <1>7, <2>1, <2>2, <2>3 DEF Listed, e
  <2>4. ASSUME NEW m \in Nodes, nodes'[m] # Absent, nodes'[m].version <= startedAt
        PROVE  cache[m] = nodes'[m] \/ \E i \in 1 .. unsynced : news'[i].node = m
    BY <1>6, <1>7, <2>1, <2>2, <2>4 DEF Listed
  <2>5. startedAt' <= version' /\ startedAt' = startedAt
    BY <1>1, <1>3, <2>1 DEF Listed
  <2>6. cache' = cache /\ unsynced' = unsynced
    BY <1>3
  <2> QED
    BY <2>3, <2>4, <2>5, <2>6, Zenon DEF Listed
<1> QED
  BY <1>2, <1>3, <1>4, <1>10, <1>11

-----------------------------------------------------------------------------
(* The steps. *)

World ==
    /\ hosts \in SUBSET ProviderIDs
    /\ served \in BOOLEAN
    /\ fabricOf \in [ProviderIDs -> Fabrics \cup {None}]
    /\ upsets \in 0 .. MaxUpsets

ScanTypes ==
    /\ step \in Steps
    /\ pending \in SUBSET ProviderIDs
    /\ uuids \in [Nodes -> ProviderIDs \cup {None}]
    /\ machines \in SUBSET [node : Nodes, fabric : Fabrics]
    /\ held \in [node : Nodes, object : Object] \cup {None}

LEMMA Parts == Kept' /\ World' /\ ScanTypes' /\ HeldTrue' /\ ListedHeld' => IInv'
BY DEF IInv, TypeOK, Kept, World, ScanTypes

LEMMA WorldKept ==
  ASSUME IInv, UNCHANGED fixed,
         fabricOf' \in [ProviderIDs -> Fabrics \cup {None}], upsets' \in 0 .. MaxUpsets
  PROVE  World'
<1>1. hosts' = hosts /\ served' = served
  BY DEF fixed
<1>2. served' \in BOOLEAN
  BY <1>1, Zenon DEF IInv, TypeOK
<1> QED
  BY <1>1, <1>2 DEF World, IInv, TypeOK

LEMMA Unchanged ==
  ASSUME IInv, UNCHANGED <<apiServer, informers>>
  PROVE  Kept' /\ (Listed => Listed')
BY DEF IInv, TypeOK, Kept, CopiesTrue, Copy, Listed, apiServer, informers

LEMMA LocalsTypes ==
  ASSUME NEW s \in Steps, Locals(s)
  PROVE  ScanTypes' /\ HeldTrue'
BY DEF Locals, ScanTypes, HeldTrue, NoUUIDs

(* A step of the scan that writes nothing to the API server. *)
LEMMA ReadStep ==
  ASSUME IInv, UNCHANGED <<apiServer, fixed, fabricOf, upsets, informers>>,
         ScanTypes', HeldTrue', step # "down", step' # "down",
         Running' => unsynced = 0
  PROVE  IInv'
<1>1. World'
  BY WorldKept DEF IInv, TypeOK
<1>2. Kept' /\ Listed'
  BY Unchanged DEF IInv, ListedHeld
<1>3. ListedHeld'
  BY <1>2 DEF ListedHeld, informers
<1> QED
  BY <1>1, <1>2, <1>3, Parts

LEMMA StartInformersInv == IInv /\ StartInformers => IInv'
<1> SUFFICES ASSUME IInv, StartInformers PROVE IInv'
  OBVIOUS
<1>1. /\ news' \in Listings
      /\ unsynced' = Cardinality(Existing)
      /\ cache' = NoNodes /\ hostCache' = {} /\ startedAt' = version
      /\ nodes' = nodes /\ version' = version
      /\ UNCHANGED <<fixed, fabricOf, upsets>>
      /\ Locals("syncing") /\ step' = "syncing"
  BY DEF StartInformers, apiServer, Locals
<1>2. TypeOK
  BY DEF IInv
<1>3. /\ news' \in Seq(Copies)
      /\ Len(news') = unsynced' /\ unsynced' \in Nat
      /\ \A i \in 1 .. Len(news') : /\ news'[i].node \in Existing
                                    /\ news'[i].object = nodes[news'[i].node]
      /\ \A n \in Existing : \E i \in 1 .. Len(news') : news'[i].node = n
  BY <1>1, <1>2, ListingsType
<1>4. World'
  BY <1>1, WorldKept DEF IInv, TypeOK
<1>5. ScanTypes' /\ HeldTrue'
  BY <1>1, LocalsTypes DEF Steps
<1>6. CopiesTrue'
  BY <1>1, <1>3 DEF CopiesTrue, Copy, IInv, NoNodes, Existing
<1>7. Kept'
  BY <1>1, <1>2, <1>3, <1>6 DEF Kept, TypeOK, NoNodes
<1>8. Listed'
  <2>1. startedAt' <= version'
    BY <1>1, <1>2 DEF TypeOK
  <2>2. \A n \in Nodes : nodes'[n] # Absent => n \in Existing
    BY <1>1 DEF Existing
  <2> QED
    BY <1>1, <1>3, <2>1, <2>2 DEF Listed
<1>9. ListedHeld'
  BY <1>1, <1>8 DEF ListedHeld, Running
<1> QED
  BY <1>4, <1>5, <1>7, <1>9, Parts

LEMMA DeliverNodeInv == IInv /\ DeliverNode => IInv'
<1> SUFFICES ASSUME IInv, DeliverNode PROVE IInv'
  OBVIOUS
<1> DEFINE h == Head(news)
<1>1. /\ news # << >>
      /\ cache' = [cache EXCEPT ![h.node] = h.object]
      /\ news' = Tail(news)
      /\ unsynced' = IF unsynced > 0 THEN unsynced - 1 ELSE 0
      /\ nodes' = nodes /\ version' = version
      /\ hostCache' = hostCache /\ startedAt' = startedAt
      /\ UNCHANGED <<fixed, fabricOf, upsets>>
      /\ UNCHANGED <<step, pending, uuids, machines, held>>
  BY DEF DeliverNode, apiServer, scan
<1>2. news \in Seq(Copies) /\ unsynced \in 0 .. Len(news)
  BY DEF IInv, TypeOK
<1>3. /\ h \in Copies /\ h = news[1]
      /\ news' \in Seq(Copies)
      /\ Len(news) \in Nat /\ Len(news) > 0 /\ Len(news') = Len(news) - 1
      /\ \A i \in 1 .. Len(news') : i + 1 \in 1 .. Len(news) /\ news'[i] = news[i + 1]
  BY <1>1, <1>2, HeadTail
<1> HIDE DEF h
<1>4. h.node \in Nodes /\ h.object \in Object \cup {Absent}
  BY <1>3 DEF Copies
<1>5. /\ cache' \in [Nodes -> Object \cup {Absent}]
      /\ cache'[h.node] = h.object
      /\ \A n \in Nodes \ {h.node} : cache'[n] = cache[n]
  BY <1>1, <1>4 DEF IInv, TypeOK
<1>6. unsynced' \in 0 .. Len(news') /\ unsynced' <= unsynced
  BY <1>1, <1>2, <1>3
<1>7. CopiesTrue'
  <2>1. h.object # Absent => Copy(h.node, h.object)
    BY <1>3 DEF IInv, CopiesTrue
  <2>2. \A n \in Nodes : cache'[n] # Absent => Copy(n, cache'[n])
    BY <1>5, <2>1 DEF IInv, CopiesTrue
  <2>3. \A i \in 1 .. Len(news') : news'[i].object # Absent => Copy(news'[i].node, news'[i].object)
    BY <1>3 DEF IInv, CopiesTrue
  <2> QED
    BY <1>1, <2>2, <2>3 DEF IInv, CopiesTrue, Copy
<1>8. ASSUME step # "down" PROVE Listed'
  <2>1. Listed
    BY <1>8 DEF IInv, ListedHeld
  <2> SUFFICES ASSUME NEW n \in Nodes, nodes[n] # Absent, nodes[n].version <= startedAt
               PROVE  /\ cache'[n] = nodes[n] \/ \E i \in 1 .. unsynced' : news'[i].node = n
                      /\ \A i \in 1 .. Len(news') : news'[i].node = n => news'[i].object = nodes[n]
    BY <1>1, <2>1 DEF Listed
  <2>2. /\ cache[n] = nodes[n] \/ \E i \in 1 .. unsynced : news[i].node = n
        /\ \A i \in 1 .. Len(news) : news[i].node = n => news[i].object = nodes[n]
    BY <2>1 DEF Listed
  <2>3. CASE h.node = n
    BY <1>3, <1>5, <2>2, <2>3
  <2>4. CASE h.node # n /\ cache[n] = nodes[n]
    BY <1>3, <1>5, <2>2, <2>4
  <2>5. CASE h.node # n /\ \E i \in 1 .. unsynced : news[i].node = n
    <3>1. PICK i \in 1 .. unsynced : news[i].node = n
      BY <2>5
    <3>2. i # 1 /\ i - 1 \in 1 .. unsynced' /\ i - 1 \in 1 .. Len(news')
      BY <1>1, <1>2, <1>3, <2>5, <3>1
    <3>3. news'[i - 1] = news[i]
      BY <1>2, <1>3, <3>1, <3>2
    <3> QED
      BY <1>3, <2>2, <3>1, <3>2, <3>3
  <2> QED
    BY <2>2, <2>3, <2>4, <2>5
<1>9. ListedHeld'
  BY <1>1, <1>2, <1>6, <1>8 DEF IInv, ListedHeld, Running
<1>10. World'
  BY <1>1, WorldKept DEF IInv, TypeOK
<1>11. ScanTypes' /\ HeldTrue'
  BY <1>1 DEF IInv, TypeOK, ScanTypes, HeldTrue
<1>12. Kept'
  BY <1>1, <1>3, <1>5, <1>6, <1>7 DEF Kept, IInv, TypeOK
<1> QED
  BY <1>9, <1>10, <1>11, <1>12, Parts

LEMMA DeliverHostInv == IInv /\ DeliverHost => IInv'
<1> SUFFICES ASSUME IInv, DeliverHost PROVE IInv'
  OBVIOUS
<1>1. /\ hostCache' \in SUBSET ProviderIDs
      /\ UNCHANGED <<nodes, version, cache, news, unsynced, startedAt>>
      /\ UNCHANGED <<fixed, fabricOf, upsets>>
      /\ UNCHANGED <<step, pending, uuids, machines, held>>
  BY DEF DeliverHost, IInv, TypeOK, apiServer, scan
<1>2. World'
  BY <1>1, WorldKept DEF IInv, TypeOK
<1>3. ScanTypes' /\ HeldTrue'
  BY <1>1 DEF IInv, TypeOK, ScanTypes, HeldTrue
<1>4. Kept'
  BY <1>1 DEF Kept, IInv, TypeOK, CopiesTrue, Copy
<1>5. ListedHeld'
  BY <1>1 DEF IInv, ListedHeld, Listed, Running
<1> QED
  BY <1>2, <1>3, <1>4, <1>5, Parts

LEMMA CrashedInv ==
  ASSUME IInv, Crashed, UNCHANGED <<apiServer, fixed, fabricOf>>, upsets' \in 0 .. MaxUpsets
  PROVE  IInv'
<1>1. /\ cache' = NoNodes /\ news' = << >> /\ unsynced' = 0
      /\ hostCache' = {} /\ startedAt' = 0
      /\ step' = "down" /\ Locals("down")
      /\ UNCHANGED <<nodes, version>>
  BY DEF Crashed, Locals, apiServer
<1>2. World'
  BY WorldKept DEF IInv, TypeOK
<1>3. ScanTypes' /\ HeldTrue'
  BY <1>1, LocalsTypes DEF Steps
<1>4. Kept'
  BY <1>1 DEF Kept, IInv, TypeOK, CopiesTrue, NoNodes
<1>5. ListedHeld'
  BY <1>1 DEF ListedHeld, Running
<1> QED
  BY <1>2, <1>3, <1>4, <1>5, Parts

LEMMA LookupInv ==
  ASSUME IInv, NEW p \in ProviderIDs, FindByProviderID(p)
  PROVE  IInv'
<1> USE DEF IInv, TypeOK, HeldTrue
<1>1. /\ step = "resolve" /\ p \in pending /\ held = None
      /\ UNCHANGED <<apiServer, fixed, fabricOf, upsets>>
  BY DEF FindByProviderID
<1>2. unsynced = 0
  BY <1>1 DEF ListedHeld, Running
<1>3. ASSUME NEW found \in [Nodes -> ProviderIDs \cup {None}], Resolved(p, found),
             UNCHANGED informers
      PROVE  IInv'
  <2>1. ScanTypes' /\ HeldTrue' /\ step' # "down"
    BY <1>1, <1>3 DEF Resolved, ScanTypes, Steps
  <2> QED
    BY <1>1, <1>2, <1>3, <2>1, ReadStep
<1>4. CASE Resolved(p, uuids) /\ UNCHANGED informers
  BY <1>3, <1>4
<1>5. CASE Locals("idle") /\ UNCHANGED informers
  <2>1. ScanTypes' /\ HeldTrue' /\ step' # "down"
    BY <1>5, LocalsTypes DEF Steps, Locals
  <2> QED
    BY <1>1, <1>2, <1>5, <2>1, ReadStep
<1>6. CASE Crashed
  BY <1>1, <1>6, CrashedInv
<1>7. ASSUME NEW n \in Nodes,
             Resolved(p, IF UseCapiBmh /\ p \notin hostCache THEN uuids
                         ELSE [uuids EXCEPT ![n] = p]),
             UNCHANGED informers
      PROVE  IInv'
  <2>1. (IF UseCapiBmh /\ p \notin hostCache THEN uuids ELSE [uuids EXCEPT ![n] = p])
           \in [Nodes -> ProviderIDs \cup {None}]
    OBVIOUS
  <2> QED
    BY <1>3, <1>7, <2>1
<1> QED
  BY <1>1, <1>4, <1>5, <1>6, <1>7 DEF FindByProviderID

(* An update that was done, seen by the scan as done or not. *)
LEMMA UpdateInv ==
  ASSUME IInv, held # None, Current, Update, UNCHANGED <<fixed, fabricOf>>,
         upsets' \in 0 .. MaxUpsets,
         ScanTypes', held' = None, step' \in {"idle", "label"}
  PROVE  /\ IInv'
         /\ \A n \in Nodes : IF nodes[n] = Absent THEN nodes'[n] = Absent
                             ELSE /\ nodes'[n] # Absent
                                  /\ nodes'[n].other = nodes[n].other
                                  /\ nodes'[n].providerID = nodes[n].providerID
<1>1. step = "label" /\ unsynced = 0 /\ Listed /\ HeldTrue'
  BY DEF IInv, HeldTrue, ListedHeld, Running
<1>2. World'
  BY WorldKept DEF IInv, TypeOK
<1>3. CASE UNCHANGED <<apiServer, informers>>
  <2>1. Kept' /\ Listed'
    BY <1>1, <1>3, Unchanged
  <2>2. ListedHeld'
    BY <1>1, <1>3, <2>1 DEF ListedHeld, informers
  <2> QED
    BY <1>1, <1>2, <1>3, <2>1, <2>2, Parts DEF apiServer
<1>4. CASE Store(held.node, held.object)
  <2>1. held.node \in Nodes /\ held.object \in Object \cup {Absent} /\ held.object # Absent
    BY AbsentAssumption DEF IInv, TypeOK
  <2>2. /\ Kept'
        /\ Listed'
        /\ unsynced' = unsynced
        /\ \A m \in Nodes \ {held.node} : nodes'[m] = nodes[m]
        /\ nodes'[held.node] # Absent
        /\ nodes'[held.node].other = held.object.other
        /\ nodes'[held.node].providerID = held.object.providerID
    BY <1>1, <1>4, <2>1, StoreKept
  <2>3. ListedHeld'
    BY <1>1, <2>2 DEF ListedHeld
  <2>4. /\ nodes[held.node] # Absent
        /\ nodes[held.node].other = held.object.other
        /\ nodes[held.node].providerID = held.object.providerID
    BY DEF Current, IInv, HeldTrue
  <2> QED
    BY <1>1, <1>2, <2>1, <2>2, <2>3, <2>4, Parts
<1> QED
  BY <1>3, <1>4 DEF Update

LEMMA LoopStepInv == IInv /\ LoopStep => IInv'
<1> SUFFICES ASSUME IInv, LoopStep PROVE IInv'
  OBVIOUS
<1> USE DEF HeldTrue
<1>1. CASE Run
  <2>1. ScanTypes' /\ HeldTrue' /\ step' # "down"
    BY <1>1, LocalsTypes DEF Run, Steps, Locals
  <2> QED
    BY <1>1, <2>1, ReadStep DEF Run, HasSynced
<1>2. CASE ListProviderIDs
  <2>1. pending' \in SUBSET ProviderIDs
    BY <1>2 DEF ListProviderIDs, IInv, TypeOK, Object
  <2>2. ScanTypes' /\ HeldTrue' /\ step' # "down"
    BY <1>2, <2>1 DEF ListProviderIDs, ScanTypes, Steps, IInv, TypeOK
  <2> QED
    BY <1>2, <2>2, ReadStep DEF ListProviderIDs, IInv, ListedHeld, Running
<1>3. ASSUME NEW p \in ProviderIDs, FindByProviderID(p) PROVE IInv'
  BY <1>3, LookupInv
<1>4. CASE getMachineList
  <2>1. machines' \in SUBSET [node : Nodes, fabric : Fabrics]
    BY <1>4 DEF getMachineList, MachinesOf, IInv, TypeOK
  <2>2. ScanTypes' /\ HeldTrue' /\ step' # "down"
    BY <1>4, <2>1 DEF getMachineList, ScanTypes, Steps, IInv, TypeOK, NoUUIDs
  <2> QED
    BY <1>4, <2>2, ReadStep DEF getMachineList, IInv, ListedHeld, Running
<1>5. ASSUME NEW m \in machines, GetNode(m) PROVE IInv'
  <2>1. m.node \in Nodes /\ m.fabric \in Fabrics
    BY DEF IInv, TypeOK
  <2>2. machines \ {m} \in SUBSET [node : Nodes, fabric : Fabrics]
    BY DEF IInv, TypeOK
  <2>3. CASE Labelled(machines \ {m})
    <3>1. ScanTypes' /\ HeldTrue' /\ step' # "down" /\ step = "label"
      BY <1>5, <2>2, <2>3 DEF GetNode, Labelled, ScanTypes, Steps, IInv, TypeOK
    <3> QED
      BY <1>5, <3>1, ReadStep DEF GetNode, IInv, ListedHeld, Running
  <2>4. CASE cache[m.node] # Absent /\ ~Labelled(machines \ {m})
    <3> DEFINE object == [cache[m.node] EXCEPT !.fabric = m.fabric]
    <3>1. /\ step' = "label" /\ step = "label"
          /\ held' = [node |-> m.node, object |-> object]
          /\ machines' = machines \ {m}
          /\ UNCHANGED <<pending, uuids>>
      BY <1>5, <2>4 DEF GetNode
    <3>2. /\ object \in Object
          /\ object.version = cache[m.node].version
          /\ object.other = cache[m.node].other
          /\ object.providerID = cache[m.node].providerID
      BY <2>1, <2>4 DEF IInv, TypeOK, Object
    <3> HIDE DEF object
    <3>3. Copy(m.node, cache[m.node])
      BY <2>1, <2>4 DEF IInv, CopiesTrue
    <3>4. ScanTypes'
      BY <2>1, <2>2, <3>1, <3>2 DEF ScanTypes, Steps, IInv, TypeOK
    <3>5. held'.node = m.node /\ held'.object = object
      BY <3>1
    <3>6. nodes' = nodes /\ version' = version
      BY <1>5 DEF GetNode, apiServer
    <3>7. HeldTrue'
      BY <3>1, <3>2, <3>3, <3>5, <3>6 DEF Copy
    <3> QED
      BY <1>5, <3>1, <3>4, <3>7, ReadStep DEF GetNode, IInv, ListedHeld, Running
  <2> QED
    BY <1>5, <2>3, <2>4 DEF GetNode
<1>6. CASE UpdateConflicts
  <2>1. step = "label"
    BY <1>6 DEF UpdateConflicts, IInv
  <2>2. ScanTypes' /\ HeldTrue' /\ step' # "down"
    BY <1>6, LocalsTypes DEF UpdateConflicts, Steps, Locals
  <2>3. unsynced = 0
    BY <2>1 DEF IInv, ListedHeld, Running
  <2> QED
    BY <1>6, <2>1, <2>2, <2>3, ReadStep DEF UpdateConflicts
<1>7. CASE UpdateNode
  <2>1. step = "label" /\ Labelled(machines)
    BY <1>7 DEF UpdateNode, IInv
  <2>2. ScanTypes' /\ held' = None /\ step' \in {"idle", "label"}
    BY <2>1 DEF Labelled, ScanTypes, Steps, IInv, TypeOK
  <2> QED
    BY <1>7, <2>2, UpdateInv DEF UpdateNode, IInv, TypeOK
<1> QED
  BY <1>1, <1>2, <1>3, <1>4, <1>5, <1>6, <1>7 DEF LoopStep

LEMMA CallFailsInv == IInv /\ CallFails => IInv'
<1> SUFFICES ASSUME IInv, CallFails PROVE IInv'
  OBVIOUS
<1>1. /\ UNCHANGED <<fixed, fabricOf>> /\ upsets' \in 0 .. MaxUpsets
      /\ Locals("idle")
      /\ step \in {"machines", "label"}
  BY MaxUpsetsAssumption DEF CallFails, Upset, IInv, TypeOK, HeldTrue
<1>2. ScanTypes' /\ HeldTrue' /\ held' = None /\ step' = "idle"
  BY <1>1, LocalsTypes DEF Locals, Steps
<1>3. CASE UNCHANGED <<apiServer, informers>>
  <2>1. Kept' /\ Listed'
    BY <1>1, <1>3, Unchanged DEF IInv, ListedHeld
  <2>2. ListedHeld'
    BY <1>1, <1>3, <2>1 DEF IInv, ListedHeld, Running, informers
  <2>3. World'
    BY <1>1, WorldKept DEF IInv, TypeOK
  <2> QED
    BY <1>2, <2>1, <2>2, <2>3, Parts
<1>4. CASE held # None /\ Current /\ Update
  BY <1>1, <1>2, <1>4, UpdateInv
<1> QED
  BY <1>3, <1>4 DEF CallFails

(* A change of a node by someone else. *)
LEMMA OtherStoreInv ==
  ASSUME IInv, NEW n \in Nodes, NEW object \in Object \cup {Absent}, Store(n, object),
         UNCHANGED <<fixed, fabricOf, scan>>, upsets' \in 0 .. MaxUpsets
  PROVE  IInv'
<1>1. UNCHANGED <<step, pending, uuids, machines, held>>
  BY DEF scan
<1>2. /\ Kept'
      /\ step # "down" => Listed'
      /\ unsynced' = unsynced
      /\ version' = version + 1
      /\ \A m \in Nodes \ {n} : nodes'[m] = nodes[m]
      /\ nodes'[n] # Absent => nodes'[n].version = version + 1
  BY StoreKept, Zenon
<1>3. ScanTypes'
  BY <1>1 DEF IInv, TypeOK, ScanTypes
<1>4. HeldTrue'
  <2> SUFFICES ASSUME held # None
               PROVE  /\ step = "label"
                      /\ held.object.version <= version'
                      /\ nodes'[held.node] # Absent /\ nodes'[held.node].version = held.object.version =>
                            /\ nodes'[held.node].other = held.object.other
                            /\ nodes'[held.node].providerID = held.object.providerID
    BY <1>1 DEF HeldTrue
  <2>1. /\ held.node \in Nodes
        /\ held.object.version \in Nat
        /\ version \in Nat
    BY DEF IInv, TypeOK, Object
  <2>2. held.object.version <= version /\ step = "label"
    BY DEF IInv, HeldTrue
  <2>3. CASE held.node = n
    BY <1>2, <2>1, <2>2, <2>3
  <2>4. CASE held.node # n
    BY <1>2, <2>1, <2>2, <2>4 DEF IInv, HeldTrue
  <2> QED
    BY <2>3, <2>4
<1>5. ListedHeld'
  BY <1>1, <1>2 DEF IInv, ListedHeld, Running
<1>6. World'
  BY WorldKept DEF IInv, TypeOK
<1> QED
  BY <1>2, <1>3, <1>4, <1>5, <1>6, Parts

LEMMA OtherWritesInv == IInv /\ OtherWrites => IInv'
<1> SUFFICES ASSUME IInv, OtherWrites PROVE IInv'
  OBVIOUS
<1>1. PICK n \in Existing, l \in OtherLabels : Store(n, [nodes[n] EXCEPT !.other = l])
  BY DEF OtherWrites
<1>2. n \in Nodes /\ [nodes[n] EXCEPT !.other = l] \in Object
  BY DEF Existing, IInv, TypeOK, Object
<1>3. upsets' \in 0 .. MaxUpsets
  BY MaxUpsetsAssumption DEF OtherWrites, Upset, IInv, TypeOK
<1> QED
  BY <1>1, <1>2, <1>3, OtherStoreInv DEF OtherWrites

LEMMA NodeChangesInv == IInv /\ NodeChanges => IInv'
<1> SUFFICES ASSUME IInv, NodeChanges PROVE IInv'
  OBVIOUS
<1>1. upsets' \in 0 .. MaxUpsets
  BY MaxUpsetsAssumption DEF NodeChanges, Upset, IInv, TypeOK
<1>2. \E n \in Nodes : \E object \in Object \cup {Absent} : Store(n, object)
  <2>1. PICK n \in Nodes :
          \/ \E p \in ProviderIDs \cup {None}, l \in OtherLabels :
                Store(n, [version |-> 0, providerID |-> p, fabric |-> None, other |-> l])
          \/ \E p \in ProviderIDs :
                nodes[n] # Absent /\ Store(n, [nodes[n] EXCEPT !.providerID = p])
          \/ Store(n, Absent)
    BY DEF NodeChanges
  <2>2. \A p \in ProviderIDs \cup {None}, l \in OtherLabels :
          [version |-> 0, providerID |-> p, fabric |-> None, other |-> l] \in Object
    BY DEF Object
  <2>3. nodes[n] # Absent => \A p \in ProviderIDs : [nodes[n] EXCEPT !.providerID = p] \in Object
    BY DEF IInv, TypeOK, Object
  <2> QED
    BY <2>1, <2>2, <2>3
<1> QED
  BY <1>1, <1>2, OtherStoreInv DEF NodeChanges

LEMMA NextIInv == IInv /\ [Next]_vars => IInv'
<1> SUFFICES ASSUME IInv, [Next]_vars PROVE IInv'
  OBVIOUS
<1>1. CASE Crash
  BY <1>1, CrashedInv, MaxUpsetsAssumption DEF Crash, Upset, IInv, TypeOK
<1>2. CASE FabricChanges
  <2>1. /\ fabricOf' \in [ProviderIDs -> Fabrics \cup {None}]
        /\ upsets' \in 0 .. MaxUpsets
        /\ UNCHANGED <<apiServer, fixed, informers>>
        /\ UNCHANGED <<step, pending, uuids, machines, held>>
    BY <1>2, MaxUpsetsAssumption DEF FabricChanges, Upset, IInv, TypeOK, scan
  <2>2. Kept' /\ (Listed => Listed')
    BY <2>1, Unchanged
  <2>3. ScanTypes' /\ HeldTrue' /\ ListedHeld'
    BY <2>1, <2>2 DEF IInv, TypeOK, ScanTypes, HeldTrue, ListedHeld, Running, apiServer, informers
  <2> QED
    BY <2>1, <2>2, <2>3, WorldKept, Parts
<1>3. CASE UNCHANGED vars
  <2>1. UNCHANGED <<apiServer, fixed, fabricOf, upsets, informers>>
    BY <1>3 DEF vars
  <2>2. UNCHANGED <<step, pending, uuids, machines, held>>
    BY <1>3 DEF vars, scan
  <2>3. Kept' /\ (Listed => Listed')
    BY <2>1, Unchanged
  <2>4. ScanTypes' /\ HeldTrue' /\ ListedHeld'
    BY <2>1, <2>2, <2>3 DEF IInv, TypeOK, ScanTypes, HeldTrue, ListedHeld, Running, apiServer, informers
  <2>5. World'
    BY <2>1, WorldKept DEF IInv, TypeOK
  <2> QED
    BY <2>3, <2>4, <2>5, Parts
<1> QED
  BY <1>1, <1>2, <1>3, StartInformersInv, DeliverNodeInv, DeliverHostInv, LoopStepInv,
     CallFailsInv, OtherWritesInv, NodeChangesInv DEF Next

(* The inductive invariant holds in every reachable state. *)
THEOREM Invariance == Spec => []IInv
<1>1. Init => IInv
  BY InitIInv
<1>2. IInv /\ [Next]_vars => IInv'
  BY NextIInv
<1> QED
  BY <1>1, <1>2, PTL DEF Spec

-----------------------------------------------------------------------------
(* Every variable keeps its type; no scan labels a node with no fabric. *)
THEOREM CacheTypeCorrect == Spec => []TypeOK
<1>1. IInv => TypeOK
  BY DEF IInv
<1> QED
  BY <1>1, Invariance, PTL

(* Every life of the process scans only when its cache has every node that *)
(* was there at its start and has not changed since.                       *)
THEOREM NoNodeMissed == Spec => []ScansKnowNodes
<1>1. IInv => ScansKnowNodes
  BY DEF IInv, TypeOK, ListedHeld, Listed, ScansKnowNodes, Running, Existing
<1> QED
  BY <1>1, Invariance, PTL

(* An update from a stale copy never undoes a change of another writer and *)
(* never revives or mistakes a node.                                       *)
THEOREM NoUpdateLost == Spec => OthersKept
<1> DEFINE Spared == \A n \in Nodes :
              IF nodes[n] = Absent THEN nodes'[n] = Absent
              ELSE /\ nodes'[n] # Absent
                   /\ nodes'[n].other = nodes[n].other
                   /\ nodes'[n].providerID = nodes[n].providerID
<1>1. ASSUME IInv, [Next]_vars, held # None, held' = None
      PROVE  Spared
  <2>1. CASE UNCHANGED apiServer
    BY <2>1 DEF apiServer
  <2>2. CASE UpdateNode
    <3>1. step = "label" /\ Labelled(machines)
      BY <1>1, <2>2 DEF UpdateNode, IInv, HeldTrue
    <3>2. ScanTypes' /\ held' = None /\ step' \in {"idle", "label"}
      BY <1>1, <3>1 DEF Labelled, ScanTypes, Steps, IInv, TypeOK
    <3> QED
      BY <1>1, <2>2, <3>2, UpdateInv DEF UpdateNode, IInv, TypeOK
  <2>3. CASE CallFails
    <3>1. ScanTypes' /\ held' = None /\ step' = "idle"
      BY <2>3, LocalsTypes DEF CallFails, Locals, Steps
    <3>2. /\ UNCHANGED <<fixed, fabricOf>> /\ upsets' \in 0 .. MaxUpsets
          /\ UNCHANGED apiServer \/ (Current /\ Update)
      BY <1>1, <2>3, MaxUpsetsAssumption DEF CallFails, Upset, IInv, TypeOK
    <3> QED
      BY <1>1, <2>1, <3>1, <3>2, UpdateInv
  <2>4. ~OtherWrites /\ ~NodeChanges
    BY <1>1 DEF OtherWrites, NodeChanges, scan
  <2> QED
    BY <1>1, <2>1, <2>2, <2>3, <2>4
       DEF Next, LoopStep, StartInformers, DeliverNode, DeliverHost, Run, ListProviderIDs,
           FindByProviderID, getMachineList, GetNode, UpdateConflicts, Crash, FabricChanges, vars
<1>2. IInv /\ [Next]_vars => [held # None /\ held' = None => Spared]_vars
  BY <1>1
<1> QED
  BY <1>2, Invariance, PTL DEF Spec, OthersKept
=============================================================================
