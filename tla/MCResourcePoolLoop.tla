------------------------- MODULE MCResourcePoolLoop -------------------------
(***************************************************************************)
(* Small instances of ResourcePoolLoop.  The runs start from one ordinary  *)
(* world each and let MaxUpsets changes and failures of the kinds the run  *)
(* is about happen anywhere in the scans.                                  *)
(***************************************************************************)
EXTENDS ResourcePoolLoop

CONSTANTS n1, n2, u1, u2, f1, f2, drv1, drv2

(* One driver per model, or one driver for all of them. *)
MCDriverOf == [m \in Models |-> IF m = 1 THEN drv1 ELSE drv2]

MCNoSpecs == {<< >>}

(* No resspecs, one for every model, and bounds spread over two of them. *)
MCResSpecs == [m \in Models |-> [model |-> m, min |-> 1, max |-> 2]]
MCSpecLists ==
    {<< >>,
     MCResSpecs,
     <<[model |-> 1, min |-> None, max |-> 3], [model |-> 1, min |-> 2, max |-> None]>>}

(* Both nodes are up; node n1 is machine u1, node n2 machine u2. *)
TwoNodes ==
    /\ nodeStore = [n \in Nodes |-> IF n = n1 THEN u1 ELSE u2]
    /\ bmhStore = [p \in ProviderIDs |-> p]
    /\ free = [f \in Fabrics |-> [m \in Models |-> 1]]

(* The machines share fabric f1, or are on a fabric each. *)
OneFabric == fabricOf = [u \in Machines |-> f1]
TwoFabrics == fabricOf = [u \in Machines |-> IF u = u1 THEN f1 ELSE f2]

(* A group per machine, machine-wide specifications. *)
OwnGroups ==
    /\ members = [g \in Groups |-> IF g = 1 THEN {u1} ELSE {u2}]
    /\ specs = [u \in Machines |-> IF u = u1 THEN MCResSpecs ELSE << >>]
NoGroups ==
    /\ members = [g \in Groups |-> {}]
    /\ specs = [u \in Machines |-> << >>]

InitScan == TwoNodes /\ TwoFabrics /\ NoGroups /\ Init
InitShared == TwoNodes /\ OneFabric /\ OwnGroups /\ Init

MCSpecScan == InitScan /\ [][Next]_vars /\ Fairness
MCSpecShared == InitShared /\ [][Next]_vars /\ Fairness
=============================================================================
