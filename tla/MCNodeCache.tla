---------------------------- MODULE MCNodeCache ----------------------------
(***************************************************************************)
(* Small instances of NodeCache: the runs start from one ordinary world    *)
(* each and let MaxUpsets upsets of the run's kinds happen anywhere.       *)
(***************************************************************************)
EXTENDS NodeCache

CONSTANTS n1, n2, u1, u2, f1, f2, mine, yours

(* Two nodes, or one, whose machines share a fabric or are on one each. *)
Fresh(id) == [version |-> 1, providerID |-> id, fabric |-> None, other |-> mine]

TwoNodes == nodes = [n \in Nodes |-> IF n = n1 THEN Fresh(u1) ELSE Fresh(u2)]
OneNode == nodes = [n \in Nodes |-> IF n = n1 THEN Fresh(u1) ELSE Absent]
OneFabric == fabricOf = [p \in ProviderIDs |-> f1]
TwoFabrics == fabricOf = [p \in ProviderIDs |-> IF p = u1 THEN f1 ELSE f2]

InitTwo == TwoNodes /\ OneFabric /\ hosts = ProviderIDs /\ Init
InitOne == OneNode /\ TwoFabrics /\ hosts = ProviderIDs /\ Init

MCSpecTwo == InitTwo /\ [][Next]_vars /\ Fairness
=============================================================================
