----------------------------- MODULE MCStartup -----------------------------
(***************************************************************************)
(* A small instance of Startup: any options in a cluster that has what is  *)
(* needed, and sound options in a cluster in which that is still edited.   *)
(***************************************************************************)
EXTENDS Startup

Entry(i, m, n, d, w) ==
    [index |-> i, cdiModelName |-> m, k8sDeviceName |-> n, driverName |-> d, wellFormed |-> w]

(* Two sound models, one that clashes with both, and one that is no model. *)
MCDeviceInfos ==
    {Entry(1, "A100", "a100", "gpu", TRUE), Entry(2, "H100", "h100", "gpu", TRUE),
     Entry(2, "L40", "a100", "nic", TRUE), Entry(3, "T4", "t4", "gpu", FALSE)}

InPlace ==
    /\ upsets = MaxUpsets
    /\ configMap \in {c \in ConfigMap : c.prefix = "good" /\ c.devices # None}
    /\ secret = "right"
    /\ bmh = "served"
    /\ dra = TRUE

Sound(f) ==
    /\ ~f.args
    /\ f.scanInterval = "unset"
    /\ f.tenantID = "good" /\ f.clusterID = "good" /\ f.cdiEndpoint = "good"

NotYet ==
    /\ upsets = 0
    /\ configMap = Absent
    /\ secret \in {Absent, "right"}
    /\ dra = TRUE
    /\ flags \in {f \in Flags : Sound(f) /\ ~f.useCM}

(* The first may not be upset, the second MaxUpsets times. *)
MCInit == (InPlace \/ NotYet) /\ Init

MCSpec == MCInit /\ [][Next]_vars /\ Fairness
=============================================================================
