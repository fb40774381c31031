----------------------------- MODULE QuietScans -----------------------------
(***************************************************************************)
(* What one scan achieves when nothing comes between its steps: the safety *)
(* side of EventuallyAccurate and EventuallyOwnLimits, as invariants.      *)
(*                                                                         *)
(* The two variables are history: they remember whether something was      *)
(* upset, and allow and forbid no step of the scan loop.                   *)
(***************************************************************************)
EXTENDS ResourcePoolLoop

VARIABLES
    quiet,      \* nothing was upset since the scan under way began
    settled     \* nothing was upset since some scan began that has ended

quietVars == <<vars, quiet, settled>>

QuietInit == Init /\ quiet = FALSE /\ settled = FALSE

ScanEndsNow == scan.step # "idle" /\ scan'.step = "idle"

History ==
    /\ quiet' = (upsets' = upsets /\ (scan.step = "idle" \/ quiet))
    /\ settled' = (upsets' = upsets /\ (settled \/ (quiet /\ ScanEndsNow)))

QuietNext == Next /\ History

QuietSpec == QuietInit /\ [][QuietNext]_quietVars /\ Fairness

-----------------------------------------------------------------------------
(* Properties. *)

(* One scan is enough: after a scan that nothing came between, however it  *)
(* ended, and until something does, labels and pools are accurate. The     *)
(* scan may have found anything: labels and pools of scans that failed     *)
(* half way, pools of an earlier fabric, an order of machines that differs *)
(* from the last; and the scans that follow, each of which writes pools    *)
(* before labels, are not to spoil it at any step.                         *)
ScansSettle == settled /\ Scannable => Accurate

(* The same of the size labels, which each machine of a fabric gets from   *)
(* its own node group, by asking for one machine of each group: though the *)
(* machines of a group differ and every scan may ask another one, no scan  *)
(* nor two of them give a node the limits of two machines.                 *)
LimitsSettle == settled /\ UseCM /\ Scannable => GroupLimits

(* kube_utils.go, line 289, and manager.go, line 474: two nodes with one   *)
(* provider id, or too many free devices on one fabric in use, stop a scan *)
(* of all nodes and fabrics before it publishes anything, whatever it      *)
(* looks up or asks for first.                                             *)
UnscannableUntouched ==
    [][quiet /\ quiet' /\ ~Scannable => UNCHANGED published]_quietVars
=============================================================================
