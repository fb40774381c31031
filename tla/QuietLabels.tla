---------------------------- MODULE QuietLabels ----------------------------
(***************************************************************************)
(* What one scan achieves on caches that have caught up when nothing comes *)
(* between its steps: the safety side of EventuallyLabelled, as an         *)
(* invariant.  QuietScans has the like of the scans of ResourcePoolLoop.   *)
(*                                                                         *)
(* The two variables are history: they remember whether something was      *)
(* upset, and allow and forbid no step of NodeCache.                       *)
(***************************************************************************)
EXTENDS NodeCache

VARIABLES
    quiet,      \* nothing was upset since the scan under way began, on
                \* caches that had caught up
    settled     \* nothing was upset since some such scan began that has ended

quietVars == <<vars, quiet, settled>>

QuietInit == Init /\ quiet = FALSE /\ settled = FALSE

(* The caches show what is there, and nothing is on its way. *)
CaughtUp == news = << >> /\ cache = nodes /\ (UseCapiBmh => hostCache = hosts)

ScanEndsNow == step # "idle" /\ step' = "idle"

History ==
    /\ quiet' = (upsets' = upsets /\ IF step = "idle" THEN CaughtUp ELSE quiet)
    /\ settled' = (upsets' = upsets /\ (settled \/ (quiet /\ ScanEndsNow)))

(* Next with its history, action by action. *)
QuietNext ==
    \/ StartInformers /\ History
    \/ DeliverNode /\ History
    \/ DeliverHost /\ History
    \/ Run /\ History
    \/ ListProviderIDs /\ History
    \/ \E p \in ProviderIDs : FindByProviderID(p) /\ History
    \/ getMachineList /\ History
    \/ \E m \in machines : GetNode(m) /\ History
    \/ UpdateNode /\ History
    \/ UpdateConflicts /\ History
    \/ CallFails /\ History
    \/ Crash /\ History
    \/ OtherWrites /\ History
    \/ NodeChanges /\ History
    \/ FabricChanges /\ History

QuietSpec == QuietInit /\ [][QuietNext]_quietVars /\ Fairness

-----------------------------------------------------------------------------
(* Properties. *)

(* One such scan is enough, and from then on only an upset can take a      *)
(* label away: not the scans that follow, which begin on caches that do    *)
(* not show the labels yet, write whole old nodes back, meet conflicts and *)
(* are abandoned.                                                          *)
LabelsSettle == settled /\ Scannable => AllLabelled
=============================================================================
