---------------------------- MODULE MCQuietScans ----------------------------
(***************************************************************************)
(* The instances of MCResourcePoolLoop with the history of QuietScans.     *)
(***************************************************************************)
EXTENDS MCResourcePoolLoop, QuietScans

MCSpecQuietShared == InitShared /\ QuietInit /\ [][QuietNext]_quietVars /\ Fairness
=============================================================================
