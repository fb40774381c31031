--------------------------- MODULE MCQuietLabels ---------------------------
(***************************************************************************)
(* The instances of MCNodeCache with the history of QuietLabels.           *)
(***************************************************************************)
EXTENDS MCNodeCache, QuietLabels

InitQuietOne == InitOne /\ QuietInit

MCSpecQuietOne == InitQuietOne /\ [][QuietNext]_quietVars /\ Fairness
=============================================================================
