------------------------- MODULE MCDriverLifecycle -------------------------
(***************************************************************************)
(* Small instances of DriverLifecycle: one process that is restarted, and  *)
(* two processes of a rolling update.                                      *)
(***************************************************************************)
EXTENDS DriverLifecycle

CONSTANTS p1, p2, f1, f2, drv1, drv2

MCDriverOf == [m \in Models |-> IF m = 1 THEN drv1 ELSE drv2]
=============================================================================
