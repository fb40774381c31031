------------------------------ MODULE PoolView ------------------------------
(***************************************************************************)
(* What the driver promises the readers of its resource pools (the slice   *)
(* controllers and, behind them, the scheduler): a pool that was published *)
(* stays published, its generation starts at 1 and grows by one exactly    *)
(* when its devices change.  A reader that holds two versions of a pool    *)
(* can therefore tell which is newer, and equal generations mean equal     *)
(* devices.  Abstract: nothing is said of scans, machines or failures.     *)
(***************************************************************************)
EXTENDS Integers

CONSTANTS PoolNames, Pool, NoPool

VARIABLE view    \* the pools as their readers see them

Init == view = [p \in PoolNames |-> NoPool]

Appears(p) ==
    /\ view[p] = NoPool
    /\ view'[p] \in Pool
    /\ view'[p].generation = 1

Changes(p) ==
    /\ view[p] # NoPool
    /\ view'[p] \in Pool
    /\ view'[p].devices # view[p].devices
    /\ view'[p].generation = view[p].generation + 1

(* One update shows the readers new versions of any number of pools. *)
Publish ==
    /\ view' \in [PoolNames -> Pool \cup {NoPool}]
    /\ \A p \in PoolNames : view'[p] = view[p] \/ Appears(p) \/ Changes(p)

Spec == Init /\ [][Publish]_view
=============================================================================
