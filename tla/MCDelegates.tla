---------------------------- MODULE MCDelegates ----------------------------
(***************************************************************************)
(* The instances of MCPickup, with the history of PickupDelegates.         *)
(***************************************************************************)
EXTENDS MCPickup, PickupDelegates
=============================================================================
