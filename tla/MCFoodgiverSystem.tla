-------------------------- MODULE MCFoodgiverSystem --------------------------
(* Small instances of FoodgiverSystem for TLC. *)
EXTENDS FoodgiverSystem, TLC

\* This feeder's number and another one's.
MCNumbers == {<<4, 2, 0>>, <<4, 2, 1>>}
MCOwnNumber == {<<4, 2, 0>>}
=============================================================================
