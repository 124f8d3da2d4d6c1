-------------------------- MODULE MCFoodgiverServer --------------------------
(* Small instances of FoodgiverServer for TLC. *)
EXTENDS FoodgiverServer, TLC

\* A short number, and one of 9 digits: "auth" reads 7 of them, an answer all,
\* which is above the instances' IntMax.
MCNumbers == {<<4, 2, 0>>, <<1, 2, 3, 4, 5, 6, 7, 8, 9>>}
=============================================================================
