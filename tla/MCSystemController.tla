------------------------- MODULE MCSystemController -------------------------
(* Small instances of SystemController for TLC. *)
EXTENDS SystemController, TLC
=============================================================================
