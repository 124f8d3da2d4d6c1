----------------------------- MODULE MCMobileApp -----------------------------
(* Small instances of MobileApp for TLC. *)
EXTENDS MobileApp
=============================================================================
