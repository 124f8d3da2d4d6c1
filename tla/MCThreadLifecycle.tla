-------------------------- MODULE MCThreadLifecycle --------------------------
(* Small instances of ThreadLifecycle for TLC. *)
EXTENDS ThreadLifecycle
=============================================================================
