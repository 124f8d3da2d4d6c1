----------------------------- MODULE MCMsgQueue -----------------------------
(* Small instance of MsgQueue for TLC. *)
EXTENDS MsgQueue
=============================================================================
