---------------------------- MODULE MCFeedingTime ----------------------------
(* Small instances of FeedingTime for TLC. *)
EXTENDS FeedingTime
=============================================================================
