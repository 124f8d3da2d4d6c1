----------------------------- MODULE BoundedFifo -----------------------------
(***************************************************************************)
(* What osapi::BasicMsgQueue promises its users: a FIFO buffer of at most  *)
(* maxSize items.  A send is one indivisible append, possible only while   *)
(* there is room; a receive is one indivisible removal of the oldest item. *)
(* Nothing here mentions the mutex, the two condition variables or the     *)
(* retry loops of the implementation: MsgQueue.tla shows that they add     *)
(* nothing and lose nothing.                                               *)
(*                                                                         *)
(* Producer p's k-th item is <<p, k>>, so that a lost, duplicated or       *)
(* overtaken item can be told from every other one.                        *)
(***************************************************************************)
EXTENDS Naturals, Sequences

CONSTANTS Producers, maxSize, MaxSends

VARIABLES
    buffer,      \* the items accepted and not yet handed out, oldest first
    accepted,    \* accepted[p]: how many items of p the queue has taken
    delivered    \* every item handed out so far, in the order of removal

vars == <<buffer, accepted, delivered>>

Item == Producers \X (1..MaxSends)

Init ==
    /\ buffer = <<>>
    /\ accepted = [p \in Producers |-> 0]
    /\ delivered = <<>>

Put(p) ==
    /\ Len(buffer) < maxSize
    /\ accepted[p] < MaxSends
    /\ buffer' = Append(buffer, <<p, accepted[p] + 1>>)
    /\ accepted' = [accepted EXCEPT ![p] = @ + 1]
    /\ UNCHANGED delivered

Take ==
    /\ buffer # <<>>
    /\ delivered' = Append(delivered, Head(buffer))
    /\ buffer' = Tail(buffer)
    /\ UNCHANGED accepted

Next == Take \/ \E p \in Producers : Put(p)

Spec == Init /\ [][Next]_vars
=============================================================================
