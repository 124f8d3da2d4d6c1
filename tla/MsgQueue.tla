------------------------------ MODULE MsgQueue ------------------------------
(***************************************************************************)
(* osapi::BasicMsgQueue (inc/osapi/MsgQueue.hpp): a bounded queue shared   *)
(* by threads, guarded by one mutex mut_ and two condition variables:      *)
(* writer_ (senders waiting for room) and reader_ (receivers waiting for   *)
(* an item).  Every queue of the system is one of these: the command queue *)
(* of the CommandController, the log queue, the queues timers post to.     *)
(*                                                                         *)
(* One action is one statement of send() or receive() between which        *)
(* another thread can run.  pthread_cond_wait releases the mutex and joins *)
(* the wait set in one step, may return without a signal, and re-acquires  *)
(* the mutex before it returns.                                            *)
(***************************************************************************)
EXTENDS Naturals, Sequences, FiniteSets

CONSTANTS
    Producers,    \* threads that call send()
    Consumers,    \* threads that call receive() in a loop
    maxSize,      \* the constructor's argument
    NoThread,     \* mut_ is free
    MaxSends,     \* bound: calls of send() per producer
    MaxSpurious   \* bound: wake-ups without a signal, per thread

Threads == Producers \cup Consumers

ASSUME ThreadsAssumption ==
    /\ IsFiniteSet(Producers) /\ IsFiniteSet(Consumers)
    /\ Producers \cap Consumers = {}
    /\ NoThread \notin Threads

\* A queue made with maxSize 0 is full and empty at once and serves nobody.
ASSUME MaxSizeAssumption == maxSize \in Nat \ {0}

ASSUME BoundsAssumption == MaxSends \in Nat /\ MaxSpurious \in Nat

VARIABLES
    queue_,      \* the deque
    mut_,        \* the thread that holds the mutex, or NoThread
    reader_,     \* threads asleep on reader_
    writer_,     \* threads asleep on writer_
    pc,          \* where each thread is in send() or receive()
    sent,        \* sent[p]: items p has pushed
    delivered,   \* history: every popped item, in the order of popping
    spurious     \* spurious[t]: wake-ups without a signal so far

vars == <<queue_, mut_, reader_, writer_, pc, sent, delivered, spurious>>

Item == Producers \X (1..MaxSends)

\* Program counters.  "idle": outside the queue.  s_: in send, r_: in receive.
SendPcs == {"idle", "s_test", "s_wait", "s_unlock", "s_signal"}
ReceivePcs == {"idle", "r_test", "r_wait", "r_signal", "r_unlock"}

\* Statements executed with the mutex held.
Critical == {"s_test", "s_unlock", "r_test", "r_signal", "r_unlock"}

Goto(t, l) == pc' = [pc EXCEPT ![t] = l]

Init ==
    /\ queue_ = <<>>
    /\ mut_ = NoThread
    /\ reader_ = {}
    /\ writer_ = {}
    /\ pc = [t \in Threads |-> "idle"]
    /\ sent = [p \in Producers |-> 0]
    /\ delivered = <<>>
    /\ spurious = [t \in Threads |-> 0]

-----------------------------------------------------------------------------
(* osapi::Mutex and osapi::Conditional *)

Lock(t) == mut_ = NoThread /\ mut_' = t

Unlock(t) == mut_ = t /\ mut_' = NoThread

\* Conditional::signal: some sleeper, if there is one, is woken.
Signal(asleep) == IF asleep = {} THEN {{}} ELSE {asleep \ {t} : t \in asleep}

\* A wake-up with no signal: pthread_cond_wait is allowed to return.
Spurious(t) ==
    /\ t \in reader_ \cup writer_
    /\ spurious[t] < MaxSpurious
    /\ spurious' = [spurious EXCEPT ![t] = @ + 1]
    /\ reader_' = reader_ \ {t}
    /\ writer_' = writer_ \ {t}
    /\ UNCHANGED <<queue_, mut_, pc, sent, delivered>>

-----------------------------------------------------------------------------
(* void send(unsigned long id, M m) *)

SendLock(p) ==
    /\ pc[p] = "idle"
    /\ sent[p] < MaxSends
    /\ Lock(p)
    /\ Goto(p, "s_test")
    /\ UNCHANGED <<queue_, reader_, writer_, sent, delivered, spurious>>

\* while(queue_.size() == maxSize_) writer_.wait(mut_);
SendWait(p) ==
    /\ pc[p] = "s_test"
    /\ Len(queue_) = maxSize
    /\ writer_' = writer_ \cup {p}
    /\ Unlock(p)
    /\ Goto(p, "s_wait")
    /\ UNCHANGED <<queue_, reader_, sent, delivered, spurious>>

\* Mutant: "if" for "while", the woken sender pushes without a second test.
SendWakeNoRetest(p) ==
    /\ pc[p] = "s_wait"
    /\ p \notin writer_
    /\ Lock(p)
    /\ queue_' = Append(queue_, <<p, sent[p] + 1>>)
    /\ sent' = [sent EXCEPT ![p] = @ + 1]
    /\ Goto(p, "s_unlock")
    /\ UNCHANGED <<reader_, writer_, delivered, spurious>>

\* wait() returns, the mutex held again: the condition is tested again.
SendWake(p) ==
    /\ pc[p] = "s_wait"
    /\ p \notin writer_
    /\ Lock(p)
    /\ Goto(p, "s_test")
    /\ UNCHANGED <<queue_, reader_, writer_, sent, delivered, spurious>>

\* queue_.push_back(Item(id, m));
SendPush(p) ==
    /\ pc[p] = "s_test"
    /\ Len(queue_) # maxSize
    /\ queue_' = Append(queue_, <<p, sent[p] + 1>>)
    /\ sent' = [sent EXCEPT ![p] = @ + 1]
    /\ Goto(p, "s_unlock")
    /\ UNCHANGED <<mut_, reader_, writer_, delivered, spurious>>

SendUnlock(p) ==
    /\ pc[p] = "s_unlock"
    /\ Unlock(p)
    /\ Goto(p, "s_signal")
    /\ UNCHANGED <<queue_, reader_, writer_, sent, delivered, spurious>>

\* Mutant: signal only for the first item of a queue that was empty.
SendSignalIfFirst(p) ==
    /\ pc[p] = "s_signal"
    /\ reader_' \in IF Len(queue_) = 1 THEN Signal(reader_) ELSE {reader_}
    /\ Goto(p, "idle")
    /\ UNCHANGED <<queue_, mut_, writer_, sent, delivered, spurious>>

\* Mutant: the wrong condition variable.
SendSignalsWriter(p) ==
    /\ pc[p] = "s_signal"
    /\ writer_' \in Signal(writer_)
    /\ Goto(p, "idle")
    /\ UNCHANGED <<queue_, mut_, reader_, sent, delivered, spurious>>

\* reader_.signal(), after the mutex is gone.
SendSignal(p) ==
    /\ pc[p] = "s_signal"
    /\ reader_' \in Signal(reader_)
    /\ Goto(p, "idle")
    /\ UNCHANGED <<queue_, mut_, writer_, sent, delivered, spurious>>

-----------------------------------------------------------------------------
(* M receive(unsigned long& id) *)

ReceiveLock(c) ==
    /\ pc[c] = "idle"
    /\ Lock(c)
    /\ Goto(c, "r_test")
    /\ UNCHANGED <<queue_, reader_, writer_, sent, delivered, spurious>>

\* while(queue_.size() == 0) reader_.wait(mut_);
ReceiveWait(c) ==
    /\ pc[c] = "r_test"
    /\ Len(queue_) = 0
    /\ reader_' = reader_ \cup {c}
    /\ Unlock(c)
    /\ Goto(c, "r_wait")
    /\ UNCHANGED <<queue_, writer_, sent, delivered, spurious>>

ReceiveWake(c) ==
    /\ pc[c] = "r_wait"
    /\ c \notin reader_
    /\ Lock(c)
    /\ Goto(c, "r_test")
    /\ UNCHANGED <<queue_, reader_, writer_, sent, delivered, spurious>>

\* Mutant: the newest item leaves first.
ReceivePopBack(c) ==
    /\ pc[c] = "r_test"
    /\ Len(queue_) # 0
    /\ delivered' = Append(delivered, queue_[Len(queue_)])
    /\ queue_' = SubSeq(queue_, 1, Len(queue_) - 1)
    /\ Goto(c, "r_signal")
    /\ UNCHANGED <<mut_, reader_, writer_, sent, spurious>>

\* Mutant: front() without pop_front() when it is the last item.
ReceivePopKeepsLast(c) ==
    /\ pc[c] = "r_test"
    /\ Len(queue_) # 0
    /\ delivered' = Append(delivered, Head(queue_))
    /\ queue_' = IF Len(queue_) = 1 THEN queue_ ELSE Tail(queue_)
    /\ Goto(c, "r_signal")
    /\ UNCHANGED <<mut_, reader_, writer_, sent, spurious>>

\* Item i = queue_.front(); queue_.pop_front();
ReceivePop(c) ==
    /\ pc[c] = "r_test"
    /\ Len(queue_) # 0
    /\ delivered' = Append(delivered, Head(queue_))
    /\ queue_' = Tail(queue_)
    /\ Goto(c, "r_signal")
    /\ UNCHANGED <<mut_, reader_, writer_, sent, spurious>>

\* Mutant: signal only when the queue was full before the pop.
ReceiveSignalIfFull(c) ==
    /\ pc[c] = "r_signal"
    /\ writer_' \in IF Len(queue_) = maxSize - 1 THEN Signal(writer_) ELSE {writer_}
    /\ Goto(c, "r_unlock")
    /\ UNCHANGED <<queue_, mut_, reader_, sent, delivered, spurious>>

\* Mutant: the wrong condition variable.
ReceiveSignalsReader(c) ==
    /\ pc[c] = "r_signal"
    /\ reader_' \in Signal(reader_)
    /\ Goto(c, "r_unlock")
    /\ UNCHANGED <<queue_, mut_, writer_, sent, delivered, spurious>>

\* writer_.signal(), the mutex still held.
ReceiveSignal(c) ==
    /\ pc[c] = "r_signal"
    /\ writer_' \in Signal(writer_)
    /\ Goto(c, "r_unlock")
    /\ UNCHANGED <<queue_, mut_, reader_, sent, delivered, spurious>>

ReceiveUnlock(c) ==
    /\ pc[c] = "r_unlock"
    /\ Unlock(c)
    /\ Goto(c, "idle")
    /\ UNCHANGED <<queue_, reader_, writer_, sent, delivered, spurious>>

-----------------------------------------------------------------------------
Send(p) ==
    \/ SendLock(p) \/ SendWait(p) \/ SendWake(p)
    \/ SendPush(p) \/ SendUnlock(p) \/ SendSignal(p)

Receive(c) ==
    \/ ReceiveLock(c) \/ ReceiveWait(c) \/ ReceiveWake(c)
    \/ ReceivePop(c) \/ ReceiveSignal(c) \/ ReceiveUnlock(c)

\* Nothing left to do: every bounded send is over, every receiver sleeps.
Quiescent ==
    /\ \A p \in Producers : pc[p] = "idle" /\ sent[p] = MaxSends
    /\ \A c \in Consumers : c \in reader_
    /\ queue_ = <<>>

Idle == Quiescent /\ UNCHANGED vars

Next ==
    \/ \E p \in Producers : Send(p)
    \/ \E c \in Consumers : Receive(c)
    \/ \E t \in Threads : Spurious(t)
    \/ Idle

Spec == Init /\ [][Next]_vars

\* The kernel keeps running every thread that can run; no fairness is asked
\* of spurious wake-ups.
FairSpec ==
    /\ Spec
    /\ \A p \in Producers : WF_vars(Send(p))
    /\ \A c \in Consumers : WF_vars(Receive(c))

-----------------------------------------------------------------------------
(* Properties *)

\* Every variable has its type: the deque holds at most maxSize_ items, a thread is asleep on reader_ only inside the
\* wait of receive(), on writer_ only inside the wait of send().
TypeOK ==
    /\ queue_ \in Seq(Item) /\ Len(queue_) <= maxSize
    /\ mut_ \in Threads \cup {NoThread}
    /\ reader_ \subseteq {c \in Consumers : pc[c] = "r_wait"}
    /\ writer_ \subseteq {p \in Producers : pc[p] = "s_wait"}
    /\ pc \in [Threads -> SendPcs \cup ReceivePcs]
    /\ \A p \in Producers : pc[p] \in SendPcs
    /\ \A c \in Consumers : pc[c] \in ReceivePcs
    /\ sent \in [Producers -> 0..MaxSends]
    /\ delivered \in Seq(Item)
    /\ spurious \in [Threads -> 0..MaxSpurious]

\* The loops, the mutex and the signals implement an indivisible bounded FIFO:
\* no step of send() or receive() is visible except the push and the pop, the
\* deque never outgrows maxSize_, and items leave in the order of the pushes.
Fifo == INSTANCE BoundedFifo WITH buffer <- queue_, accepted <- sent
RefinesFifo == Fifo!Spec

\* Every item a producer pushed is in the queue or was received, once, and
\* nobody overtakes: the items of one producer leave in the order it sent them.
ExactlyOnceInOrder ==
    LET log == delivered \o queue_ IN
    /\ \A p \in Producers : \A k \in 1..sent[p] :
            \E i \in 1..Len(log) : log[i] = <<p, k>>
    /\ \A i \in 1..Len(log) : log[i][2] <= sent[log[i][1]]
    /\ \A i, j \in 1..Len(log) :
            i < j /\ log[i][1] = log[j][1] => log[i][2] < log[j][2]

\* Senders that pushed and have not signalled yet; receivers that will look at
\* the queue again without any further signal.
Signalling == {p \in Producers : pc[p] \in {"s_unlock", "s_signal"}}
AwakeReaders ==
    {c \in Consumers : pc[c] = "r_test" \/ (pc[c] = "r_wait" /\ c \notin reader_)}

\* No lost wake-up for receivers, although send() signals after it unlocked:
\* while somebody sleeps on reader_, every queued item has a signal under way
\* or a receiver awake for it.
NoItemForgotten ==
    reader_ # {} =>
        Len(queue_) <= Cardinality(Signalling) + Cardinality(AwakeReaders)

\* Receivers that popped and have not signalled yet; senders that will look at
\* the queue again without any further signal.
FreeingRoom == {c \in Consumers : pc[c] = "r_signal"}
AwakeWriters ==
    {p \in Producers : pc[p] = "s_test" \/ (pc[p] = "s_wait" /\ p \notin writer_)}

\* No lost wake-up for senders: while somebody sleeps on writer_, every free
\* slot has a signal under way or a sender awake for it.
NoRoomForgotten ==
    writer_ # {} =>
        maxSize - Len(queue_) <= Cardinality(FreeingRoom) + Cardinality(AwakeWriters)

\* A call of send() that has begun returns, even if the queue was full: some
\* receiver makes room and its signal reaches the sender.
EverySendReturns == \A p \in Producers : pc[p] # "idle" ~> pc[p] = "idle"

\* Every item pushed is received: no receiver sleeps through it.
EveryItemReceived ==
    \A x \in Item :
        sent[x[1]] >= x[2] ~> \E i \in 1..Len(delivered) : delivered[i] = x
=============================================================================
