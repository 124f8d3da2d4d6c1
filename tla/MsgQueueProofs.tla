--------------------------- MODULE MsgQueueProofs ---------------------------
(***************************************************************************)
(* Proofs about MsgQueue, for any sets of producers and consumers, any     *)
(* positive maxSize and any bounds on sends and spurious wake-ups.         *)
(***************************************************************************)
EXTENDS MsgQueue, TLAPS, FiniteSetTheorems, SequenceTheorems

\* The mutex does its work: a thread is at a statement that needs the mutex
\* exactly when it holds it.
LockInv == \A t \in Threads : pc[t] \in Critical <=> mut_ = t

\* Type correctness needs the lock: a push after the test for room stays
\* within maxSize only because nobody else pushes in between.
TypeInv ==
    /\ TypeOK
    /\ LockInv
    /\ \A p \in Producers : pc[p] \in {"s_test", "s_wait"} => sent[p] < MaxSends

LEMMA InitType == Init => TypeInv
  BY ThreadsAssumption, MaxSizeAssumption, BoundsAssumption
  DEF Init, TypeInv, TypeOK, LockInv, Critical, Threads, SendPcs, ReceivePcs

LEMMA SendType ==
  ASSUME TypeInv, NEW p \in Producers, Send(p)
  PROVE  TypeInv'
<1> USE ThreadsAssumption, MaxSizeAssumption, BoundsAssumption
        DEF TypeInv, TypeOK, LockInv, Critical, Threads, SendPcs, ReceivePcs, Item
<1>1. CASE SendLock(p)
  BY <1>1 DEF SendLock, Lock, Goto
<1>2. CASE SendWait(p)
  BY <1>2 DEF SendWait, Unlock, Goto
<1>3. CASE SendWake(p)
  BY <1>3 DEF SendWake, Lock, Goto
<1>4. CASE SendPush(p)
  <2>1. <<p, sent[p] + 1>> \in Item
    BY <1>4 DEF SendPush
  <2>2. queue_' \in Seq(Item) /\ Len(queue_') <= maxSize
    BY <1>4, <2>1 DEF SendPush
  <2> QED
    BY <1>4, <2>2 DEF SendPush, Goto
<1>5. CASE SendUnlock(p)
  BY <1>5 DEF SendUnlock, Unlock, Goto
<1>6. CASE SendSignal(p)
  BY <1>6 DEF SendSignal, Signal, Goto
<1> QED
  BY <1>1, <1>2, <1>3, <1>4, <1>5, <1>6 DEF Send

LEMMA ReceiveType ==
  ASSUME TypeInv, NEW c \in Consumers, Receive(c)
  PROVE  TypeInv'
<1> USE ThreadsAssumption, MaxSizeAssumption, BoundsAssumption
        DEF TypeInv, TypeOK, LockInv, Critical, Threads, SendPcs, ReceivePcs, Item
<1>1. CASE ReceiveLock(c)
  BY <1>1 DEF ReceiveLock, Lock, Goto
<1>2. CASE ReceiveWait(c)
  BY <1>2 DEF ReceiveWait, Unlock, Goto
<1>3. CASE ReceiveWake(c)
  BY <1>3 DEF ReceiveWake, Lock, Goto
<1>4. CASE ReceivePop(c)
  <2>1. /\ queue_' \in Seq(Item) /\ Len(queue_') <= maxSize
        /\ delivered' \in Seq(Item)
    BY <1>4 DEF ReceivePop
  <2> QED
    BY <1>4, <2>1 DEF ReceivePop, Goto
<1>5. CASE ReceiveSignal(c)
  BY <1>5 DEF ReceiveSignal, Signal, Goto
<1>6. CASE ReceiveUnlock(c)
  BY <1>6 DEF ReceiveUnlock, Unlock, Goto
<1> QED
  BY <1>1, <1>2, <1>3, <1>4, <1>5, <1>6 DEF Receive

LEMMA SpuriousType ==
  ASSUME TypeInv, NEW t \in Threads, Spurious(t)
  PROVE  TypeInv'
BY ThreadsAssumption, BoundsAssumption
DEF Spurious, TypeInv, TypeOK, LockInv, Threads

LEMMA NextType ==
  ASSUME TypeInv, [Next]_vars
  PROVE  TypeInv'
<1>1. CASE UNCHANGED vars
  BY <1>1 DEF vars, TypeInv, TypeOK, LockInv
<1>2. CASE Next
  BY <1>1, <1>2, SendType, ReceiveType, SpuriousType DEF Next, Idle
<1> QED
  BY <1>1, <1>2

\* Whatever the threads do, the deque never holds more than maxSize_ items,
\* and sleepers are where send() and receive() put them.
THEOREM TypeCorrect == Spec => []TypeOK
<1>1. Spec => []TypeInv
  BY InitType, NextType, PTL DEF Spec
<1>2. TypeInv => TypeOK
  BY DEF TypeInv
<1> QED
  BY <1>1, <1>2, PTL

-----------------------------------------------------------------------------
(* The abstract queue *)

LEMMA RefineStep ==
  ASSUME TypeInv, [Next]_vars
  PROVE  [Fifo!Next]_(Fifo!vars)
<1> USE DEF Fifo!vars, Fifo!Next
<1>1. CASE UNCHANGED vars
  BY <1>1 DEF vars
<1>2. ASSUME NEW p \in Producers, Send(p)
      PROVE  [Fifo!Next]_(Fifo!vars)
  <2>1. CASE SendPush(p)
    <3>1. Fifo!Put(p)
      BY <2>1, MaxSizeAssumption DEF SendPush, Fifo!Put, TypeInv, TypeOK
    <3> QED
      BY <3>1
  <2> QED
    BY <1>2, <2>1 DEF Send, SendLock, SendWait, SendWake, SendUnlock, SendSignal
<1>3. ASSUME NEW c \in Consumers, Receive(c)
      PROVE  [Fifo!Next]_(Fifo!vars)
  <2>1. CASE ReceivePop(c)
    <3>1. Fifo!Take
      BY <2>1 DEF ReceivePop, Fifo!Take, TypeInv, TypeOK
    <3> QED
      BY <3>1
  <2> QED
    BY <1>3, <2>1 DEF Receive, ReceiveLock, ReceiveWait, ReceiveWake,
                      ReceiveSignal, ReceiveUnlock
<1>4. ASSUME NEW t \in Threads, Spurious(t)
      PROVE  [Fifo!Next]_(Fifo!vars)
  BY <1>4 DEF Spurious
<1> QED
  BY <1>1, <1>2, <1>3, <1>4 DEF Next, Idle

\* send() and receive() implement the indivisible bounded FIFO: the push and
\* the pop are the only steps a user of the queue can observe.
THEOREM Refinement == Spec => RefinesFifo
<1>1. Spec => []TypeInv
  BY InitType, NextType, PTL DEF Spec
<1>2. Init => Fifo!Init
  BY DEF Init, Fifo!Init
<1> QED
  BY <1>1, <1>2, RefineStep, PTL DEF Spec, RefinesFifo, Fifo!Spec

-----------------------------------------------------------------------------
(* Exactly once, in order *)

\* What was and what will be delivered, in order.
Log == delivered \o queue_

LEMMA LogPush ==
  ASSUME TypeInv, NEW p \in Producers, SendPush(p)
  PROVE  /\ Len(Log') = Len(Log) + 1
         /\ Len(Log) \in Nat
         /\ \A i \in 1..Len(Log) : Log'[i] = Log[i]
         /\ Log'[Len(Log) + 1] = <<p, sent[p] + 1>>
BY DEF Log, SendPush, TypeInv, TypeOK

LEMMA LogPop ==
  ASSUME TypeInv, NEW c \in Consumers, ReceivePop(c)
  PROVE  Log' = Log
<1> USE DEF TypeInv, TypeOK, ReceivePop
<1>1. Log \in Seq(Item) /\ Log' \in Seq(Item)
  BY DEF Log
<1>2. Len(Log') = Len(Log)
  BY DEF Log
<1>3. \A i \in 1..Len(Log) : Log'[i] = Log[i]
  BY DEF Log
<1> QED
  BY <1>1, <1>2, <1>3

\* The three parts of ExactlyOnceInOrder, about Log.
LEMMA OrderStep ==
  ASSUME TypeInv, ExactlyOnceInOrder, [Next]_vars
  PROVE  ExactlyOnceInOrder'
<1>1. CASE Log' = Log /\ sent' = sent
  BY <1>1 DEF ExactlyOnceInOrder, Log
<1>2. ASSUME NEW p \in Producers, SendPush(p)
      PROVE  ExactlyOnceInOrder'
  <2> DEFINE n == Len(Log)
  <2>1. /\ n \in Nat /\ Len(Log') = n + 1
        /\ \A i \in 1..n : Log'[i] = Log[i]
        /\ Log'[n + 1] = <<p, sent[p] + 1>>
    BY <1>2, LogPush
  <2>2. /\ sent \in [Producers -> Nat]
        /\ sent' = [sent EXCEPT ![p] = sent[p] + 1]
    BY <1>2, BoundsAssumption DEF SendPush, TypeInv, TypeOK
  <2>3. /\ \A q \in Producers : \A k \in 1..sent[q] : \E i \in 1..n : Log[i] = <<q, k>>
        /\ \A i \in 1..n : Log[i][2] <= sent[Log[i][1]]
        /\ \A i, j \in 1..n : i < j /\ Log[i][1] = Log[j][1] => Log[i][2] < Log[j][2]
    BY DEF ExactlyOnceInOrder, Log
  <2>4. \A i \in 1..n : Log[i] \in Producers \X Nat
    <3>1. Log \in Seq(Item)
      BY DEF Log, TypeInv, TypeOK
    <3> QED
      BY <3>1, BoundsAssumption DEF Item
  <2> HIDE DEF n
  <2>5. \A q \in Producers : \A k \in 1..sent'[q] : \E i \in 1..(n + 1) : Log'[i] = <<q, k>>
    <3> SUFFICES ASSUME NEW q \in Producers, NEW k \in 1..sent'[q]
                 PROVE  \E i \in 1..(n + 1) : Log'[i] = <<q, k>>
      OBVIOUS
    <3>1. CASE k \in 1..sent[q]
      <4>1. PICK i \in 1..n : Log[i] = <<q, k>>
        BY <2>3, <3>1
      <4> QED
        BY <2>1, <4>1
    <3>2. CASE q = p /\ k = sent[p] + 1
      BY <2>1, <3>2
    <3> QED
      BY <2>2, <3>1, <3>2
  <2>6. \A i \in 1..(n + 1) : Log'[i][2] <= sent'[Log'[i][1]]
    <3> SUFFICES ASSUME NEW i \in 1..(n + 1)
                 PROVE  Log'[i][2] <= sent'[Log'[i][1]]
      OBVIOUS
    <3>1. CASE i \in 1..n
      BY <2>1, <2>2, <2>3, <2>4, <3>1
    <3>2. CASE i = n + 1
      BY <2>1, <2>2, <3>2
    <3> QED
      BY <2>1, <3>1, <3>2
  <2>7. \A i, j \in 1..(n + 1) :
           i < j /\ Log'[i][1] = Log'[j][1] => Log'[i][2] < Log'[j][2]
    <3> SUFFICES ASSUME NEW i \in 1..(n + 1), NEW j \in 1..(n + 1),
                        i < j, Log'[i][1] = Log'[j][1]
                 PROVE  Log'[i][2] < Log'[j][2]
      OBVIOUS
    <3>1. CASE j \in 1..n
      BY <2>1, <2>3, <3>1
    <3>2. CASE j = n + 1
      <4>1. i \in 1..n /\ Log'[i] = Log[i]
        BY <2>1, <3>2
      <4>2. Log[i][1] = p
        BY <2>1, <3>2, <4>1
      <4>3. Log[i][2] <= sent[p] /\ Log[i][2] \in Nat
        BY <2>3, <2>4, <4>1, <4>2
      <4> QED
        BY <2>1, <2>2, <3>2, <4>1, <4>3
    <3> QED
      BY <2>1, <3>1, <3>2
  <2> QED
    BY <2>1, <2>5, <2>6, <2>7 DEF ExactlyOnceInOrder, Log
<1>3. ASSUME NEW p \in Producers, Send(p)
      PROVE  ExactlyOnceInOrder'
  <2>1. CASE ~SendPush(p)
    BY <1>1, <1>3, <2>1
    DEF Send, SendLock, SendWait, SendWake, SendUnlock, SendSignal, Log
  <2> QED
    BY <1>2, <2>1
<1>4. ASSUME NEW c \in Consumers, Receive(c)
      PROVE  ExactlyOnceInOrder'
  <2>1. CASE ReceivePop(c)
    BY <1>1, <2>1, LogPop DEF ReceivePop
  <2>2. CASE ~ReceivePop(c)
    BY <1>1, <1>4, <2>2
    DEF Receive, ReceiveLock, ReceiveWait, ReceiveWake, ReceiveSignal, ReceiveUnlock, Log
  <2> QED
    BY <2>1, <2>2
<1>5. CASE (\E t \in Threads : Spurious(t)) \/ Idle \/ UNCHANGED vars
  BY <1>1, <1>5 DEF Spurious, Idle, vars, Log
<1> QED
  BY <1>3, <1>4, <1>5 DEF Next

\* No item is lost, duplicated or overtaken by a later one of its producer,
\* however sends, receives and wake-ups interleave.
THEOREM NothingLost == Spec => []ExactlyOnceInOrder
<1>1. Init => ExactlyOnceInOrder
  <2>1. Init => Len(delivered \o queue_) = 0
    BY DEF Init
  <2> QED
    BY <2>1 DEF Init, ExactlyOnceInOrder
<1> QED
  BY <1>1, InitType, NextType, OrderStep, PTL DEF Spec

-----------------------------------------------------------------------------
(* No lost wake-up *)

LEMMA CountType ==
  ASSUME TypeInv
  PROVE  /\ IsFiniteSet(Signalling) /\ Cardinality(Signalling) \in Nat
         /\ IsFiniteSet(AwakeReaders) /\ Cardinality(AwakeReaders) \in Nat
         /\ IsFiniteSet(FreeingRoom) /\ Cardinality(FreeingRoom) \in Nat
         /\ IsFiniteSet(AwakeWriters) /\ Cardinality(AwakeWriters) \in Nat
<1>1. /\ Signalling \in SUBSET Producers /\ AwakeWriters \in SUBSET Producers
      /\ AwakeReaders \in SUBSET Consumers /\ FreeingRoom \in SUBSET Consumers
  BY DEF Signalling, AwakeWriters, AwakeReaders, FreeingRoom
<1>2. /\ IsFiniteSet(Signalling) /\ IsFiniteSet(AwakeWriters)
      /\ IsFiniteSet(AwakeReaders) /\ IsFiniteSet(FreeingRoom)
  BY <1>1, ThreadsAssumption, FS_Subset
<1> QED
  BY <1>2, FS_CardinalityType

LEMMA CountTypeNext ==
  ASSUME TypeInv'
  PROVE  /\ Cardinality(Signalling') \in Nat /\ Cardinality(AwakeReaders') \in Nat
         /\ Cardinality(FreeingRoom') \in Nat /\ Cardinality(AwakeWriters') \in Nat
<1>1. /\ Signalling' \in SUBSET Producers /\ AwakeWriters' \in SUBSET Producers
      /\ AwakeReaders' \in SUBSET Consumers /\ FreeingRoom' \in SUBSET Consumers
  BY DEF Signalling, AwakeWriters, AwakeReaders, FreeingRoom
<1>2. /\ IsFiniteSet(Signalling') /\ IsFiniteSet(AwakeWriters')
      /\ IsFiniteSet(AwakeReaders') /\ IsFiniteSet(FreeingRoom')
  BY <1>1, ThreadsAssumption, FS_Subset
<1> QED
  BY <1>2, FS_CardinalityType

LEMMA ItemSend ==
  ASSUME TypeInv, NoItemForgotten, NEW p \in Producers, Send(p)
  PROVE  NoItemForgotten'
<1> USE ThreadsAssumption DEF TypeInv, TypeOK, Threads
<1>1. CASE SendPush(p)
  <2>1. /\ Signalling' = Signalling \cup {p} /\ p \notin Signalling
        /\ AwakeReaders' = AwakeReaders /\ reader_' = reader_
    BY <1>1 DEF SendPush, Goto, Signalling, AwakeReaders
  <2>2. Cardinality(Signalling') = Cardinality(Signalling) + 1
    BY <2>1, CountType, FS_AddElement
  <2>3. Len(queue_') = Len(queue_) + 1
    BY <1>1 DEF SendPush
  <2> QED
    BY <2>1, <2>2, <2>3, CountType DEF NoItemForgotten
<1>2. CASE SendSignal(p)
  <2>1. CASE reader_ = {}
    BY <1>2, <2>1 DEF SendSignal, Signal, NoItemForgotten
  <2>2. CASE reader_ # {}
    <3>1. PICK t \in reader_ : reader_' = reader_ \ {t}
      BY <1>2, <2>2 DEF SendSignal, Signal
    <3>2. /\ Signalling' = Signalling \ {p} /\ p \in Signalling
          /\ AwakeReaders' = AwakeReaders \cup {t} /\ t \notin AwakeReaders
      BY <1>2, <3>1 DEF SendSignal, Goto, Signalling, AwakeReaders
    <3>3. /\ Cardinality(Signalling') = Cardinality(Signalling) - 1
          /\ Cardinality(AwakeReaders') = Cardinality(AwakeReaders) + 1
      BY <3>2, CountType, FS_AddElement, FS_RemoveElement
    <3>4. queue_' = queue_
      BY <1>2 DEF SendSignal
    <3> QED
      BY <2>2, <3>3, <3>4, CountType DEF NoItemForgotten
  <2> QED
    BY <2>1, <2>2
<1>3. CASE SendLock(p) \/ SendWait(p) \/ SendWake(p) \/ SendUnlock(p)
  <2>1. /\ Signalling' = Signalling /\ AwakeReaders' = AwakeReaders
        /\ reader_' = reader_ /\ queue_' = queue_
    BY <1>3 DEF SendLock, SendWait, SendWake, SendUnlock, Goto, Signalling, AwakeReaders
  <2> QED
    BY <2>1 DEF NoItemForgotten
<1> QED
  BY <1>1, <1>2, <1>3 DEF Send

LEMMA ItemReceive ==
  ASSUME TypeInv, NoItemForgotten, TypeInv', NEW c \in Consumers, Receive(c)
  PROVE  NoItemForgotten'
<1> USE ThreadsAssumption DEF TypeInv, TypeOK, Threads
<1>1. CASE ReceiveLock(c)
  <2>1. /\ AwakeReaders' = AwakeReaders \cup {c} /\ c \notin AwakeReaders
        /\ Signalling' = Signalling /\ reader_' = reader_ /\ queue_' = queue_
    BY <1>1 DEF ReceiveLock, Goto, Signalling, AwakeReaders
  <2>2. Cardinality(AwakeReaders') = Cardinality(AwakeReaders) + 1
    BY <2>1, CountType, FS_AddElement
  <2> QED
    BY <2>1, <2>2, CountType DEF NoItemForgotten
<1>2. CASE ReceiveWait(c)
  <2>1. Len(queue_') = 0
    BY <1>2 DEF ReceiveWait
  <2>2. Cardinality(Signalling') \in Nat /\ Cardinality(AwakeReaders') \in Nat
    BY CountTypeNext
  <2> QED
    BY <2>1, <2>2 DEF NoItemForgotten
<1>3. CASE ReceivePop(c)
  <2>1. /\ AwakeReaders' = AwakeReaders \ {c} /\ c \in AwakeReaders
        /\ Signalling' = Signalling /\ reader_' = reader_
    BY <1>3 DEF ReceivePop, Goto, Signalling, AwakeReaders
  <2>2. Cardinality(AwakeReaders') = Cardinality(AwakeReaders) - 1
    BY <2>1, CountType, FS_RemoveElement
  <2>3. Len(queue_') = Len(queue_) - 1
    BY <1>3 DEF ReceivePop
  <2> QED
    BY <2>1, <2>2, <2>3, CountType DEF NoItemForgotten
<1>4. CASE ReceiveWake(c) \/ ReceiveSignal(c) \/ ReceiveUnlock(c)
  <2>1. /\ Signalling' = Signalling /\ AwakeReaders' = AwakeReaders
        /\ reader_' = reader_ /\ queue_' = queue_
    BY <1>4 DEF ReceiveWake, ReceiveSignal, ReceiveUnlock, Goto, Signalling, AwakeReaders
  <2> QED
    BY <2>1 DEF NoItemForgotten
<1> QED
  BY <1>1, <1>2, <1>3, <1>4 DEF Receive

LEMMA ItemSpurious ==
  ASSUME TypeInv, NoItemForgotten, NEW t \in Threads, Spurious(t)
  PROVE  NoItemForgotten'
<1> USE ThreadsAssumption DEF TypeInv, TypeOK, Threads, Spurious
<1>1. Signalling' = Signalling /\ queue_' = queue_
  BY DEF Signalling
<1>2. CASE t \in reader_
  <2>1. AwakeReaders' = AwakeReaders \cup {t} /\ t \notin AwakeReaders
    BY <1>2 DEF AwakeReaders
  <2>2. Cardinality(AwakeReaders') = Cardinality(AwakeReaders) + 1
    BY <2>1, CountType, FS_AddElement
  <2> QED
    BY <1>1, <1>2, <2>2, CountType DEF NoItemForgotten
<1>3. CASE t \notin reader_
  <2>1. AwakeReaders' = AwakeReaders /\ reader_' = reader_
    BY <1>3 DEF AwakeReaders
  <2> QED
    BY <1>1, <2>1 DEF NoItemForgotten
<1> QED
  BY <1>2, <1>3

\* A receiver never sleeps through an item: whenever one is asleep, each item
\* in the queue has its signal under way or a receiver awake for it.
THEOREM NoLostItemWakeup == Spec => []NoItemForgotten
<1>1. Init => NoItemForgotten
  BY DEF Init, NoItemForgotten
<1>2. ASSUME TypeInv, NoItemForgotten, [Next]_vars
      PROVE  NoItemForgotten'
  <2>1. TypeInv'
    BY <1>2, NextType
  <2>2. CASE UNCHANGED vars
    <3>1. Signalling' = Signalling /\ AwakeReaders' = AwakeReaders
      BY <2>2 DEF vars, Signalling, AwakeReaders
    <3> QED
      BY <1>2, <2>2, <3>1 DEF vars, NoItemForgotten
  <2> QED
    BY <1>2, <2>1, <2>2, ItemSend, ItemReceive, ItemSpurious DEF Next, Idle
<1> QED
  BY <1>1, <1>2, InitType, NextType, PTL DEF Spec

LEMMA RoomSend ==
  ASSUME TypeInv, NoRoomForgotten, TypeInv', NEW p \in Producers, Send(p)
  PROVE  NoRoomForgotten'
<1>0. Len(queue_) \in Nat /\ maxSize \in Nat
  BY MaxSizeAssumption DEF TypeInv, TypeOK
<1> USE ThreadsAssumption, MaxSizeAssumption DEF TypeInv, TypeOK, Threads
<1>1. CASE SendLock(p)
  <2>1. /\ AwakeWriters' = AwakeWriters \cup {p} /\ p \notin AwakeWriters
        /\ FreeingRoom' = FreeingRoom /\ writer_' = writer_ /\ queue_' = queue_
    BY <1>1 DEF SendLock, Goto, FreeingRoom, AwakeWriters
  <2>2. Cardinality(AwakeWriters') = Cardinality(AwakeWriters) + 1
    BY <2>1, CountType, FS_AddElement
  <2> QED
    <3> HIDE DEF TypeInv, TypeOK
    <3> QED
      BY <1>0, <2>1, <2>2, CountType DEF NoRoomForgotten
<1>2. CASE SendWait(p)
  <2>1. maxSize - Len(queue_') = 0
    BY <1>2 DEF SendWait
  <2> QED
    BY <2>1, CountTypeNext DEF NoRoomForgotten
<1>3. CASE SendPush(p)
  <2>1. /\ AwakeWriters' = AwakeWriters \ {p} /\ p \in AwakeWriters
        /\ FreeingRoom' = FreeingRoom /\ writer_' = writer_
    BY <1>3 DEF SendPush, Goto, FreeingRoom, AwakeWriters
  <2>2. Cardinality(AwakeWriters') = Cardinality(AwakeWriters) - 1
    BY <2>1, CountType, FS_RemoveElement
  <2>3. Len(queue_') = Len(queue_) + 1
    BY <1>3 DEF SendPush
  <2> QED
    <3> HIDE DEF TypeInv, TypeOK
    <3> QED
      BY <1>0, <2>1, <2>2, <2>3, CountType DEF NoRoomForgotten
<1>4. CASE SendWake(p) \/ SendUnlock(p) \/ SendSignal(p)
  <2>1. /\ FreeingRoom' = FreeingRoom /\ AwakeWriters' = AwakeWriters
        /\ writer_' = writer_ /\ queue_' = queue_
    BY <1>4 DEF SendWake, SendUnlock, SendSignal, Goto, FreeingRoom, AwakeWriters
  <2> QED
    BY <2>1 DEF NoRoomForgotten
<1> QED
  BY <1>1, <1>2, <1>3, <1>4 DEF Send

LEMMA RoomReceive ==
  ASSUME TypeInv, NoRoomForgotten, NEW c \in Consumers, Receive(c)
  PROVE  NoRoomForgotten'
<1> USE ThreadsAssumption, MaxSizeAssumption DEF TypeInv, TypeOK, Threads
<1>1. CASE ReceivePop(c)
  <2>1. /\ FreeingRoom' = FreeingRoom \cup {c} /\ c \notin FreeingRoom
        /\ AwakeWriters' = AwakeWriters /\ writer_' = writer_
    BY <1>1 DEF ReceivePop, Goto, FreeingRoom, AwakeWriters
  <2>2. Cardinality(FreeingRoom') = Cardinality(FreeingRoom) + 1
    BY <2>1, CountType, FS_AddElement
  <2>3. Len(queue_') = Len(queue_) - 1
    BY <1>1 DEF ReceivePop
  <2> QED
    BY <2>1, <2>2, <2>3, CountType DEF NoRoomForgotten
<1>2. CASE ReceiveSignal(c)
  <2>1. CASE writer_ = {}
    BY <1>2, <2>1 DEF ReceiveSignal, Signal, NoRoomForgotten
  <2>2. CASE writer_ # {}
    <3>1. PICK t \in writer_ : writer_' = writer_ \ {t}
      BY <1>2, <2>2 DEF ReceiveSignal, Signal
    <3>2. /\ FreeingRoom' = FreeingRoom \ {c} /\ c \in FreeingRoom
          /\ AwakeWriters' = AwakeWriters \cup {t} /\ t \notin AwakeWriters
      BY <1>2, <3>1 DEF ReceiveSignal, Goto, FreeingRoom, AwakeWriters
    <3>3. /\ Cardinality(FreeingRoom') = Cardinality(FreeingRoom) - 1
          /\ Cardinality(AwakeWriters') = Cardinality(AwakeWriters) + 1
      BY <3>2, CountType, FS_AddElement, FS_RemoveElement
    <3>4. queue_' = queue_
      BY <1>2 DEF ReceiveSignal
    <3> QED
      BY <2>2, <3>3, <3>4, CountType DEF NoRoomForgotten
  <2> QED
    BY <2>1, <2>2
<1>3. CASE ReceiveLock(c) \/ ReceiveWait(c) \/ ReceiveWake(c) \/ ReceiveUnlock(c)
  <2>1. /\ FreeingRoom' = FreeingRoom /\ AwakeWriters' = AwakeWriters
        /\ writer_' = writer_ /\ queue_' = queue_
    BY <1>3 DEF ReceiveLock, ReceiveWait, ReceiveWake, ReceiveUnlock, Goto,
                FreeingRoom, AwakeWriters
  <2> QED
    BY <2>1 DEF NoRoomForgotten
<1> QED
  BY <1>1, <1>2, <1>3 DEF Receive

LEMMA RoomSpurious ==
  ASSUME TypeInv, NoRoomForgotten, NEW t \in Threads, Spurious(t)
  PROVE  NoRoomForgotten'
<1> USE ThreadsAssumption, MaxSizeAssumption DEF TypeInv, TypeOK, Threads, Spurious
<1>1. FreeingRoom' = FreeingRoom /\ queue_' = queue_
  BY DEF FreeingRoom
<1>2. CASE t \in writer_
  <2>1. AwakeWriters' = AwakeWriters \cup {t} /\ t \notin AwakeWriters
    BY <1>2 DEF AwakeWriters
  <2>2. Cardinality(AwakeWriters') = Cardinality(AwakeWriters) + 1
    BY <2>1, CountType, FS_AddElement
  <2> QED
    BY <1>1, <1>2, <2>2, CountType DEF NoRoomForgotten
<1>3. CASE t \notin writer_
  <2>1. AwakeWriters' = AwakeWriters /\ writer_' = writer_
    BY <1>3 DEF AwakeWriters
  <2> QED
    BY <1>1, <2>1 DEF NoRoomForgotten
<1> QED
  BY <1>2, <1>3

\* A sender never sleeps beside free room: whenever one is asleep, each free
\* slot has its signal under way or a sender awake for it.
THEOREM NoLostRoomWakeup == Spec => []NoRoomForgotten
<1>1. Init => NoRoomForgotten
  BY DEF Init, NoRoomForgotten
<1>2. ASSUME TypeInv, NoRoomForgotten, [Next]_vars
      PROVE  NoRoomForgotten'
  <2>1. TypeInv'
    BY <1>2, NextType
  <2>2. CASE UNCHANGED vars
    <3>1. FreeingRoom' = FreeingRoom /\ AwakeWriters' = AwakeWriters
      BY <2>2 DEF vars, FreeingRoom, AwakeWriters
    <3> QED
      BY <1>2, <2>2, <3>1 DEF vars, NoRoomForgotten
  <2> QED
    BY <1>2, <2>1, <2>2, RoomSend, RoomReceive, RoomSpurious DEF Next, Idle
<1> QED
  BY <1>1, <1>2, InitType, NextType, PTL DEF Spec
=============================================================================
