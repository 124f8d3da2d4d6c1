------------------------ MODULE ThreadLifecycleProofs ------------------------
(***************************************************************************)
(* Proofs about ThreadLifecycle, for any set of joiners and any number of  *)
(* starts and spurious wake-ups.                                           *)
(***************************************************************************)
EXTENDS ThreadLifecycle, TLAPS

\* Who holds the Completion's mutex is in its critical section, and nobody else.
LockInv ==
    /\ mut_ = Worker <=> worker \in {"set", "broadcast", "unlock"}
    /\ \A j \in Joiners : mut_ = j <=> joiner[j] = "test"

\* Before the first start() nothing has happened.
FreshInv ==
    starts = 0 => /\ worker = "none" /\ tf_ /\ ~done_
                  /\ functor = "live"
                  /\ \A j \in Joiners : joiner[j] = "outside"

\* The first thread sets done_ inside the critical section, so that whoever has
\* seen it there finds the thread gone.
FirstRunInv ==
    starts = 1 =>
        /\ done_ => worker \in {"broadcast", "unlock", "exited"}
        /\ worker # "none"
        /\ (\E j \in Joiners : joiner[j] = "returned") => worker = "exited"
        /\ functor = "freed" => worker = "exited"

Inv == TypeOK /\ LockInv /\ FreshInv /\ FirstRunInv

LEMMA InitInv == Init => Inv
<1> SUFFICES ASSUME Init
             PROVE  Inv
  OBVIOUS
<1> USE BoundsAssumption, JoinersAssumption DEF Init, Free, Worker
<1>1. TypeOK
  <2>1. attached_ \in BOOLEAN /\ tf_ \in BOOLEAN /\ done_ \in BOOLEAN /\ crashed \in BOOLEAN
    OBVIOUS
  <2>2. mut_ = Free /\ \A j \in Joiners : mut_ # j
    OBVIOUS
  <2>3. joiner \in [Joiners -> {"outside"}] /\ spurious \in [Joiners -> 0..MaxSpurious]
    OBVIOUS
  <2>4. worker = "none" /\ functor = "live" /\ object = "live" /\ starts \in 0..MaxStarts
    OBVIOUS
  <2> HIDE DEF Init
  <2> QED
    BY <2>1, <2>2, <2>3, <2>4 DEF TypeOK
<1>2. LockInv
  BY DEF LockInv
<1>3. FreshInv /\ FirstRunInv
  BY DEF FreshInv, FirstRunInv
<1> QED
  BY <1>1, <1>2, <1>3 DEF Inv

LEMMA ClientInv ==
  ASSUME Inv, Client
  PROVE  Inv'
<1> USE BoundsAssumption, JoinersAssumption
    DEF Inv, TypeOK, LockInv, FreshInv, FirstRunInv, Free, Worker, Usable, Inside
<1>1. CASE Start
  BY <1>1 DEF Start, completion, memory
<1>2. CASE Detach
  <2>1. /\ attached_' \in BOOLEAN /\ tf_' \in BOOLEAN
        /\ starts > 0 /\ UNCHANGED <<completion, worker, joiner, spurious, memory, starts, crashed>>
    BY <1>2 DEF Detach
  <2> QED
    BY <2>1 DEF completion, memory
<1>3. CASE Destroy
  <2>1. /\ attached_' \in BOOLEAN /\ tf_' \in BOOLEAN /\ crashed' \in BOOLEAN
        /\ starts > 0 /\ object' = "destroyed"
        /\ UNCHANGED <<completion, worker, joiner, spurious, functor, starts>>
    BY <1>3 DEF Destroy
  <2> QED
    BY <2>1 DEF completion
<1>4. CASE FreeFunctor
  <2>1. starts # 0
    BY <1>4 DEF FreeFunctor
  <2>2. starts = 1 => worker = "exited"
    BY <1>4 DEF FreeFunctor
  <2> QED
    BY <1>4, <2>1, <2>2 DEF FreeFunctor, completion, thread
<1> QED
  BY <1>1, <1>2, <1>3, <1>4 DEF Client

LEMMA JoinerInv ==
  ASSUME Inv, NEW j \in Joiners, Join(j) \/ Wait(j) \/ Spurious(j)
  PROVE  Inv'
<1> USE BoundsAssumption, JoinersAssumption
    DEF Inv, TypeOK, LockInv, FreshInv, FirstRunInv, Free, Worker, Usable, JoinerAt
<1>1. CASE Join(j)
  BY <1>1 DEF Join, completion, thread, memory
<1>2. CASE WaitLock(j)
  BY <1>2 DEF WaitLock, thread, memory
<1>3. CASE WaitTest(j)
  BY <1>3 DEF WaitTest, DoneSeen, thread, memory
<1>4. CASE Spurious(j)
  BY <1>4 DEF Spurious, completion, thread, memory
<1> QED
  BY <1>1, <1>2, <1>3, <1>4 DEF Wait

LEMMA WorkerInv ==
  ASSUME Inv, WorkerStep
  PROVE  Inv'
<1> USE BoundsAssumption, JoinersAssumption
    DEF Inv, TypeOK, LockInv, FreshInv, FirstRunInv, Free, Worker, WorkerAt
<1>1. CASE Run
  BY <1>1 DEF Run, completion, thread, memory
<1>2. CASE SignalLock
  BY <1>2 DEF SignalLock, thread, memory
<1>3. CASE SignalSet
  BY <1>3 DEF SignalSet, thread, memory
<1>4. CASE Broadcast
  BY <1>4 DEF Broadcast, completion, thread, memory
<1>5. CASE SignalUnlock
  BY <1>5 DEF SignalUnlock, thread, memory
<1> QED
  BY <1>1, <1>2, <1>3, <1>4, <1>5 DEF WorkerStep

LEMMA Invariance == Spec => []Inv
<1>1. Inv /\ [Next]_vars => Inv'
  <2> SUFFICES ASSUME Inv, [Next]_vars
               PROVE  Inv'
    OBVIOUS
  <2>1. CASE UNCHANGED vars
    BY <2>1 DEF vars, completion, thread, memory, Inv, TypeOK, LockInv, FreshInv, FirstRunInv
  <2> QED
    BY <2>1, ClientInv, JoinerInv, WorkerInv DEF Next
<1> QED
  BY <1>1, InitInv, PTL DEF Spec

\* The Thread object, the Completion and the threads in it keep their types, and
\* the mutex is held between lock() and unlock() only.
THEOREM TypeCorrect == Spec => []TypeOK
<1>1. Inv => TypeOK
  BY DEF Inv
<1> QED
  BY <1>1, Invariance, PTL

\* Whoever has joined a thread that was started once may free its functor: the
\* ending thread is out of Completion::signal() by then.
THEOREM FreeingIsSafe == Spec => []FreedAfterLastTouch
<1>1. Inv => FreedAfterLastTouch
  BY DEF Inv, FirstRunInv, FreedAfterLastTouch
<1> QED
  BY <1>1, Invariance, PTL

\* join() does not return before run(), over any number of spurious wake-ups and
\* of other joiners.
THEOREM JoinWaits == Spec => []JoinMeansRunEnded
<1>1. Inv => JoinMeansRunEnded
  BY DEF Inv, FirstRunInv, JoinMeansRunEnded
<1> QED
  BY <1>1, Invariance, PTL
=============================================================================
