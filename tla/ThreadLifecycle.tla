--------------------------- MODULE ThreadLifecycle ---------------------------
(***************************************************************************)
(* osapi::Thread, the functor it runs, and the Completion by which join()  *)
(* waits (linux/Thread.cpp, linux/ThreadFunctor.cpp,                       *)
(* common/Completion.cpp).                                                 *)
(*                                                                         *)
(* One Thread object and one functor.  The client starts the thread, any   *)
(* number of other threads join it, and the client frees the functor (with *)
(* the Completion inside) when a join has returned and nobody is in one    *)
(* any more.  The new thread runs the functor, then takes the Completion's *)
(* mutex, sets done_, broadcasts and releases: every step touches the      *)
(* functor.                                                                *)
(***************************************************************************)
EXTENDS Naturals

CONSTANTS
    Joiners,      \* threads that call join()
    MaxStarts,    \* bound: calls of start()
    MaxSpurious   \* bound: wake-ups without a broadcast, per joiner

ASSUME BoundsAssumption == MaxStarts \in Nat /\ MaxSpurious \in Nat

VARIABLES
    attached_, tf_,  \* the Thread object; tf_ is whether the pointer is not NULL
    done_, mut_,     \* the Completion: its flag, and who holds its mutex
    worker,          \* the thread that runs the functor
    joiner,          \* where each joiner is in join()
    spurious,
    functor,         \* "live" or "freed"
    object,          \* the Thread object: "live" or "destroyed"
    starts,          \* history: how often start() was called
    crashed          \* the process is gone

completion == <<done_, mut_>>
thread == <<attached_, tf_>>
memory == <<functor, object>>
vars == <<thread, completion, worker, joiner, spurious, memory, starts, crashed>>

Free == "free"
Worker == "worker"

ASSUME JoinersAssumption == Free \notin Joiners /\ Worker \notin Joiners

Init ==
    /\ attached_ = TRUE /\ tf_ = TRUE
    /\ done_ = FALSE /\ mut_ = Free
    /\ worker = "none"
    /\ joiner = [j \in Joiners |-> "outside"]
    /\ spurious = [j \in Joiners |-> 0]
    /\ functor = "live" /\ object = "live"
    /\ starts = 0
    /\ crashed = FALSE

Usable == object = "live" /\ ~crashed

Inside == {j \in Joiners : joiner[j] \in {"lock", "test", "asleep", "relock"}}

-----------------------------------------------------------------------------
(* The client *)

\* start(): pthread_create with whatever tf_ is.  One thread at a time, and not
\* while somebody joins the last one.
Start ==
    /\ Usable /\ worker \in {"none", "exited"} /\ Inside = {} /\ functor = "live"
    /\ starts < MaxStarts
    /\ starts' = starts + 1
    /\ attached_' = TRUE
    /\ worker' = IF tf_ THEN "run" ELSE "runNull"
    /\ UNCHANGED <<tf_, completion, joiner, spurious, memory, crashed>>

\* detach(): an unattached thread throws ThreadError, which changes nothing.
\* pthread_detach takes threadId_, which only start() gives a value.
Detach ==
    /\ Usable /\ Inside = {} /\ starts > 0
    /\ attached_
    /\ attached_' = FALSE /\ tf_' = FALSE
    /\ UNCHANGED <<completion, worker, joiner, spurious, memory, starts, crashed>>

\* ~Thread() calls detach(); what that throws ends the process, because a
\* destructor is noexcept.
Destroy ==
    /\ Usable /\ Inside = {} /\ starts > 0
    /\ object' = "destroyed"
    /\ attached_' = FALSE /\ tf_' = FALSE
    /\ crashed' = ~attached_
    /\ UNCHANGED <<completion, worker, joiner, spurious, functor, starts>>

\* The client gives the functor's memory back.
FreeFunctor ==
    /\ ~crashed /\ functor = "live"
    /\ Inside = {} /\ \E j \in Joiners : joiner[j] = "returned"
    /\ functor' = "freed"
    /\ UNCHANGED <<thread, completion, worker, joiner, spurious, object, starts, crashed>>

-----------------------------------------------------------------------------
(* join(), which is Completion::wait() *)

JoinerAt(j, from, to) == joiner[j] = from /\ joiner' = [joiner EXCEPT ![j] = to]

Join(j) ==
    /\ Usable /\ functor = "live"
    /\ starts > 0
    /\ JoinerAt(j, "outside", IF attached_ /\ tf_ THEN "lock" ELSE "threw")
    /\ crashed' = (attached_ /\ ~tf_)
    /\ UNCHANGED <<thread, completion, worker, spurious, memory, starts>>

WaitLock(j) ==
    /\ ~crashed /\ mut_ = Free /\ mut_' = j
    /\ JoinerAt(j, "lock", "test") \/ JoinerAt(j, "relock", "test")
    /\ UNCHANGED <<thread, done_, worker, spurious, memory, starts, crashed>>

\* Mutant: the flag is not looked at again.
DoneSeenOnce(j) == done_ \/ spurious[j] > 0

DoneSeen(j) == done_

\* Mutant: the mutex is kept when the flag is found set.
WaitTestKeeps(j) ==
    /\ ~crashed
    /\ \/ done_ /\ JoinerAt(j, "test", "returned") /\ UNCHANGED mut_
       \/ ~done_ /\ JoinerAt(j, "test", "asleep") /\ mut_' = Free
    /\ UNCHANGED <<thread, done_, worker, spurious, memory, starts, crashed>>

\* while(!done_) cond_.wait(mut_);
WaitTest(j) ==
    /\ ~crashed /\ mut_' = Free
    /\ \/ DoneSeen(j) /\ JoinerAt(j, "test", "returned")
       \/ ~DoneSeen(j) /\ JoinerAt(j, "test", "asleep")
    /\ UNCHANGED <<thread, done_, worker, spurious, memory, starts, crashed>>

Spurious(j) ==
    /\ ~crashed /\ spurious[j] < MaxSpurious
    /\ spurious' = [spurious EXCEPT ![j] = @ + 1]
    /\ JoinerAt(j, "asleep", "relock")
    /\ UNCHANGED <<thread, completion, worker, memory, starts, crashed>>

-----------------------------------------------------------------------------
(* The thread: threadMapper() and Completion::signal() *)

WorkerAt(from, to) == ~crashed /\ worker = from /\ worker' = to

\* tf->run() returns.  Without a functor the call ends the process.
Run ==
    /\ \/ WorkerAt("run", "lock") /\ UNCHANGED crashed
       \/ WorkerAt("runNull", "exited") /\ crashed' = TRUE
    /\ UNCHANGED <<thread, completion, joiner, spurious, memory, starts>>

SignalLock ==
    /\ WorkerAt("lock", "set") /\ mut_ = Free /\ mut_' = Worker
    /\ UNCHANGED <<thread, done_, joiner, spurious, memory, starts, crashed>>

\* Mutant: the mutex is released before the broadcast.
SignalSetUnlocks ==
    /\ WorkerAt("set", "broadcast")
    /\ done_' = TRUE /\ mut_' = Free
    /\ UNCHANGED <<thread, joiner, spurious, memory, starts, crashed>>

SignalSet ==
    /\ WorkerAt("set", "broadcast")
    /\ done_' = TRUE
    /\ UNCHANGED <<thread, mut_, joiner, spurious, memory, starts, crashed>>

\* Mutant: signal instead of broadcast.
BroadcastOne ==
    /\ WorkerAt("broadcast", "unlock")
    /\ \/ (\A j \in Joiners : joiner[j] # "asleep") /\ UNCHANGED joiner
       \/ \E j \in Joiners : JoinerAt(j, "asleep", "relock")
    /\ UNCHANGED <<thread, completion, spurious, memory, starts, crashed>>

Broadcast ==
    /\ WorkerAt("broadcast", "unlock")
    /\ joiner' = [j \in Joiners |-> IF joiner[j] = "asleep" THEN "relock" ELSE joiner[j]]
    /\ UNCHANGED <<thread, completion, spurious, memory, starts, crashed>>

SignalUnlock ==
    /\ WorkerAt("unlock", "exited") /\ mut_' = Free
    /\ UNCHANGED <<thread, done_, joiner, spurious, memory, starts, crashed>>

-----------------------------------------------------------------------------
WorkerStep == Run \/ SignalLock \/ SignalSet \/ Broadcast \/ SignalUnlock
Wait(j) == WaitLock(j) \/ WaitTest(j)

Client == Start \/ Detach \/ Destroy \/ FreeFunctor

Next ==
    \/ Client
    \/ WorkerStep
    \/ \E j \in Joiners : Join(j) \/ Wait(j) \/ Spurious(j)

Spec == Init /\ [][Next]_vars

\* The kernel runs each thread that can run; the mutex is passed on in the end
\* to each thread that asks for it.  Nobody has to call anything.
FairSpec ==
    /\ Spec
    /\ WF_vars(WorkerStep) /\ SF_vars(SignalLock)
    /\ \A j \in Joiners : WF_vars(Wait(j)) /\ SF_vars(WaitLock(j))

-----------------------------------------------------------------------------
(* Properties *)

\* Every variable has its type, and who holds the mutex is between lock() and
\* unlock().
TypeOK ==
    /\ attached_ \in BOOLEAN /\ tf_ \in BOOLEAN /\ done_ \in BOOLEAN /\ crashed \in BOOLEAN
    /\ mut_ \in Joiners \cup {Worker, Free}
    /\ mut_ = Worker => worker \in {"set", "broadcast", "unlock"}
    /\ \A j \in Joiners : mut_ = j => joiner[j] = "test"
    /\ worker \in {"none", "run", "runNull", "lock", "set", "broadcast", "unlock", "exited"}
    /\ joiner \in [Joiners -> {"outside", "lock", "test", "asleep", "relock", "returned", "threw"}]
    /\ spurious \in [Joiners -> 0..MaxSpurious]
    /\ starts \in 0..MaxStarts
    /\ functor \in {"live", "freed"} /\ object \in {"live", "destroyed"}

\* A client that waits for join() may free the functor of a thread started once:
\* the thread never touches it afterwards.  Completion::signal() broadcasts before
\* it releases the mutex, and a joiner needs the mutex to see done_.  (A second
\* start() finds done_ set, and join() then waits for nothing.)
FreedAfterLastTouch ==
    functor = "freed" /\ starts = 1 => worker = "exited"

\* join() of a thread started once returns only when run() has returned, however
\* often the wait ends by itself.
JoinMeansRunEnded ==
    (\E j \in Joiners : joiner[j] = "returned") /\ starts = 1 => worker \notin {"none", "run"}

\* Every join() comes back once the functor's run() returns.
EveryJoinReturns ==
    \A j \in Joiners : joiner[j] = "lock" ~> (joiner[j] = "returned" \/ crashed)
=============================================================================
