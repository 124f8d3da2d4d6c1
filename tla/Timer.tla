-------------------------------- MODULE Timer --------------------------------
(***************************************************************************)
(* The timers of osapi (common/Timer.cpp).  A TimerId is armed, re-armed   *)
(* and disarmed by the thread that owns it; one timer thread keeps all     *)
(* armed timers in a multimap ordered by expiry time and posts a message   *)
(* to the owner's queue when one expires.                                  *)
(*                                                                         *)
(* Two kinds of mutex: TimerId::mut_ guards the fields of one timer,       *)
(* Timer::mut_ the container.  The owner takes them one after the other,   *)
(* so each of its critical sections is one action, with a gap in between.  *)
(* The timer thread holds Timer::mut_ whenever it does not wait, and takes *)
(* TimerId::mut_ within it while it posts, which may block.                *)
(*                                                                         *)
(* Times are osapi::Time objects, computed and compared as in OsTime.      *)
(*                                                                         *)
(* The owner arms only a timer that it knows to be idle: never armed,      *)
(* disarmed, or its message received.  (arm() of an armed timer overwrites *)
(* containerPos_, and the older entry can then never be erased.)  A        *)
(* message is optional: an owner that arms without one cannot tell late    *)
(* messages of the timer apart, and does so only when it has received all  *)
(* of them, as TestTimer does.                                             *)
(***************************************************************************)
EXTENDS OsTime, Sequences

CONSTANTS
    TimerIds,     \* the timers, all of one owner with one queue
    QueueSize,    \* the size of that queue
    Timeouts,     \* the arguments of arm() to try
    MaxTime,      \* bound: the clock, which can pass every expiry time
    MaxArms,      \* bound: calls of arm() and reArm()
    MaxSpurious   \* bound: wake-ups of the timer thread without a signal

ASSUME SizeAssumption == QueueSize \in Nat \ {0} /\ Timeouts \subseteq Nat \ {0}
ASSUME BoundsAssumption == MaxTime \in Nat /\ MaxArms \in Nat /\ MaxSpurious \in Nat

VARIABLES
    now,          \* the monotonic clock, in milliseconds
    armedTime_, timeOut_,
    m_,           \* the message to post: NULL, or the number of the arming it came with
    canceled_,
    containerPos_,\* the timer's entry in the container, or NoPos
    container_,   \* entries <<expiry time, insertion number, timer>>
    threadPc,     \* the timer thread; see Holding
    wakeAt,       \* when its timed wait times out, while it is in one
    expiring,     \* the timer whose message it posts
    queue,        \* the owner's message queue: <<timer, message>>
    call,         \* the owner: the call it is in, <<step, timer>>, or <<"idle">>
    alive,        \* timers not deleted yet
    arms,         \* history: armings of each timer
    given,        \* history: the message of each timer's last arming
    inserts,      \* history: insertions into the container
    armed,        \* what the owner knows: armings it expects a message from
    fired,        \* history: posts of each timer since its last arming
    dueAt,        \* history: when, in milliseconds, each timer is to expire
    spurious

idVars == <<armedTime_, timeOut_, m_, canceled_>>
containerVars == <<container_, containerPos_, inserts>>
threadVars == <<threadPc, wakeAt, expiring, spurious>>
ownerVars == <<call, alive, arms, given, armed, dueAt>>
vars == <<now, idVars, containerVars, threadVars, queue, ownerVars, fired>>

NULL == 0
NoPos == <<>>
Times == {CurrentTime(t) : t \in 0..MaxTime}
Entry == Times \X (1..MaxArms) \X TimerIds

\* canceled_ and timeOut_ are uninitialised in the constructor; arm() sets both
\* before anything reads them.
Init ==
    /\ now = 0
    /\ armedTime_ = [ti \in TimerIds |-> TimeOfMsec(0)]
    /\ timeOut_ = [ti \in TimerIds |-> 0]
    /\ m_ = [ti \in TimerIds |-> NULL]
    /\ canceled_ = [ti \in TimerIds |-> FALSE]
    /\ containerPos_ = [ti \in TimerIds |-> NoPos]
    /\ container_ = {} /\ inserts = 0
    /\ threadPc = "woken" /\ wakeAt = 0 /\ expiring = {} /\ spurious = 0
    /\ queue = <<>>
    /\ call = <<"idle">> /\ alive = TimerIds
    /\ arms = [ti \in TimerIds |-> 0] /\ given = [ti \in TimerIds |-> NULL]
    /\ armed = {} /\ dueAt = [ti \in TimerIds |-> 0]
    /\ fired = [ti \in TimerIds |-> 0]

\* Mutant: the mutex is given up while the message is posted.
HoldingNotWhilePosting == threadPc \in {"test", "expire", "erase"}

\* Mutant: the wait for a first timer keeps the mutex.
HoldingWhileAsleep == threadPc \in {"test", "asleep", "expire", "post", "erase"}

\* Timer::mut_ is with the timer thread; "post" holds TimerId::mut_ of the
\* first entry's timer as well.
Holding == threadPc \in {"test", "expire", "post", "erase"}

\* multimap order: expiry time, then insertion.
Begin ==
    CHOOSE e \in container_ : \A f \in container_ :
        Less(e[1], f[1]) \/ (~Less(f[1], e[1]) /\ e[2] <= f[2])

\* Mutant: after a timeout the first entry is taken without a look at its time.
DueUnchecked == container_

\* The first entry is due if any is.
Due == {e \in container_ : ~Less(CurrentTime(now), e[1])}

\* What is left until the first timer expires.
Deadline == Minus(Begin[1], CurrentTime(now))

HoldingId(ti) == threadPc = "post" /\ ti \in expiring

\* cond_.signal(): the only waiter is the timer thread.
SignalThread == threadPc' = IF threadPc \in {"asleep", "timed"} THEN "woken" ELSE threadPc

-----------------------------------------------------------------------------
(* The owner's calls *)

InQueue(message) == \E k \in 1..Len(queue) : queue[k] = message

\* What arm() and reArm() may be given: a message of its own, or none (the default).
MayGive(ti, m) == m = arms[ti] + 1 \/ (m = NULL /\ ~InQueue(<<ti, NULL>>))

\* TimerId::arm, first critical section.
Arm(ti, timeout, m) ==
    /\ call = <<"idle">> /\ ti \in alive /\ ~HoldingId(ti)
    /\ ti \notin armed /\ MayGive(ti, m) /\ inserts < MaxArms
    /\ now + timeout < MaxTime
    /\ timeOut_' = [timeOut_ EXCEPT ![ti] = timeout]
    /\ armedTime_' = [armedTime_ EXCEPT ![ti] = PlusMsec(CurrentTime(now), timeout)]
    /\ dueAt' = [dueAt EXCEPT ![ti] = now + timeout]
    /\ m_' = [m_ EXCEPT ![ti] = m]
    /\ canceled_' = [canceled_ EXCEPT ![ti] = FALSE]
    /\ arms' = [arms EXCEPT ![ti] = @ + 1] /\ given' = [given EXCEPT ![ti] = m]
    /\ fired' = [fired EXCEPT ![ti] = 0]
    /\ armed' = armed \cup {ti}
    /\ call' = <<"insert", ti>>
    /\ UNCHANGED <<now, containerVars, threadVars, queue, alive>>

\* TimerId::reArm: one period after the last expiry time, which may be over.
ReArm(ti, m) ==
    /\ call = <<"idle">> /\ ti \in alive /\ ~HoldingId(ti)
    /\ ti \notin armed /\ arms[ti] > 0 /\ MayGive(ti, m) /\ inserts < MaxArms
    /\ dueAt[ti] + timeOut_[ti] < MaxTime
    /\ armedTime_' = [armedTime_ EXCEPT ![ti] = PlusMsec(@, timeOut_[ti])]
    /\ dueAt' = [dueAt EXCEPT ![ti] = @ + timeOut_[ti]]
    /\ m_' = [m_ EXCEPT ![ti] = m]
    /\ canceled_' = [canceled_ EXCEPT ![ti] = FALSE]
    /\ arms' = [arms EXCEPT ![ti] = @ + 1] /\ given' = [given EXCEPT ![ti] = m]
    /\ fired' = [fired EXCEPT ![ti] = 0]
    /\ armed' = armed \cup {ti}
    /\ call' = <<"insert", ti>>
    /\ UNCHANGED <<now, timeOut_, containerVars, threadVars, queue, alive>>

\* Timer::arm, its critical section.
TimerArm ==
    /\ call[1] = "insert" /\ ~Holding
    /\ LET ti == call[2]
           entry == <<armedTime_[ti], inserts + 1, ti>>
       IN  /\ container_' = container_ \cup {entry}
           /\ containerPos_' = [containerPos_ EXCEPT ![ti] = entry]
           /\ inserts' = inserts + 1
           /\ call' = <<"signal", ti>>
    /\ UNCHANGED <<now, idVars, threadVars, queue, alive, arms, given, armed, dueAt, fired>>

\* Mutant: the thread is not told of the new timer.
ArmSignalNot == UNCHANGED threadPc

ArmSignal == SignalThread

\* Timer::arm: cond_.signal() after the mutex is gone.
TimerArmSignal ==
    /\ call[1] = "signal"
    /\ ArmSignal
    /\ call' = <<"idle">>
    /\ UNCHANGED <<now, idVars, containerVars, wakeAt, expiring, spurious, queue, alive, arms,
                   given, armed, dueAt, fired>>

\* Mutant: the timer is cancelled, and stays in the container.
DisArmAlone(ti, step) ==
    /\ call = <<"idle">> /\ ti \in alive /\ ~HoldingId(ti)
    /\ m_' = [m_ EXCEPT ![ti] = NULL]
    /\ canceled_' = [canceled_ EXCEPT ![ti] = TRUE]
    /\ UNCHANGED <<now, armedTime_, timeOut_, containerVars, threadVars, queue, ownerVars, fired>>

\* TimerId::disArm, first critical section; ~TimerId begins with it as well.
DisArm(ti, step) ==
    /\ call = <<"idle">> /\ ti \in alive /\ ~HoldingId(ti)
    /\ m_' = [m_ EXCEPT ![ti] = NULL]
    /\ canceled_' = [canceled_ EXCEPT ![ti] = TRUE]
    /\ call' = <<step, ti>>
    /\ UNCHANGED <<now, armedTime_, timeOut_, containerVars, threadVars, queue, alive, arms,
                   given, armed, dueAt, fired>>

\* Mutant: the position is forgotten and the entry stays.
InternalDisArmForgets(ti) ==
    /\ containerPos_' = [containerPos_ EXCEPT ![ti] = NoPos]
    /\ UNCHANGED <<container_, inserts>>

InternalDisArm(ti) ==
    /\ container_' = container_ \ {containerPos_[ti]}
    /\ containerPos_' = [containerPos_ EXCEPT ![ti] = NoPos]
    /\ UNCHANGED inserts

\* Timer::disArm; after the destructor's call the TimerId is freed.
TimerDisArm ==
    /\ call[1] \in {"disarm", "delete"} /\ ~Holding
    /\ InternalDisArm(call[2])
    /\ SignalThread
    /\ armed' = armed \ {call[2]}
    /\ alive' = IF call[1] = "delete" THEN alive \ {call[2]} ELSE alive
    /\ call' = <<"idle">>
    /\ UNCHANGED <<now, idVars, wakeAt, expiring, spurious, queue, arms, given, dueAt, fired>>

\* The owner's event loop.  A message that is not the one given to the last arming
\* is a late one.
Receive ==
    /\ call = <<"idle">> /\ queue # <<>>
    /\ queue' = Tail(queue)
    /\ armed' = {ti \in armed : Head(queue) # <<ti, given[ti]>>}
    /\ UNCHANGED <<now, idVars, containerVars, threadVars, call, alive, arms, given, dueAt, fired>>

-----------------------------------------------------------------------------
(* Timer::run *)

Thread(from, to) == threadPc = from /\ threadPc' = to

\* The mutex is free between the owner's critical sections.
Relock ==
    /\ \/ Thread("woken", "test") \/ Thread("timedout", "expire")
    /\ wakeAt' = 0
    /\ UNCHANGED <<now, idVars, containerVars, expiring, spurious, queue, ownerVars, fired>>

\* while(container_.empty() && running_) cond_.wait(mut_);
WaitForTimer ==
    /\ container_ = {} /\ Thread("test", "asleep")
    /\ UNCHANGED <<now, idVars, containerVars, wakeAt, expiring, spurious, queue, ownerVars, fired>>

\* The deadline is over, or waitTimed() for what is left of it.
WaitForDeadline ==
    /\ container_ # {}
    /\ \/ Less(Deadline, TimeOfMsec(0)) /\ Thread("test", "expire") /\ UNCHANGED wakeAt
       \/ /\ ~Less(Deadline, TimeOfMsec(0)) /\ Thread("test", "timed")
          /\ wakeAt' = now + TotalMSecs(Deadline)
    /\ UNCHANGED <<now, idVars, containerVars, expiring, spurious, queue, ownerVars, fired>>

WaitTimedOut ==
    /\ now >= wakeAt /\ Thread("timed", "timedout")
    /\ UNCHANGED <<now, idVars, containerVars, wakeAt, expiring, spurious, queue, ownerVars, fired>>

WakeSpuriously ==
    /\ spurious < MaxSpurious
    /\ Thread("asleep", "woken") \/ Thread("timed", "woken")
    /\ spurious' = spurious + 1
    /\ UNCHANGED <<now, idVars, containerVars, wakeAt, expiring, queue, ownerVars, fired>>

\* while(!container_.empty() && container_.begin()->first <= now)
Expire ==
    /\ \/ Due # {} /\ Thread("expire", "post") /\ expiring' = {Begin[3]}
       \/ Due = {} /\ Thread("expire", "test") /\ UNCHANGED expiring
    /\ UNCHANGED <<now, idVars, containerVars, wakeAt, spurious, queue, ownerVars, fired>>

\* Mutant: one message too many.
RoomOneMore == Len(queue) <= QueueSize

Room == Len(queue) < QueueSize

\* Mutant: the posted message stays with the timer.
ForgetMessageNot(ti) == UNCHANGED m_

ForgetMessage(ti) == m_' = [m_ EXCEPT ![ti] = NULL]

\* sendTimerMsg: blocks, with both mutexes, while the queue is full.
SendTimerMsg ==
    /\ Room /\ Thread("post", "erase")
    /\ \E ti \in expiring :
           /\ queue' = Append(queue, <<ti, m_[ti]>>)
           /\ ForgetMessage(ti)
           /\ fired' = [fired EXCEPT ![ti] = @ + 1]
    /\ UNCHANGED <<now, armedTime_, timeOut_, canceled_, containerVars, wakeAt, expiring, spurious,
                   ownerVars>>

\* Mutant: the posted entry stays in the container.
EraseExpiredNot ==
    /\ Thread("erase", "expire") /\ expiring' = {}
    /\ UNCHANGED <<now, idVars, containerVars, wakeAt, spurious, queue, ownerVars, fired>>

EraseExpired ==
    /\ Thread("erase", "expire")
    /\ \E ti \in expiring : InternalDisArm(ti)
    /\ expiring' = {}
    /\ UNCHANGED <<now, idVars, wakeAt, spurious, queue, ownerVars, fired>>

-----------------------------------------------------------------------------
Tick ==
    /\ now < MaxTime
    /\ now' = now + 1
    /\ UNCHANGED <<idVars, containerVars, threadVars, queue, ownerVars, fired>>

InCall == TimerArm \/ TimerArmSignal \/ TimerDisArm

Owner ==
    \/ \E ti \in TimerIds : \/ \E m \in 0..MaxArms : \/ \E timeout \in Timeouts : Arm(ti, timeout, m)
                                                   \/ ReArm(ti, m)
                            \/ \E step \in {"disarm", "delete"} : DisArm(ti, step)
    \/ InCall
    \/ Receive

TimerThread ==
    \/ Relock \/ WaitForTimer \/ WaitForDeadline \/ WaitTimedOut
    \/ Expire \/ SendTimerMsg \/ EraseExpired

Next == Owner \/ TimerThread \/ WakeSpuriously \/ Tick

Spec == Init /\ [][Next]_vars

\* The clock runs, both threads run, and the owner comes back to its event loop.
FairSpec ==
    /\ Spec
    /\ WF_vars(Tick)
    /\ WF_vars(TimerThread)
    /\ WF_vars(InCall)
    /\ SF_vars(Receive)

-----------------------------------------------------------------------------
(* Properties *)

\* Every variable has its type.
TypeOK ==
    /\ now \in 0..MaxTime /\ wakeAt \in 0..MaxTime
    /\ armedTime_ \in [TimerIds -> Times] /\ timeOut_ \in [TimerIds -> Timeouts \cup {0}]
    /\ m_ \in [TimerIds -> 0..MaxArms] /\ canceled_ \in [TimerIds -> BOOLEAN]
    /\ container_ \subseteq Entry
    /\ containerPos_ \in [TimerIds -> Entry \cup {NoPos}]
    /\ queue \in Seq(TimerIds \X (0..MaxArms)) /\ Len(queue) <= QueueSize
    /\ expiring \subseteq TimerIds /\ alive \subseteq TimerIds /\ armed \subseteq alive
    /\ threadPc \in {"woken", "test", "asleep", "timed", "timedout", "expire", "post", "erase"}

\* Each armed timer has one entry, and each entry can be erased through its
\* timer, which still exists: internalDisArm and the timer thread rely on it.
EntriesBelongToTimers ==
    /\ container_ = {containerPos_[ti] : ti \in TimerIds} \ {NoPos}
    /\ \A e \in container_ : e[3] \in alive /\ containerPos_[e[3]] = e

\* The message of an arming has one owner: the timer that has yet to post it, or
\* the queue, or the reader.  disArm deletes what the timer holds, so a message
\* with two owners is deleted twice.
MessageHasOneOwner ==
    \A ti \in TimerIds :
        /\ m_[ti] # NULL => fired[ti] = 0 /\ ~InQueue(<<ti, m_[ti]>>)
        /\ \A j, k \in 1..Len(queue) : queue[j] = queue[k] /\ queue[j][2] # NULL => j = k

\* A timer never posts before its time, and posts once for an arming: what it posts
\* is its first post since arm() or reArm(), with or without a message, although
\* the entry stays in the container until the thread erases it after the post.
NeverEarlyNeverTwice ==
    [][\A ti \in TimerIds : fired'[ti] > fired[ti] => fired[ti] = 0 /\ now >= dueAt[ti]]_vars

\* Once disArm() or the destructor has returned, the timer posts nothing until
\* it is armed again: Timer::disArm waits for the container's mutex, which the
\* thread keeps from the look at the clock to the erasing of the entry.
QuietAfterDisArm ==
    [][\A ti \in TimerIds :
          Len(queue') > Len(queue) /\ queue'[Len(queue')][1] = ti
            => ti \in armed]_vars

\* What a timer posts is what it was last armed with.  The one exception is a NULL
\* in place of a message that disArm() has deleted, between the two critical
\* sections of that very disArm(): the thread does not look at canceled_.  So no
\* deleted message is posted, and none of an earlier arming.
PostsWhatWasGiven ==
    [][\A ti \in TimerIds, m \in 0..MaxArms :
          queue' = Append(queue, <<ti, m>>) =>
              \/ m = given[ti]
              \/ m = NULL /\ call \in {<<"disarm", ti>>, <<"delete", ti>>}]_vars

\* Expiry times are normalised and exact however often the timer was re-armed, the
\* container sorts them as numbers, and what is left until one of them, negative
\* when the thread is late, is the difference of the numbers.
TimesExact ==
    /\ \A ti \in TimerIds : Normalised(armedTime_[ti]) /\ Value(armedTime_[ti]) = dueAt[ti]
    /\ \A e, f \in container_ : Less(e[1], f[1]) <=> Value(e[1]) < Value(f[1])
    /\ container_ # {} => Normalised(Deadline) /\ TotalMSecs(Deadline) = Value(Begin[1]) - now

\* The timer thread waits for room in the owner's queue, with both mutexes.  If the
\* owner is in a call by then, they wait for each other for ever.
Stuck == threadPc = "post" /\ ~Room

\* An armed timer that is not disarmed posts, unless the queue is full (arm() has
\* reset fired, and comes again only after the post or a disArm).
ArmedTimerFires ==
    \A ti \in TimerIds : ti \in armed ~> (fired[ti] > 0 \/ canceled_[ti] \/ Stuck)

\* arm(), reArm(), disArm() and the destructor return: nothing but a full queue
\* keeps the timer thread from giving up the mutex they ask for.
EveryCallReturns == call # <<"idle">> ~> (call = <<"idle">> \/ Stuck)
=============================================================================
