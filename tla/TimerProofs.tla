----------------------------- MODULE TimerProofs -----------------------------
(***************************************************************************)
(* Proofs about the timers of osapi.  First that the arithmetic of         *)
(* osapi::Time is exact for times that are not negative, whatever the      *)
(* length of a second; then that the container has a first entry; then the *)
(* invariant of the two threads, TimerInv, one lemma per action; and from  *)
(* it the theorems, for any set of timers, any queue and any timeouts.     *)
(***************************************************************************)
EXTENDS Timer, WellFoundedInduction, TLAPS

-----------------------------------------------------------------------------
(* Arithmetic *)

\* A set of naturals that is not empty has a least element.
LEMMA NatMinimum ==
    ASSUME NEW S \in SUBSET Nat, S # {}
    PROVE  \E n \in S : \A m \in S : n <= m
<1> DEFINE R == {ss \in Nat \X Nat : ss[1] < ss[2]}
<1>1. IsWellFoundedOn(R, Nat)
  BY NatLessThanWellFounded DEF OpToRel
<1>2. \A m, n \in Nat : <<m, n>> \notin R => n <= m
  OBVIOUS
<1> HIDE DEF R
<1>3. PICK n \in S : \A m \in S : ~(<<m, n>> \in R)
  BY <1>1, WFMin
<1>4. \A m \in S : n <= m
  BY <1>2, <1>3
<1> QED
  BY <1>4

\* What n \div s and n % s are.
LEMMA DivMod ==
    ASSUME NEW n \in Nat, NEW s \in Nat \ {0}
    PROVE  /\ n \div s \in Nat
           /\ n % s \in Nat /\ n % s < s
           /\ n = s * (n \div s) + (n % s)
  OBVIOUS

\* They are the only such numbers.
LEMMA DivUnique ==
    ASSUME NEW n \in Nat, NEW s \in Nat \ {0}, NEW q \in Int, NEW r \in Nat, r < s, n = s * q + r
    PROVE  q = n \div s /\ r = n % s
  OBVIOUS

\* The normalisation in the constructor has nothing to do for a clock's time.
LEMMA CurrentTimeIs ==
    ASSUME NEW n \in Nat
    PROVE  CurrentTime(n) = [sec_ |-> n \div Second, msec_ |-> n % Second]
<1>1. Second \in Nat \ {0} /\ n % Second \in Nat /\ n % Second < Second /\ n \div Second \in Nat
  BY SecondAssumption, DivMod
<1>2. \A s \in Nat \ {0}, r \in Nat : r < s => r \div s = 0
  OBVIOUS
<1>3. Quot(n % Second, Second) = 0
  BY <1>1, <1>2 DEF Quot
<1>4. Rem(n % Second, Second) = n % Second
  BY <1>1, <1>3 DEF Rem
<1> QED
  BY <1>1, <1>3, <1>4 DEF CurrentTime, Time

\* The time of a clock is normalised and stands for the clock.
LEMMA CurrentTimeExact ==
    ASSUME NEW n \in Nat
    PROVE  Normalised(CurrentTime(n)) /\ Value(CurrentTime(n)) = n
<1>1. n \div Second \in Nat /\ n % Second \in Nat /\ n % Second < Second 
      /\ n = Second * (n \div Second) + (n % Second)
  BY SecondAssumption, DivMod
<1>2. \A s, q, r \in Nat : q * s + r = s * q + r
  OBVIOUS
<1>3. CurrentTime(n).sec_ = n \div Second /\ CurrentTime(n).msec_ = n % Second
  BY CurrentTimeIs
<1>4. (n \div Second) * Second + (n % Second) = n
  BY <1>1, <1>2, SecondAssumption
<1>5. Normalised(CurrentTime(n))
  BY <1>1, <1>3, SecondAssumption DEF Normalised
<1>6. Value(CurrentTime(n)) = n
  BY <1>3, <1>4 DEF Value
<1> QED
  BY <1>5, <1>6

\* operator+= carries: it yields the time of a clock that is k milliseconds ahead.
LEMMA PlusMsecExact ==
    ASSUME NEW n \in Nat, NEW k \in Nat
    PROVE  PlusMsec(CurrentTime(n), k) = CurrentTime(n + k)
<1> DEFINE q == n \div Second
           r == n % Second
           c == (r + k) \div Second
           d == (r + k) % Second
<1>1. q \in Nat /\ r \in Nat /\ r < Second /\ n = Second * q + r
  BY SecondAssumption, DivMod
<1>2. c \in Nat /\ d \in Nat /\ d < Second /\ r + k = Second * c + d
  BY <1>1, SecondAssumption, DivMod
<1> HIDE DEF q, r, c, d
<1>3. \A s, x, y \in Nat : s * x + s * y = s * (x + y)
  OBVIOUS
<1>4. n + k = Second * (q + c) + d
  BY <1>1, <1>2, <1>3, SecondAssumption
<1>5. q + c = (n + k) \div Second /\ d = (n + k) % Second
  BY <1>1, <1>2, <1>4, SecondAssumption, DivUnique
<1>6. Quot(r + k, Second) = c
  BY <1>1 DEF Quot, c
<1>7. Rem(r + k, Second) = d
  BY <1>1, <1>2, <1>6, SecondAssumption DEF Rem
<1>8. CurrentTime(n) = [sec_ |-> q, msec_ |-> r]
  BY CurrentTimeIs DEF q, r
<1>9. CurrentTime(n + k) = [sec_ |-> q + c, msec_ |-> d]
  BY <1>5, CurrentTimeIs
<1> QED
  BY <1>6, <1>7, <1>8, <1>9 DEF PlusMsec

\* operator< orders times as their clocks.
LEMMA LessExact ==
    ASSUME NEW a \in Nat, NEW b \in Nat
    PROVE  Less(CurrentTime(a), CurrentTime(b)) <=> a < b
<1>1. \A s \in Nat \ {0}, q, r, q2, r2 \in Nat :
         r < s /\ r2 < s => ((q < q2 \/ (r < r2 /\ q = q2)) <=> s * q + r < s * q2 + r2)
  <2> SUFFICES ASSUME NEW s \in Nat \ {0}, NEW q \in Nat, NEW r \in Nat, NEW q2 \in Nat,
                      NEW r2 \in Nat, r < s, r2 < s
               PROVE  (q < q2 \/ (r < r2 /\ q = q2)) <=> s * q + r < s * q2 + r2
    OBVIOUS
  <2>0. \A x, y \in Nat : x < y => s * x + s <= s * y
    OBVIOUS
  <2>1. CASE q < q2
    BY <2>0, <2>1
  <2>2. CASE q2 < q
    BY <2>0, <2>2
  <2>3. CASE q = q2
    BY <2>3
  <2> QED
    BY <2>1, <2>2, <2>3
<1>2. \A n \in Nat : /\ n \div Second \in Nat /\ n % Second \in Nat /\ n % Second < Second
                     /\ n = Second * (n \div Second) + (n % Second)
  BY SecondAssumption, DivMod
<1>3. /\ CurrentTime(a).sec_ = a \div Second /\ CurrentTime(a).msec_ = a % Second
      /\ CurrentTime(b).sec_ = b \div Second /\ CurrentTime(b).msec_ = b % Second
  BY CurrentTimeIs
<1>4. (\/ a \div Second < b \div Second
       \/ a % Second < b % Second /\ a \div Second = b \div Second)
      <=> Second * (a \div Second) + (a % Second) < Second * (b \div Second) + (b % Second)
  BY <1>1, <1>2, SecondAssumption
<1>5. a = Second * (a \div Second) + (a % Second) /\ b = Second * (b \div Second) + (b % Second)
  BY <1>2
<1>6. (\/ a \div Second < b \div Second
       \/ a % Second < b % Second /\ a \div Second = b \div Second) <=> a < b
  BY <1>4, <1>5
<1> QED
  BY <1>3, <1>6 DEF Less

\* operator-= borrows: the difference is normalised and exact, also when negative.
LEMMA MinusExact ==
    ASSUME NEW a \in Nat, NEW b \in Nat
    PROVE  /\ Normalised(Minus(CurrentTime(a), CurrentTime(b)))
           /\ TotalMSecs(Minus(CurrentTime(a), CurrentTime(b))) = a - b
<1> DEFINE q == a \div Second
           r == a % Second
           u == b \div Second
           v == b % Second
<1>1. q \in Nat /\ r \in Nat /\ r < Second /\ a = Second * q + r
  BY SecondAssumption, DivMod
<1>2. u \in Nat /\ v \in Nat /\ v < Second /\ b = Second * u + v
  BY SecondAssumption, DivMod
<1>3. CurrentTime(a) = [sec_ |-> q, msec_ |-> r] /\ CurrentTime(b) = [sec_ |-> u, msec_ |-> v]
  BY CurrentTimeIs
<1> HIDE DEF q, r, u, v
<1>4. CASE v > r
  <2>1. Minus(CurrentTime(a), CurrentTime(b)) = [sec_ |-> q - 1 - u, msec_ |-> r + Second - v]
    BY <1>1, <1>2, <1>3, <1>4, SecondAssumption DEF Minus
  <2>2. \A s, x, y \in Nat : (x - 1 - y) * s = s * x - s - s * y
    OBVIOUS
  <2>3. (q - 1 - u) * Second + (r + Second - v) = a - b
    BY <1>1, <1>2, <2>2, SecondAssumption
  <2> QED
    BY <1>1, <1>2, <1>4, <2>1, <2>3, SecondAssumption DEF Normalised, TotalMSecs
<1>5. CASE ~(v > r)
  <2>1. Minus(CurrentTime(a), CurrentTime(b)) = [sec_ |-> q - u, msec_ |-> r - v]
    BY <1>1, <1>2, <1>3, <1>5, SecondAssumption DEF Minus
  <2>2. \A s, x, y \in Nat : (x - y) * s = s * x - s * y
    OBVIOUS
  <2>3. (q - u) * Second + (r - v) = a - b
    BY <1>1, <1>2, <2>2, SecondAssumption
  <2> QED
    BY <1>1, <1>2, <1>5, <2>1, <2>3, SecondAssumption DEF Normalised, TotalMSecs
<1> QED
  BY <1>4, <1>5

-----------------------------------------------------------------------------
(* The first entry of the container *)

\* The time of an entry is that of a clock.
LEMMA EntryTime ==
    ASSUME NEW e \in Entry
    PROVE  /\ Value(e[1]) \in 0..MaxTime /\ e[1] = CurrentTime(Value(e[1]))
           /\ e[2] \in 1..MaxArms /\ e[3] \in TimerIds /\ e # NoPos
<1>1. PICK t \in 0..MaxTime : e[1] = CurrentTime(t)
  BY DEF Entry, Times
<1>2. t \in Nat
  BY <1>1, BoundsAssumption
<1>3. Value(e[1]) = t
  BY <1>1, <1>2, CurrentTimeExact
<1>4. e # NoPos
  BY DEF Entry, NoPos
<1> QED
  BY <1>1, <1>3, <1>4 DEF Entry

\* operator< on the times of entries is < on the numbers.
LEMMA EntriesSorted ==
    ASSUME NEW e \in Entry, NEW f \in Entry
    PROVE  Less(e[1], f[1]) <=> Value(e[1]) < Value(f[1])
<1>1. Value(e[1]) \in Nat /\ Value(f[1]) \in Nat
  BY EntryTime, BoundsAssumption
<1>2. e[1] = CurrentTime(Value(e[1])) /\ f[1] = CurrentTime(Value(f[1]))
  BY EntryTime
<1>3. Less(CurrentTime(Value(e[1])), CurrentTime(Value(f[1]))) <=> Value(e[1]) < Value(f[1])
  BY <1>1, LessExact
<1> QED
  BY <1>2, <1>3

\* A container that is not empty has a first entry, and no entry is due before it.
LEMMA BeginIsFirst ==
    ASSUME container_ \subseteq Entry, container_ # {}
    PROVE  /\ Begin \in container_
           /\ \A f \in container_ : Value(Begin[1]) <= Value(f[1])
<1> DEFINE V == {Value(e[1]) : e \in container_}
<1>1. \A e \in container_ : Value(e[1]) \in Nat /\ e[2] \in Nat
  BY EntryTime, BoundsAssumption
<1>2. PICK v \in V : \A w \in V : v <= w
  <2>1. V \in SUBSET Nat /\ V # {}
    BY <1>1
  <2> QED
    BY <2>1, NatMinimum
<1>3. v \in Nat
  BY <1>1
<1> DEFINE I == {e[2] : e \in {f \in container_ : Value(f[1]) = v}}
<1>4. PICK i \in I : \A j \in I : i <= j
  <2>1. I \in SUBSET Nat /\ I # {}
    BY <1>1, <1>2
  <2> QED
    BY <2>1, NatMinimum
<1>5. PICK e \in container_ : Value(e[1]) = v /\ e[2] = i
  BY <1>4
<1>6. \A f \in container_ : v <= Value(f[1])
  BY <1>2
<1>7. \A f \in container_ : Value(f[1]) = v => i <= f[2]
  BY <1>4
<1> HIDE DEF V, I
<1>8. ASSUME NEW f \in container_
      PROVE  Less(e[1], f[1]) \/ (~Less(f[1], e[1]) /\ e[2] <= f[2])
  <2>1. Less(e[1], f[1]) <=> v < Value(f[1])
    BY <1>5, EntriesSorted
  <2>2. Less(f[1], e[1]) <=> Value(f[1]) < v
    BY <1>5, EntriesSorted
  <2>3. v <= Value(f[1]) /\ Value(f[1]) \in Nat
    BY <1>1, <1>6
  <2>4. CASE v < Value(f[1])
    BY <2>1, <2>4
  <2>5. CASE v = Value(f[1])
    BY <1>3, <1>5, <1>7, <2>2, <2>5
  <2> QED
    BY <1>3, <2>3, <2>4, <2>5
<1>9. /\ Begin \in container_
      /\ \A f \in container_ : Less(Begin[1], f[1]) \/ ~Less(f[1], Begin[1])
  BY <1>8 DEF Begin
<1>10. ASSUME NEW f \in container_
       PROVE  Value(Begin[1]) <= Value(f[1])
  <2>1. Value(Begin[1]) \in Nat /\ Value(f[1]) \in Nat
    BY <1>1, <1>9
  <2>2. Less(Begin[1], f[1]) <=> Value(Begin[1]) < Value(f[1])
    BY <1>9, EntriesSorted
  <2>3. Less(f[1], Begin[1]) <=> Value(f[1]) < Value(Begin[1])
    BY <1>9, EntriesSorted
  <2>4. Value(Begin[1]) < Value(f[1]) \/ ~(Value(f[1]) < Value(Begin[1]))
    BY <1>9, <2>2, <2>3
  <2> QED
    BY <2>1, <2>4
<1> QED
  BY <1>9, <1>10

-----------------------------------------------------------------------------
(* The inductive invariant *)

\* TypeOK, and the types of the histories.
Typed ==
    /\ TypeOK
    /\ arms \in [TimerIds -> 0..MaxArms] /\ inserts \in 0..MaxArms
    /\ dueAt \in [TimerIds -> 0..MaxTime]
    /\ given \in [TimerIds -> 0..MaxArms] /\ fired \in [TimerIds -> Nat]

Steps == {"insert", "signal", "disarm", "delete"}

\* The owner's call, if it is in one, is about a timer that exists; until Timer::arm
\* the timer has what it was given, and a disArm() leaves it without a message.
CallInv ==
    \/ call = <<"idle">>
    \/ /\ call \in Steps \X alive
       /\ call[1] = "insert" =>
              /\ call[2] \in armed /\ inserts < MaxArms
              /\ m_[call[2]] = given[call[2]] /\ fired[call[2]] = 0
       /\ call[1] \in {"disarm", "delete"} => m_[call[2]] = NULL

\* arm() or reArm() of ti between its two critical sections.
Inserting(ti) == call[1] = "insert" /\ call[2] = ti

\* Every arming but the one about to be inserted was inserted.
CountInv ==
    \A ti \in TimerIds :
        /\ arms[ti] <= (IF Inserting(ti) THEN inserts + 1 ELSE inserts)
        /\ ti \in armed => arms[ti] > 0

\* The message that a timer holds is that of its last arming, which did not fire.
MessageInv ==
    \A ti \in TimerIds :
        /\ m_[ti] # NULL => m_[ti] = given[ti] /\ ti \in armed /\ fired[ti] = 0
        /\ given[ti] <= arms[ti]

\* The messages in the queue are of armings that were, and no message is there twice;
\* the owner does not find there what an armed timer has yet to post, not even when
\* that is NULL.
QueueInv ==
    /\ \A k \in 1..Len(queue) : queue[k][2] <= arms[queue[k][1]]
    /\ \A j, k \in 1..Len(queue) : queue[j] = queue[k] /\ queue[j][2] # NULL => j = k
    /\ \A ti \in armed : fired[ti] = 0 => ~InQueue(<<ti, given[ti]>>)

\* disArm() or the destructor of ti between its two critical sections.
DisArming(ti) == call[1] \in {"disarm", "delete"} /\ call[2] = ti

\* A timer's entry is its own.
PosInv == \A ti \in TimerIds : containerPos_[ti] # NoPos => containerPos_[ti][3] = ti

\* A timer in the container is armed, did not fire and has the message it was given,
\* unless the thread has just posted it and has yet to erase the entry.
EntryInv ==
    \A ti \in TimerIds : containerPos_[ti] # NoPos =>
        \/ threadPc = "erase" /\ expiring = {ti}
        \/ /\ ti \in armed /\ ~Inserting(ti)
           /\ containerPos_[ti][1] = armedTime_[ti] /\ fired[ti] = 0
           /\ m_[ti] = given[ti] \/ DisArming(ti)

\* The timer whose message the thread posts is in the container, and due.
PostInv ==
    /\ threadPc \in {"post", "erase"} => \E ti \in TimerIds : expiring = {ti}
    /\ threadPc = "post" =>
           \A ti \in expiring : containerPos_[ti] # NoPos /\ dueAt[ti] <= now

\* Every expiry time is the one that dueAt says.
ExactInv == \A ti \in TimerIds : armedTime_[ti] = CurrentTime(dueAt[ti])

TimerInv ==
    /\ Typed /\ CallInv /\ CountInv /\ MessageInv /\ QueueInv
    /\ EntriesBelongToTimers /\ PosInv /\ EntryInv /\ PostInv /\ ExactInv

\* The constructors establish it.
LEMMA InitTimer == Init => TimerInv
<1> SUFFICES ASSUME Init
             PROVE  TimerInv
  OBVIOUS
<1>1. 0 \in 0..MaxTime /\ 0 \in 0..MaxArms
  BY BoundsAssumption
<1>2. TimeOfMsec(0) = CurrentTime(0)
  <2>1. 0 \div Second = 0 /\ 0 % Second = 0
    BY SecondAssumption
  <2> QED
    BY <2>1 DEF TimeOfMsec, CurrentTime
<1>3. CurrentTime(0) \in Times
  BY <1>1 DEF Times
<1>4. TypeOK
  <2>1. armedTime_ \in [TimerIds -> Times]
    BY <1>2, <1>3 DEF Init
  <2>2. canceled_ \in [TimerIds -> BOOLEAN]
    BY DEF Init
  <2>3. queue \in Seq(TimerIds \X (0..MaxArms)) /\ Len(queue) <= QueueSize
    BY SizeAssumption DEF Init
  <2>4. containerPos_ \in [TimerIds -> Entry \cup {NoPos}]
    BY DEF Init
  <2> QED
    BY <1>1, <2>1, <2>2, <2>3, <2>4 DEF Init, TypeOK, NULL
<1>5. Typed
  BY <1>1, <1>4 DEF Init, Typed, NULL
<1>6. CallInv /\ CountInv /\ MessageInv /\ QueueInv
  BY <1>1 DEF Init, CallInv, CountInv, Inserting, MessageInv, QueueInv, InQueue, NULL
<1>7. EntriesBelongToTimers /\ PosInv /\ EntryInv /\ PostInv
  BY DEF Init, EntriesBelongToTimers, PosInv, EntryInv, PostInv
<1>8. ExactInv
  BY <1>2 DEF Init, ExactInv
<1> QED
  BY <1>5, <1>6, <1>7, <1>8 DEF TimerInv

\* A step that leaves the timers, the owner, the container and the queue alone
\* preserves what is said of them.
LEMMA TimersAlone ==
    ASSUME TimerInv, UNCHANGED <<idVars, containerVars, queue, ownerVars, fired>>
    PROVE  /\ CallInv' /\ CountInv' /\ MessageInv' /\ QueueInv' /\ EntriesBelongToTimers'
           /\ PosInv' /\ ExactInv'
<1> USE DEF idVars, containerVars, ownerVars
<1>1. CallInv' /\ CountInv'
  BY DEF TimerInv, CallInv, CountInv, Inserting
<1>2. MessageInv' /\ QueueInv'
  BY DEF TimerInv, MessageInv, QueueInv, InQueue
<1>3. EntriesBelongToTimers' /\ PosInv' /\ ExactInv'
  BY DEF TimerInv, EntriesBelongToTimers, PosInv, ExactInv
<1> QED
  BY <1>1, <1>2, <1>3

\* The same, when the thread neither posts nor erases before or after the step.
LEMMA ThreadElsewhere ==
    ASSUME TimerInv, UNCHANGED <<idVars, containerVars, queue, ownerVars, fired>>,
           threadPc \notin {"post", "erase"}, threadPc' \notin {"post", "erase"},
           Typed'
    PROVE  TimerInv'
<1>1. EntryInv'
  BY DEF TimerInv, EntryInv, DisArming, Inserting, idVars, containerVars, ownerVars
<1>2. PostInv'
  BY DEF PostInv
<1> QED
  BY <1>1, <1>2, TimersAlone DEF TimerInv

\* The type of what the thread's own steps change.
LEMMA ThreadTyped ==
    ASSUME Typed, UNCHANGED <<idVars, containerVars, queue, ownerVars, fired>>,
           now' \in 0..MaxTime, wakeAt' \in 0..MaxTime, expiring' \subseteq TimerIds,
           threadPc' \in {"woken", "test", "asleep", "timed", "timedout", "expire", "post", "erase"}
    PROVE  Typed'
<1> USE DEF idVars, containerVars, ownerVars
<1>1. canceled_' \in [TimerIds -> BOOLEAN]
  BY Zenon DEF Typed, TypeOK
<1>2. armed' \subseteq alive'
  BY DEF Typed, TypeOK
<1> QED
  BY <1>1, <1>2 DEF Typed, TypeOK

\* The thread takes the mutex again.
LEMMA RelockStep == TimerInv /\ Relock => TimerInv'
<1> SUFFICES ASSUME TimerInv, Relock
             PROVE  TimerInv'
  OBVIOUS
<1>1. threadPc \in {"woken", "timedout"} /\ threadPc' \in {"test", "expire"}
  BY DEF Relock, Thread
<1>2. wakeAt' \in 0..MaxTime
  BY BoundsAssumption DEF Relock
<1>3. Typed'
  BY <1>1, <1>2, ThreadTyped DEF TimerInv, Typed, TypeOK, Relock
<1> QED
  BY <1>1, <1>3, ThreadElsewhere DEF Relock

\* Going to sleep, and waking up without a signal.
LEMMA WaitSteps == TimerInv /\ (WaitForTimer \/ WaitTimedOut \/ WakeSpuriously) => TimerInv'
<1> SUFFICES ASSUME TimerInv, WaitForTimer \/ WaitTimedOut \/ WakeSpuriously
             PROVE  TimerInv'
  OBVIOUS
<1>1. Typed'
  BY ThreadTyped DEF TimerInv, Typed, TypeOK, WaitForTimer, WaitTimedOut, WakeSpuriously, Thread
<1> QED
  BY <1>1, ThreadElsewhere DEF WaitForTimer, WaitTimedOut, WakeSpuriously, Thread

\* What is left until the first timer expires.
LEMMA DeadlineExact ==
    ASSUME Typed, container_ # {}
    PROVE  /\ Normalised(Deadline)
           /\ TotalMSecs(Deadline) = Value(Begin[1]) - now
           /\ now + TotalMSecs(Deadline) \in 0..MaxTime
<1>1. container_ \subseteq Entry /\ now \in 0..MaxTime
  BY DEF Typed, TypeOK
<1>2. Begin \in Entry
  BY <1>1, BeginIsFirst
<1>3. Value(Begin[1]) \in 0..MaxTime /\ Begin[1] = CurrentTime(Value(Begin[1]))
  BY <1>2, EntryTime
<1>4. now \in Nat /\ Value(Begin[1]) \in Nat
  BY <1>1, <1>3, BoundsAssumption
<1>5. Deadline = Minus(CurrentTime(Value(Begin[1])), CurrentTime(now))
  BY <1>3 DEF Deadline
<1>6. Normalised(Deadline) /\ TotalMSecs(Deadline) = Value(Begin[1]) - now
  BY <1>4, <1>5, MinusExact
<1>7. \A a, b \in Nat : b + (a - b) = a
  OBVIOUS
<1>8. now + TotalMSecs(Deadline) = Value(Begin[1])
  BY <1>4, <1>6, <1>7
<1> QED
  BY <1>3, <1>6, <1>8

\* The thread takes the time until the first timer expires.
LEMMA WaitForDeadlineStep == TimerInv /\ WaitForDeadline => TimerInv'
<1> SUFFICES ASSUME TimerInv, WaitForDeadline
             PROVE  TimerInv'
  OBVIOUS
<1>1. now + TotalMSecs(Deadline) \in 0..MaxTime
  BY DeadlineExact DEF TimerInv, WaitForDeadline
<1>2. wakeAt' \in 0..MaxTime
  BY <1>1 DEF TimerInv, Typed, TypeOK, WaitForDeadline
<1>3. threadPc = "test" /\ threadPc' \in {"expire", "timed"}
  BY DEF WaitForDeadline, Thread
<1>4. Typed'
  BY <1>2, <1>3, ThreadTyped DEF TimerInv, Typed, TypeOK, WaitForDeadline
<1> QED
  BY <1>3, <1>4, ThreadElsewhere DEF WaitForDeadline

\* When some entry is due, the first one is: the timer whose message the thread is
\* about to post is in the container, and its time has come.
LEMMA BeginIsDue ==
    ASSUME TimerInv, threadPc = "expire", Due # {}
    PROVE  Begin[3] \in TimerIds /\ containerPos_[Begin[3]] # NoPos /\ dueAt[Begin[3]] <= now
<1>1. container_ \subseteq Entry /\ now \in Nat
  BY BoundsAssumption DEF TimerInv, Typed, TypeOK
<1>2. PICK e \in container_ : ~Less(CurrentTime(now), e[1])
  BY DEF Due
<1>3. Value(e[1]) \in Nat /\ e[1] = CurrentTime(Value(e[1]))
  BY <1>1, EntryTime, BoundsAssumption
<1>4. ~(now < Value(e[1]))
  BY <1>1, <1>2, <1>3, LessExact
<1>5. Begin \in container_ /\ Value(Begin[1]) <= Value(e[1])
  BY <1>1, BeginIsFirst
<1>6. Begin[3] \in TimerIds /\ Begin # NoPos /\ Value(Begin[1]) \in Nat
  BY <1>1, <1>5, EntryTime, BoundsAssumption
<1>7. containerPos_[Begin[3]] = Begin
  BY <1>5 DEF TimerInv, EntriesBelongToTimers
<1>8. Begin[1] = armedTime_[Begin[3]]
  BY <1>6, <1>7 DEF TimerInv, EntryInv
<1>9. Begin[1] = CurrentTime(dueAt[Begin[3]]) /\ dueAt[Begin[3]] \in Nat
  BY <1>6, <1>8, BoundsAssumption DEF TimerInv, Typed, ExactInv
<1>10. Value(Begin[1]) = dueAt[Begin[3]]
  BY <1>9, CurrentTimeExact
<1>11. dueAt[Begin[3]] <= now
  BY <1>1, <1>3, <1>4, <1>5, <1>9, <1>10
<1> QED
  BY <1>6, <1>7, <1>11

\* The loop over the entries that are due.
LEMMA ExpireStep == TimerInv /\ Expire => TimerInv'
<1> SUFFICES ASSUME TimerInv, Expire
             PROVE  TimerInv'
  OBVIOUS
<1>1. threadPc = "expire" /\ threadPc' \in {"post", "test"}
  BY DEF Expire, Thread
<1>2. CASE threadPc' = "post"
  <2>1. Due # {} /\ expiring' = {Begin[3]}
    BY <1>2 DEF Expire, Thread
  <2>2. Begin[3] \in TimerIds /\ containerPos_[Begin[3]] # NoPos /\ dueAt[Begin[3]] <= now
    BY <1>1, <2>1, BeginIsDue
  <2>3. Typed'
    BY <1>2, <2>1, <2>2, ThreadTyped DEF TimerInv, Typed, TypeOK, Expire
  <2>4. PostInv'
    BY <1>2, <2>1, <2>2 DEF PostInv, Expire, containerVars, ownerVars
  <2>5. EntryInv'
    BY <1>1, <1>2 DEF TimerInv, EntryInv, Expire, DisArming, Inserting, idVars, containerVars, ownerVars
  <2> QED
    BY <2>3, <2>4, <2>5, TimersAlone DEF TimerInv, Expire
<1>3. CASE threadPc' = "test"
  <2>1. expiring' = expiring
    BY <1>3 DEF Expire, Thread
  <2>2. Typed'
    BY <1>3, <2>1, ThreadTyped DEF TimerInv, Typed, TypeOK, Expire
  <2> QED
    BY <1>1, <1>3, <2>2, ThreadElsewhere DEF Expire
<1> QED
  BY <1>1, <1>2, <1>3

\* The clock moves on.
LEMMA TickStep == TimerInv /\ Tick => TimerInv'
<1> SUFFICES ASSUME TimerInv, Tick
             PROVE  TimerInv'
  OBVIOUS
<1>1. now \in 0..MaxTime /\ now < MaxTime /\ now' = now + 1
  BY DEF TimerInv, Typed, TypeOK, Tick
<1>2. now' \in 0..MaxTime
  BY <1>1, BoundsAssumption
<1>3. Typed'
  BY <1>2, ThreadTyped DEF TimerInv, Typed, TypeOK, Tick, threadVars
<1>4. EntryInv'
  BY DEF TimerInv, EntryInv, Tick, DisArming, Inserting, threadVars, idVars, containerVars, ownerVars
<1>5. PostInv'
  <2>1. \A d, n \in Nat : d <= n => d <= n + 1
    OBVIOUS
  <2>2. now \in Nat /\ \A ti \in TimerIds : dueAt[ti] \in Nat
    BY BoundsAssumption DEF TimerInv, Typed, TypeOK
  <2>3. \A ti \in expiring : ti \in TimerIds
    BY DEF TimerInv, Typed, TypeOK
  <2>4. threadPc = "post" => \A ti \in expiring : containerPos_[ti] # NoPos /\ dueAt[ti] <= now + 1
    BY <2>1, <2>2, <2>3 DEF TimerInv, PostInv
  <2> QED
    BY <1>1, <2>4 DEF TimerInv, PostInv, Tick, threadVars, containerVars, ownerVars
<1> QED
  BY <1>3, <1>4, <1>5, TimersAlone DEF TimerInv, Tick

\* What sendTimerMsg does, for the one timer that is expiring: it is armed and due,
\* and its message is the one of its last arming or has been deleted by a disArm()
\* that has yet to erase the entry.
LEMMA PostedTimer ==
    ASSUME TimerInv, SendTimerMsg
    PROVE  \E ti \in TimerIds :
              /\ expiring = {ti} /\ ti \in armed /\ dueAt[ti] <= now
              /\ containerPos_[ti] # NoPos /\ ~Inserting(ti)
              /\ m_[ti] = given[ti] \/ DisArming(ti)
              /\ queue' = Append(queue, <<ti, m_[ti]>>)
              /\ m_' = [m_ EXCEPT ![ti] = NULL]
              /\ fired[ti] = 0 /\ fired' = [fired EXCEPT ![ti] = 1]
<1>1. threadPc = "post"
  BY DEF SendTimerMsg, Thread
<1>2. PICK ti \in TimerIds : expiring = {ti}
  BY <1>1 DEF TimerInv, PostInv
<1>3. containerPos_[ti] # NoPos /\ dueAt[ti] <= now
  BY <1>1, <1>2 DEF TimerInv, PostInv
<1>4. /\ ti \in armed /\ ~Inserting(ti) /\ (m_[ti] = given[ti] \/ DisArming(ti))
      /\ fired[ti] = 0
  BY <1>1, <1>2, <1>3 DEF TimerInv, EntryInv
<1>5. /\ queue' = Append(queue, <<ti, m_[ti]>>)
      /\ m_' = [m_ EXCEPT ![ti] = NULL]
      /\ fired' = [fired EXCEPT ![ti] = fired[ti] + 1]
  BY <1>2 DEF SendTimerMsg, ForgetMessage
<1>6. fired[ti] + 1 = 1
  BY <1>4
<1> QED
  BY <1>2, <1>3, <1>4, <1>5, <1>6

\* sendTimerMsg: the message moves from its timer to the queue.
LEMMA SendTimerMsgStep == TimerInv /\ SendTimerMsg => TimerInv'
<1> SUFFICES ASSUME TimerInv, SendTimerMsg
             PROVE  TimerInv'
  OBVIOUS
<1>1. PICK ti \in TimerIds :
              /\ expiring = {ti} /\ ti \in armed /\ dueAt[ti] <= now
              /\ containerPos_[ti] # NoPos /\ ~Inserting(ti)
              /\ m_[ti] = given[ti] \/ DisArming(ti)
              /\ queue' = Append(queue, <<ti, m_[ti]>>)
              /\ m_' = [m_ EXCEPT ![ti] = NULL]
              /\ fired[ti] = 0 /\ fired' = [fired EXCEPT ![ti] = 1]
  BY PostedTimer
<1>2. /\ threadPc' = "erase" /\ UNCHANGED <<now, armedTime_, timeOut_, canceled_>>
      /\ UNCHANGED <<container_, containerPos_, inserts, wakeAt, expiring, call, alive>>
      /\ UNCHANGED <<arms, given, armed, dueAt>>
  BY DEF SendTimerMsg, Thread, containerVars, ownerVars
<1>3. /\ queue \in Seq(TimerIds \X (0..MaxArms)) /\ Len(queue) < QueueSize
      /\ m_ \in [TimerIds -> 0..MaxArms] /\ fired \in [TimerIds -> Nat]
      /\ armed \subseteq TimerIds
  BY DEF TimerInv, Typed, TypeOK, SendTimerMsg, Room
<1>4. /\ Len(queue) \in Nat /\ Len(queue') = Len(queue) + 1
      /\ queue' \in Seq(TimerIds \X (0..MaxArms))
      /\ \A k \in 1..Len(queue) : queue'[k] = queue[k]
      /\ queue'[Len(queue) + 1] = <<ti, m_[ti]>>
  <2>1. <<ti, m_[ti]>> \in TimerIds \X (0..MaxArms)
    BY <1>3
  <2> QED
    BY <1>1, <1>3, <2>1
<1>5. m_' \in [TimerIds -> 0..MaxArms]
  BY <1>1, <1>3, BoundsAssumption DEF NULL
<1>6. /\ fired' \in [TimerIds -> Nat] /\ fired'[ti] = 1
      /\ \A i \in TimerIds : i # ti => fired'[i] = fired[i]
  BY <1>1, <1>3
<1>7. Len(queue') <= QueueSize
  BY <1>3, <1>4, SizeAssumption
<1>8. Typed'
  <2>1. canceled_' \in [TimerIds -> BOOLEAN]
    BY <1>2, Zenon DEF TimerInv, Typed, TypeOK
  <2>2. armed' \subseteq alive'
    BY <1>2 DEF TimerInv, Typed, TypeOK
  <2> QED
    BY <1>2, <1>4, <1>5, <1>6, <1>7, <2>1, <2>2 DEF TimerInv, Typed, TypeOK
<1>9. CallInv' /\ CountInv'
  <2>1. m_'[ti] = NULL /\ \A i \in TimerIds : i # ti => m_'[i] = m_[i]
    BY <1>1, <1>3
  <2>4. call \in Steps \X alive => call[2] \in TimerIds
    BY DEF TimerInv, Typed, TypeOK
  <2>2. call \in Steps \X alive /\ call[1] = "insert" => call[2] \in TimerIds /\ call[2] # ti
    BY <1>1 DEF TimerInv, Typed, TypeOK, Inserting
  <2>3. CallInv'
    BY <1>2, <1>6, <2>1, <2>2, <2>4 DEF TimerInv, CallInv
  <2> QED
    BY <1>2, <2>3 DEF TimerInv, CountInv, Inserting
<1>10. MessageInv'
  BY <1>1, <1>2, <1>3, <1>6 DEF TimerInv, MessageInv
<1>11. QueueInv'
  <2> DEFINE n == Len(queue) + 1
  <2>1. \A k \in 1..Len(queue') : k \in 1..Len(queue) \/ k = n
    BY <1>4
  <2>2. m_[ti] <= arms[ti]
    <3>1. arms[ti] \in Nat /\ given[ti] <= arms[ti] /\ (m_[ti] = 0 \/ m_[ti] = given[ti])
      BY <1>3, BoundsAssumption DEF TimerInv, Typed, MessageInv, NULL
    <3>2. CASE m_[ti] = 0
      BY <3>1, <3>2
    <3>3. CASE m_[ti] = given[ti]
      BY <3>1, <3>3
    <3> QED
      BY <3>1, <3>2, <3>3
  <2>3. ASSUME NEW k \in 1..Len(queue')
        PROVE  queue'[k][2] <= arms'[queue'[k][1]]
    <3>1. CASE k \in 1..Len(queue)
      BY <1>2, <1>4, <3>1 DEF TimerInv, QueueInv
    <3>2. CASE k = n
      BY <1>2, <1>4, <2>2, <3>2
    <3> QED
      BY <2>1, <3>1, <3>2
  <2>4. ASSUME NEW i \in armed, fired'[i] = 0
        PROVE  ~InQueue(<<i, given[i]>>)'
    <3>1. i # ti /\ fired[i] = 0
      BY <1>3, <1>6, <2>4
    <3>2. ~InQueue(<<i, given[i]>>)
      BY <3>1 DEF TimerInv, QueueInv
    <3>3. ASSUME NEW k \in 1..Len(queue'), queue'[k] = <<i, given[i]>>
          PROVE  FALSE
      <4>1. CASE k \in 1..Len(queue)
        BY <1>4, <3>2, <3>3, <4>1 DEF InQueue
      <4>2. CASE k = n
        BY <1>4, <3>1, <3>3, <4>2
      <4> QED
        BY <2>1, <4>1, <4>2
    <3> QED
      BY <1>2, <3>3 DEF InQueue
  <2>6. \A k \in 1..Len(queue) : queue[k] = <<ti, m_[ti]>> => m_[ti] = NULL
    BY <1>1 DEF TimerInv, QueueInv, MessageInv, InQueue
  <2>7. ASSUME NEW j \in 1..Len(queue'), NEW k \in 1..Len(queue'), queue'[j] = queue'[k],
               queue'[j][2] # NULL
        PROVE  j = k
    <3>1. CASE j \in 1..Len(queue) /\ k \in 1..Len(queue)
      BY <1>4, <2>7, <3>1 DEF TimerInv, QueueInv
    <3>2. CASE j \in 1..Len(queue) /\ k = n
      <4>1. queue[j] = <<ti, m_[ti]>>
        BY <1>4, <2>7, <3>2
      <4>2. m_[ti] = NULL
        BY <2>6, <3>2, <4>1
      <4>3. queue'[j][2] = m_[ti]
        BY <1>4, <3>2, <4>1
      <4> QED
        BY <2>7, <4>2, <4>3
    <3>3. CASE k \in 1..Len(queue) /\ j = n
      BY <1>4, <2>6, <2>7, <3>3
    <3>4. CASE j = n /\ k = n
      BY <3>4
    <3> QED
      BY <2>1, <3>1, <3>2, <3>3, <3>4
  <2> QED
    BY <1>2, <2>3, <2>4, <2>7 DEF QueueInv
<1>12. EntriesBelongToTimers' /\ PosInv' /\ ExactInv'
  BY <1>2 DEF TimerInv, EntriesBelongToTimers, PosInv, ExactInv
<1>13. EntryInv' /\ PostInv'
  <2>1. threadPc = "post"
    BY DEF SendTimerMsg, Thread
  <2>2. \A i \in TimerIds : i # ti => m_'[i] = m_[i]
    BY <1>1, <1>3
  <2>3. EntryInv'
    BY <1>1, <1>2, <1>6, <2>1, <2>2 DEF TimerInv, EntryInv, DisArming, Inserting
  <2> QED
    BY <1>1, <1>2, <2>3 DEF PostInv
<1> QED
  BY <1>8, <1>9, <1>10, <1>11, <1>12, <1>13 DEF TimerInv

\* internalDisArm erases the timer's entry and no other.
LEMMA InternalDisArmErases ==
    ASSUME TimerInv, NEW ti \in TimerIds, InternalDisArm(ti), alive \ {ti} \subseteq alive'
    PROVE  /\ EntriesBelongToTimers' /\ PosInv'
           /\ container_' \subseteq Entry /\ containerPos_' \in [TimerIds -> Entry \cup {NoPos}]
           /\ containerPos_'[ti] = NoPos
           /\ \A i \in TimerIds : i # ti => containerPos_'[i] = containerPos_[i]
<1>1. container_ \subseteq Entry /\ containerPos_ \in [TimerIds -> Entry \cup {NoPos}]
  BY DEF TimerInv, Typed, TypeOK
<1>2. /\ container_' = container_ \ {containerPos_[ti]}
      /\ containerPos_' = [containerPos_ EXCEPT ![ti] = NoPos]
  BY DEF InternalDisArm
<1>3. /\ containerPos_'[ti] = NoPos
      /\ \A i \in TimerIds : i # ti => containerPos_'[i] = containerPos_[i]
  BY <1>1, <1>2
<1>4. \A e \in container_ : e[3] \in TimerIds /\ e[3] \in alive /\ containerPos_[e[3]] = e /\ e # NoPos
  BY <1>1, EntryTime DEF TimerInv, EntriesBelongToTimers
<1>5. \A i \in TimerIds : containerPos_[i] # NoPos => containerPos_[i] \in container_ /\ containerPos_[i][3] = i
  BY DEF TimerInv, EntriesBelongToTimers, PosInv
<1>6. \A e \in container_' : e \in container_ /\ e[3] # ti
  BY <1>2, <1>4
<1>7. \A e \in container_' : e[3] \in alive' /\ containerPos_'[e[3]] = e /\ e # NoPos /\ e[3] \in TimerIds
  BY <1>3, <1>4, <1>6
<1>8. \A i \in TimerIds : containerPos_'[i] # NoPos => containerPos_'[i] \in container_'
  <2> SUFFICES ASSUME NEW i \in TimerIds, containerPos_'[i] # NoPos
               PROVE  containerPos_'[i] \in container_'
    OBVIOUS
  <2>1. i # ti /\ containerPos_'[i] = containerPos_[i]
    BY <1>3
  <2>2. containerPos_[i] \in container_ /\ containerPos_[i][3] = i
    BY <1>5, <2>1
  <2>3. containerPos_[ti] # containerPos_[i]
    BY <1>5, <2>1, <2>2
  <2> QED
    BY <1>2, <2>1, <2>2, <2>3
<1>9. container_' = {containerPos_'[i] : i \in TimerIds} \ {NoPos}
  BY <1>7, <1>8
<1>10. PosInv'
  BY <1>3, <1>5 DEF PosInv
<1>11. containerPos_' \in [TimerIds -> Entry \cup {NoPos}]
  BY <1>1, <1>2
<1> QED
  BY <1>1, <1>3, <1>6, <1>7, <1>9, <1>10, <1>11 DEF EntriesBelongToTimers

\* The entry of the posted timer goes.
LEMMA EraseExpiredStep == TimerInv /\ EraseExpired => TimerInv'
<1> SUFFICES ASSUME TimerInv, EraseExpired
             PROVE  TimerInv'
  OBVIOUS
<1>1. threadPc = "erase" /\ threadPc' = "expire"
  BY DEF EraseExpired, Thread
<1>2. PICK ti \in TimerIds : expiring = {ti}
  BY <1>1 DEF TimerInv, PostInv
<1>3. InternalDisArm(ti)
  BY <1>2 DEF EraseExpired
<1>4. /\ UNCHANGED <<now, armedTime_, timeOut_, m_, canceled_, wakeAt, spurious, queue>>
      /\ UNCHANGED <<call, alive, arms, given, armed, dueAt, fired, inserts>> /\ expiring' = {}
  BY <1>3 DEF EraseExpired, InternalDisArm, idVars, ownerVars
<1>5. /\ EntriesBelongToTimers' /\ PosInv'
      /\ container_' \subseteq Entry /\ containerPos_' \in [TimerIds -> Entry \cup {NoPos}]
      /\ containerPos_'[ti] = NoPos
      /\ \A i \in TimerIds : i # ti => containerPos_'[i] = containerPos_[i]
  BY <1>3, <1>4, InternalDisArmErases
<1>6. Typed'
  <2>1. canceled_' \in [TimerIds -> BOOLEAN]
    BY <1>4, Zenon DEF TimerInv, Typed, TypeOK
  <2>2. armed' \subseteq alive'
    BY <1>4 DEF TimerInv, Typed, TypeOK
  <2> QED
    BY <1>1, <1>4, <1>5, <2>1, <2>2 DEF TimerInv, Typed, TypeOK
<1>7. CallInv' /\ CountInv'
  BY <1>4 DEF TimerInv, CallInv, CountInv, Inserting
<1>8. MessageInv' /\ QueueInv' /\ ExactInv'
  BY <1>4 DEF TimerInv, MessageInv, QueueInv, InQueue, ExactInv
<1>9. EntryInv'
  BY <1>2, <1>4, <1>5 DEF TimerInv, EntryInv, DisArming, Inserting
<1>10. PostInv'
  BY <1>1 DEF PostInv
<1> QED
  BY <1>5, <1>6, <1>7, <1>8, <1>9, <1>10 DEF TimerInv

\* Signalling moves the thread only out of a wait.
LEMMA SignalMoves ==
    ASSUME Typed, SignalThread
    PROVE  /\ threadPc' \in {"woken", "test", "asleep", "timed", "timedout", "expire", "post", "erase"}
           /\ threadPc' = "post" <=> threadPc = "post"
           /\ threadPc' = "erase" <=> threadPc = "erase"
  BY DEF Typed, TypeOK, SignalThread

\* Timer::disArm, and the end of ~TimerId.
LEMMA TimerDisArmStep == TimerInv /\ TimerDisArm => TimerInv'
<1> SUFFICES ASSUME TimerInv, TimerDisArm
             PROVE  TimerInv'
  OBVIOUS
<1>1. call[1] \in {"disarm", "delete"} /\ call[2] \in alive /\ call[2] \in TimerIds
  BY DEF TimerInv, CallInv, TimerDisArm, Typed, TypeOK
<1> DEFINE ti == call[2]
<1>2. /\ InternalDisArm(ti) /\ armed' = armed \ {ti} /\ call' = <<"idle">>
      /\ UNCHANGED <<now, armedTime_, timeOut_, m_, canceled_, wakeAt, expiring, queue>>
      /\ UNCHANGED <<arms, given, dueAt, fired, inserts>>
  BY DEF TimerDisArm, InternalDisArm, idVars
<1>3. alive \ {ti} \subseteq alive' /\ alive' \subseteq alive
  BY DEF TimerDisArm
<1>4. threadPc \notin {"post", "erase"} /\ threadPc' \notin {"post", "erase"}
      /\ threadPc' \in {"woken", "test", "asleep", "timed", "timedout", "expire", "post", "erase"}
  BY SignalMoves DEF TimerInv, TimerDisArm, Holding
<1>5. /\ EntriesBelongToTimers' /\ PosInv'
      /\ container_' \subseteq Entry /\ containerPos_' \in [TimerIds -> Entry \cup {NoPos}]
      /\ containerPos_'[ti] = NoPos
      /\ \A i \in TimerIds : i # ti => containerPos_'[i] = containerPos_[i]
  BY <1>1, <1>2, <1>3, InternalDisArmErases
<1>6. Typed'
  <2>1. canceled_' \in [TimerIds -> BOOLEAN]
    BY <1>2, Zenon DEF TimerInv, Typed, TypeOK
  <2>2. armed' \subseteq alive' /\ alive' \subseteq TimerIds
    BY <1>2, <1>3 DEF TimerInv, Typed, TypeOK
  <2> QED
    BY <1>2, <1>4, <1>5, <2>1, <2>2 DEF TimerInv, Typed, TypeOK
<1>7. CallInv'
  BY <1>2 DEF CallInv
<1>8. CountInv'
  <2>1. call'[1] = "idle"
    BY <1>2
  <2>2. ~Inserting(ti) /\ \A i \in TimerIds : ~Inserting(i) /\ ~Inserting(i)'
    BY <1>1, <2>1 DEF Inserting
  <2> QED
    BY <1>2, <2>2 DEF TimerInv, CountInv
<1>9. MessageInv' /\ QueueInv' /\ ExactInv'
  <2>1. m_[ti] = NULL
    BY <1>1 DEF TimerInv, CallInv
  <2> QED
    BY <1>1, <1>2, <2>1 DEF TimerInv, MessageInv, QueueInv, InQueue, ExactInv
<1>10. EntryInv'
  <2>1. call'[1] = "idle"
    BY <1>2
  <2> QED
    BY <1>2, <1>4, <1>5, <2>1 DEF TimerInv, EntryInv, DisArming, Inserting
<1>11. PostInv'
  BY <1>4 DEF PostInv
<1> QED
  BY <1>5, <1>6, <1>7, <1>8, <1>9, <1>10, <1>11 DEF TimerInv

\* Timer::arm: the old entry is gone when the new one is inserted.
LEMMA TimerArmStep == TimerInv /\ TimerArm => TimerInv'
<1> SUFFICES ASSUME TimerInv, TimerArm
             PROVE  TimerInv'
  OBVIOUS
<1> DEFINE ti == call[2]
           entry == <<armedTime_[ti], inserts + 1, ti>>
<1>1. call[1] = "insert" /\ ti \in alive /\ ti \in TimerIds /\ ti \in armed /\ inserts < MaxArms
      /\ m_[ti] = given[ti] /\ fired[ti] = 0
  BY DEF TimerInv, CallInv, TimerArm, Typed, TypeOK
<1>2. /\ container_' = container_ \cup {entry}
      /\ containerPos_' = [containerPos_ EXCEPT ![ti] = entry]
      /\ inserts' = inserts + 1 /\ call' = <<"signal", ti>>
      /\ UNCHANGED <<now, armedTime_, timeOut_, m_, canceled_, threadPc, wakeAt, expiring, queue>>
      /\ UNCHANGED <<alive, arms, given, armed, dueAt, fired>>
  BY DEF TimerArm, idVars, threadVars
<1>3. threadPc \notin {"post", "erase"}
  BY DEF TimerArm, Holding
<1>4. containerPos_[ti] = NoPos
  BY <1>1, <1>3 DEF TimerInv, EntryInv, Inserting
<1>5. /\ container_ \subseteq Entry /\ containerPos_ \in [TimerIds -> Entry \cup {NoPos}]
      /\ armedTime_ \in [TimerIds -> Times] /\ inserts \in 0..MaxArms
  BY DEF TimerInv, Typed, TypeOK
<1>6. entry \in Entry /\ inserts + 1 \in 0..MaxArms
  <2>1. inserts + 1 \in 1..MaxArms /\ inserts + 1 \in 0..MaxArms
    BY <1>1, <1>5, BoundsAssumption
  <2> QED
    BY <1>1, <1>5, <2>1 DEF Entry
<1>7. entry # NoPos /\ entry[3] = ti /\ entry[1] = armedTime_[ti]
  BY <1>6, EntryTime
<1> HIDE DEF entry, ti
<1>8. Typed'
  <2>1. canceled_' \in [TimerIds -> BOOLEAN]
    BY <1>2, Zenon DEF TimerInv, Typed, TypeOK
  <2>2. armed' \subseteq alive' /\ container_' \subseteq Entry
    BY <1>2, <1>5, <1>6 DEF TimerInv, Typed, TypeOK
  <2>3. containerPos_' \in [TimerIds -> Entry \cup {NoPos}]
    BY <1>2, <1>5, <1>6
  <2> QED
    BY <1>2, <1>6, <2>1, <2>2, <2>3 DEF TimerInv, Typed, TypeOK
<1>9. call'[1] = "signal" /\ call'[2] = ti
  BY <1>2
<1>10. CallInv'
  BY <1>1, <1>2, <1>9 DEF CallInv, Steps
<1>11. CountInv'
  <2>1. \A i \in TimerIds : ~Inserting(i)'
    BY <1>9 DEF Inserting
  <2>2. \A i \in TimerIds : arms[i] <= inserts + 1
    BY <1>5, BoundsAssumption DEF TimerInv, Typed, CountInv
  <2> QED
    BY <1>2, <2>1, <2>2 DEF TimerInv, CountInv
<1>12. MessageInv' /\ QueueInv' /\ ExactInv'
  BY <1>2 DEF TimerInv, MessageInv, QueueInv, InQueue, ExactInv
<1>13. containerPos_'[ti] = entry /\ \A i \in TimerIds : i # ti => containerPos_'[i] = containerPos_[i]
  BY <1>1, <1>2, <1>5
<1>14. PosInv'
  BY <1>7, <1>13 DEF TimerInv, PosInv
<1>15. EntriesBelongToTimers'
  <2>1. \A e \in container_ : e[3] \in TimerIds /\ e[3] # ti
    BY <1>4, <1>5, EntryTime DEF TimerInv, EntriesBelongToTimers
  <2>2. \A e \in container_' : e[3] \in alive' /\ containerPos_'[e[3]] = e /\ e[3] \in TimerIds /\ e # NoPos
    BY <1>1, <1>2, <1>5, <1>7, <1>13, <2>1, EntryTime DEF TimerInv, EntriesBelongToTimers
  <2>3. \A i \in TimerIds : containerPos_'[i] # NoPos => containerPos_'[i] \in container_'
    BY <1>2, <1>13 DEF TimerInv, EntriesBelongToTimers
  <2> QED
    BY <2>2, <2>3 DEF EntriesBelongToTimers
<1>16. EntryInv'
  <2> SUFFICES ASSUME NEW i \in TimerIds, containerPos_'[i] # NoPos
               PROVE  /\ i \in armed' /\ ~Inserting(i)' /\ containerPos_'[i][1] = armedTime_'[i]
                      /\ fired'[i] = 0 /\ (m_'[i] = given'[i] \/ DisArming(i)')
    BY DEF EntryInv
  <2>1. ~Inserting(i)'
    BY <1>9 DEF Inserting
  <2>2. CASE i = ti
    BY <1>1, <1>2, <1>7, <1>13, <2>1, <2>2
  <2>3. CASE i # ti
    BY <1>1, <1>2, <1>3, <1>13, <2>1, <2>3 DEF TimerInv, EntryInv, DisArming
  <2> QED
    BY <2>2, <2>3
<1>17. PostInv'
  BY <1>2, <1>3 DEF PostInv
<1> QED
  BY <1>8, <1>10, <1>11, <1>12, <1>14, <1>15, <1>16, <1>17 DEF TimerInv

\* The signal after the insertion.
LEMMA TimerArmSignalStep == TimerInv /\ TimerArmSignal => TimerInv'
<1> SUFFICES ASSUME TimerInv, TimerArmSignal
             PROVE  TimerInv'
  OBVIOUS
<1>1. /\ call[1] = "signal" /\ call' = <<"idle">> /\ call'[1] = "idle"
      /\ UNCHANGED <<now, armedTime_, timeOut_, m_, canceled_, container_, containerPos_, inserts>>
      /\ UNCHANGED <<wakeAt, expiring, queue, alive, arms, given, armed, dueAt, fired>>
  BY DEF TimerArmSignal, idVars, containerVars
<1>2. /\ threadPc' \in {"woken", "test", "asleep", "timed", "timedout", "expire", "post", "erase"}
      /\ threadPc' = "post" <=> threadPc = "post"
      /\ threadPc' = "erase" <=> threadPc = "erase"
  BY SignalMoves DEF TimerInv, TimerArmSignal, ArmSignal
<1>3. Typed'
  <2>1. canceled_' \in [TimerIds -> BOOLEAN]
    BY <1>1, Zenon DEF TimerInv, Typed, TypeOK
  <2>2. armed' \subseteq alive'
    BY <1>1 DEF TimerInv, Typed, TypeOK
  <2> QED
    BY <1>1, <1>2, <2>1, <2>2 DEF TimerInv, Typed, TypeOK
<1>4. CallInv'
  BY <1>1 DEF CallInv
<1>5. \A ti \in TimerIds : ~Inserting(ti) /\ ~Inserting(ti)' /\ ~DisArming(ti) /\ ~DisArming(ti)'
  BY <1>1 DEF Inserting, DisArming
<1>6. CountInv'
  BY <1>1, <1>5 DEF TimerInv, CountInv
<1>7. MessageInv' /\ QueueInv' /\ ExactInv'
  BY <1>1 DEF TimerInv, MessageInv, QueueInv, InQueue, ExactInv
<1>8. EntriesBelongToTimers' /\ PosInv'
  BY <1>1 DEF TimerInv, EntriesBelongToTimers, PosInv
<1>9. EntryInv'
  BY <1>1, <1>2, <1>5 DEF TimerInv, EntryInv
<1>10. PostInv'
  BY <1>1, <1>2 DEF TimerInv, PostInv
<1> QED
  BY <1>3, <1>4, <1>6, <1>7, <1>8, <1>9, <1>10 DEF TimerInv

\* The first critical section of disArm(): the message is deleted.
LEMMA DisArmStep ==
    ASSUME TimerInv, NEW ti \in TimerIds, NEW step \in {"disarm", "delete"}, DisArm(ti, step)
    PROVE  TimerInv'
<1>1. /\ call[1] = "idle" /\ ti \in alive /\ ~HoldingId(ti)
      /\ m_' = [m_ EXCEPT ![ti] = NULL]
      /\ call' = <<step, ti>> /\ call'[1] = step /\ call'[2] = ti
      /\ UNCHANGED <<now, armedTime_, timeOut_, container_, containerPos_, inserts>>
      /\ UNCHANGED <<threadPc, wakeAt, expiring, queue, alive, arms, given, armed, dueAt, fired>>
  BY DEF DisArm, containerVars, threadVars
<1>2. m_ \in [TimerIds -> 0..MaxArms] /\ m_' \in [TimerIds -> 0..MaxArms]
  BY <1>1, BoundsAssumption DEF TimerInv, Typed, TypeOK, NULL
<1>3. m_'[ti] = NULL /\ \A i \in TimerIds : i # ti => m_'[i] = m_[i]
  BY <1>1, <1>2
<1>4. Typed'
  <2>1. canceled_' \in [TimerIds -> BOOLEAN]
    BY DEF TimerInv, Typed, TypeOK, DisArm
  <2>2. armed' \subseteq alive'
    BY <1>1 DEF TimerInv, Typed, TypeOK
  <2> QED
    BY <1>1, <1>2, <2>1, <2>2 DEF TimerInv, Typed, TypeOK
<1>5. CallInv'
  <2>1. call' \in Steps \X alive' /\ call'[1] # "insert"
    BY <1>1 DEF Steps
  <2> QED
    BY <1>1, <1>3, <2>1 DEF CallInv
<1>6. \A i \in TimerIds : ~Inserting(i) /\ ~Inserting(i)' /\ ~DisArming(i)
  BY <1>1 DEF Inserting, DisArming
<1>7. CountInv'
  BY <1>1, <1>6 DEF TimerInv, CountInv
<1>8. MessageInv'
  BY <1>1, <1>3 DEF TimerInv, MessageInv
<1>9. QueueInv' /\ ExactInv'
  BY <1>1 DEF TimerInv, QueueInv, InQueue, ExactInv
<1>10. EntriesBelongToTimers' /\ PosInv' /\ PostInv'
  BY <1>1 DEF TimerInv, EntriesBelongToTimers, PosInv, PostInv
<1>11. DisArming(ti)'
  BY <1>1 DEF DisArming
<1>12. EntryInv'
  BY <1>1, <1>3, <1>6, <1>11 DEF TimerInv, EntryInv
<1> QED
  BY <1>4, <1>5, <1>7, <1>8, <1>9, <1>10, <1>12 DEF TimerInv

\* Receiving the message of an arming means that it was posted, so that its timer is
\* in the container no more, or about to be erased.
LEMMA ReceiveStep == TimerInv /\ Receive => TimerInv'
<1> SUFFICES ASSUME TimerInv, Receive
             PROVE  TimerInv'
  OBVIOUS
<1>1. /\ call = <<"idle">> /\ call[1] = "idle" /\ queue # <<>>
      /\ queue' = Tail(queue)
      /\ armed' = {ti \in armed : Head(queue) # <<ti, given[ti]>>}
      /\ UNCHANGED <<now, armedTime_, timeOut_, m_, canceled_, container_, containerPos_, inserts>>
      /\ UNCHANGED <<threadPc, wakeAt, expiring, call, alive, arms, given, dueAt, fired>>
  BY DEF Receive, idVars, containerVars, threadVars
<1>2. /\ queue \in Seq(TimerIds \X (0..MaxArms)) /\ Len(queue) <= QueueSize /\ armed \subseteq alive
      /\ arms \in [TimerIds -> 0..MaxArms] /\ fired \in [TimerIds -> Nat]
  BY DEF TimerInv, Typed, TypeOK
<1>3. /\ queue' \in Seq(TimerIds \X (0..MaxArms))
      /\ Len(queue) \in Nat /\ Len(queue) > 0 /\ Len(queue') = Len(queue) - 1
      /\ \A k \in 1..Len(queue') : k + 1 \in 1..Len(queue) /\ queue'[k] = queue[k + 1]
      /\ Head(queue) = queue[1]
  BY <1>1, <1>2
<1>4. Len(queue') <= QueueSize
  BY <1>2, <1>3, SizeAssumption
<1>5. /\ armed' \subseteq armed
      /\ \A ti \in armed : fired[ti] = 0 => ti \in armed'
  <2>1. ASSUME NEW ti \in armed, fired[ti] = 0
        PROVE  Head(queue) # <<ti, given[ti]>>
    <3>1. ~InQueue(<<ti, given[ti]>>)
      BY <2>1 DEF TimerInv, QueueInv
    <3>2. 1 \in 1..Len(queue)
      BY <1>3
    <3> QED
      BY <1>3, <3>1, <3>2 DEF InQueue
  <2> QED
    BY <1>1, <2>1
<1>6. Typed'
  <2>1. canceled_' \in [TimerIds -> BOOLEAN]
    BY <1>1, Zenon DEF TimerInv, Typed, TypeOK
  <2>2. armed' \subseteq alive'
    BY <1>1, <1>2, <1>5
  <2> QED
    BY <1>1, <1>3, <1>4, <2>1, <2>2 DEF TimerInv, Typed, TypeOK
<1>7. CallInv'
  BY <1>1 DEF CallInv
<1>8. CountInv'
  BY <1>1, <1>5 DEF TimerInv, CountInv, Inserting
<1>9. MessageInv' /\ ExactInv'
  BY <1>1, <1>5 DEF TimerInv, MessageInv, ExactInv
<1>10. QueueInv'
  <2>1. \A k \in 1..Len(queue') : queue'[k][2] <= arms'[queue'[k][1]]
    BY <1>1, <1>3 DEF TimerInv, QueueInv
  <2>2. ASSUME NEW j \in 1..Len(queue'), NEW k \in 1..Len(queue'), queue'[j] = queue'[k],
               queue'[j][2] # NULL
        PROVE  j = k
    <3>2. j + 1 \in 1..Len(queue) /\ queue'[j] = queue[j + 1]
      BY <1>3
    <3>3. k + 1 \in 1..Len(queue) /\ queue'[k] = queue[k + 1]
      BY <1>3
    <3>4. queue[j + 1] = queue[k + 1] /\ queue[j + 1][2] # NULL
      BY <2>2, <3>2, <3>3
    <3>1. j + 1 = k + 1
      BY <3>2, <3>3, <3>4 DEF TimerInv, QueueInv
    <3> QED
      BY <1>3, <3>1
  <2>3. ASSUME NEW ti \in armed', fired'[ti] = 0
        PROVE  ~InQueue(<<ti, given[ti]>>)'
    <3>1. ~InQueue(<<ti, given[ti]>>)
      BY <1>1, <1>5, <2>3 DEF TimerInv, QueueInv
    <3> QED
      BY <1>1, <1>3, <3>1 DEF InQueue
  <2> QED
    BY <1>1, <2>1, <2>2, <2>3 DEF QueueInv
<1>11. EntriesBelongToTimers' /\ PosInv' /\ PostInv'
  BY <1>1 DEF TimerInv, EntriesBelongToTimers, PosInv, PostInv
<1>12. EntryInv'
  <2>2. \A ti \in TimerIds : ~DisArming(ti) /\ ~Inserting(ti) /\ ~Inserting(ti)'
    BY <1>1 DEF DisArming, Inserting
  <2> QED
    BY <1>1, <1>5, <2>2 DEF TimerInv, EntryInv
<1> QED
  BY <1>6, <1>7, <1>8, <1>9, <1>10, <1>11, <1>12 DEF TimerInv

\* The first critical section of arm() and of reArm(): the timer gets a new message
\* and a new time, while its old entry, if there is one, is about to be erased.
LEMMA Arming ==
    ASSUME TimerInv, NEW ti \in alive, NEW due \in 0..MaxTime, NEW m, MayGive(ti, m),
           call = <<"idle">>, ti \notin armed, ~HoldingId(ti), inserts < MaxArms,
           timeOut_' \in [TimerIds -> Timeouts \cup {0}],
           armedTime_' = [armedTime_ EXCEPT ![ti] = CurrentTime(due)],
           dueAt' = [dueAt EXCEPT ![ti] = due],
           m_' = [m_ EXCEPT ![ti] = m],
           canceled_' = [canceled_ EXCEPT ![ti] = FALSE],
           arms' = [arms EXCEPT ![ti] = @ + 1],
           given' = [given EXCEPT ![ti] = m],
           fired' = [fired EXCEPT ![ti] = 0],
           armed' = armed \cup {ti},
           call' = <<"insert", ti>>,
           UNCHANGED <<now, containerVars, threadVars, queue, alive>>
    PROVE  TimerInv'
<1>1. /\ UNCHANGED <<now, container_, containerPos_, inserts, threadPc, wakeAt, expiring>>
      /\ UNCHANGED <<queue, alive>>
  BY DEF containerVars, threadVars
<1>2. /\ call[1] = "idle" /\ call'[1] = "insert" /\ call'[2] = ti
      /\ ti \in TimerIds /\ alive \subseteq TimerIds /\ armed \subseteq alive
  BY DEF TimerInv, Typed, TypeOK
<1>3. /\ m_ \in [TimerIds -> 0..MaxArms] /\ arms \in [TimerIds -> 0..MaxArms]
      /\ dueAt \in [TimerIds -> 0..MaxTime] /\ armedTime_ \in [TimerIds -> Times]
      /\ inserts \in 0..MaxArms
      /\ given \in [TimerIds -> 0..MaxArms] /\ fired \in [TimerIds -> Nat]
  BY DEF TimerInv, Typed, TypeOK
<1>4. \A i \in TimerIds : ~Inserting(i) /\ ~DisArming(i) /\ ~DisArming(i)' /\ (Inserting(i)' <=> i = ti)
  BY <1>2 DEF Inserting, DisArming
<1>5. \A i \in TimerIds : arms[i] <= inserts
  BY <1>4 DEF TimerInv, CountInv
<1>6. arms[ti] + 1 \in 0..MaxArms /\ arms[ti] + 1 <= inserts + 1 /\ arms[ti] + 1 > 0
      /\ m \in 0..MaxArms /\ m <= arms[ti] + 1
  BY <1>2, <1>3, <1>5, BoundsAssumption DEF MayGive, NULL
<1>7. /\ m_'[ti] = m /\ given'[ti] = m /\ fired'[ti] = 0 /\ arms'[ti] = arms[ti] + 1 /\ dueAt'[ti] = due
      /\ armedTime_'[ti] = CurrentTime(due)
      /\ \A i \in TimerIds : i # ti => /\ m_'[i] = m_[i] /\ arms'[i] = arms[i]
                                       /\ given'[i] = given[i] /\ fired'[i] = fired[i]
                                       /\ dueAt'[i] = dueAt[i] /\ armedTime_'[i] = armedTime_[i]
  BY <1>2, <1>3
<1>8. Typed'
  <2>1. canceled_' \in [TimerIds -> BOOLEAN]
    BY DEF TimerInv, Typed, TypeOK
  <2>2. armed' \subseteq alive'
    BY <1>1, <1>2
  <2>3. m_' \in [TimerIds -> 0..MaxArms] /\ arms' \in [TimerIds -> 0..MaxArms]
    BY <1>3, <1>6
  <2>6. given' \in [TimerIds -> 0..MaxArms] /\ fired' \in [TimerIds -> Nat]
    BY <1>3, <1>6
  <2>4. dueAt' \in [TimerIds -> 0..MaxTime]
    BY <1>3
  <2>5. armedTime_' \in [TimerIds -> Times]
    BY <1>3 DEF Times
  <2> QED
    BY <1>1, <2>1, <2>2, <2>3, <2>4, <2>5, <2>6 DEF TimerInv, Typed, TypeOK
<1>9. CallInv'
  <2>1. call' \in Steps \X alive'
    BY <1>1 DEF Steps
  <2> QED
    BY <1>1, <1>2, <1>7, <2>1 DEF CallInv
<1>10. CountInv'
  <2>1. arms'[ti] <= inserts' + 1 /\ arms'[ti] > 0
    BY <1>1, <1>6, <1>7
  <2>2. \A i \in TimerIds : i # ti => arms'[i] <= inserts' /\ (i \in armed' => arms'[i] > 0)
    BY <1>1, <1>5, <1>7 DEF TimerInv, CountInv
  <2> QED
    BY <1>4, <2>1, <2>2 DEF CountInv
<1>11. MessageInv'
  <2>1. \A i \in TimerIds : i \in armed' <=> i \in armed \/ i = ti
    BY <1>2
  <2> QED
    BY <1>6, <1>7, <2>1 DEF TimerInv, MessageInv
<1>12. QueueInv'
  <2>1. queue \in Seq(TimerIds \X (0..MaxArms))
    BY DEF TimerInv, Typed, TypeOK
  <2>2. \A k \in 1..Len(queue) : queue[k][1] \in TimerIds /\ queue[k][2] \in Nat
    BY <2>1, BoundsAssumption
  <2>3. \A i \in TimerIds : arms[i] \in Nat /\ arms'[i] \in Nat /\ arms[i] <= arms'[i]
    BY <1>3, <1>7, BoundsAssumption
  <2>4. \A x, y, z \in Nat : x <= y /\ y <= z => x <= z
    OBVIOUS
  <2>5. \A k \in 1..Len(queue) : queue[k][2] <= arms'[queue[k][1]]
    BY <2>2, <2>3, <2>4 DEF TimerInv, QueueInv
  <2>6. ~InQueue(<<ti, m>>)
    <3>1. ASSUME m = arms[ti] + 1, NEW k \in 1..Len(queue), queue[k] = <<ti, m>>
          PROVE  FALSE
      <4>1. queue[k][1] = ti /\ queue[k][2] = arms[ti] + 1
        BY <3>1
      <4>2. arms[ti] + 1 <= arms[ti]
        BY <4>1 DEF TimerInv, QueueInv
      <4> QED
        BY <1>2, <2>3, <4>2
    <3> QED
      BY <3>1 DEF MayGive, InQueue, NULL
  <2>7. ASSUME NEW i \in armed', fired'[i] = 0
        PROVE  ~InQueue(<<i, given'[i]>>)
    <3>1. CASE i = ti
      BY <1>7, <2>6, <3>1
    <3>2. CASE i # ti
      BY <1>2, <1>7, <2>7, <3>2 DEF TimerInv, QueueInv
    <3> QED
      BY <3>1, <3>2
  <2>8. \A i \in armed' : fired'[i] = 0 => ~InQueue(<<i, given[i]>>)'
    BY <1>1, <2>7 DEF InQueue
  <2> QED
    BY <1>1, <2>5, <2>8 DEF TimerInv, QueueInv
<1>16. EntriesBelongToTimers' /\ PosInv'
  BY <1>1 DEF TimerInv, EntriesBelongToTimers, PosInv
<1>13. EntryInv'
  BY <1>1, <1>4, <1>7 DEF TimerInv, EntryInv
<1>14. PostInv'
  <2>1. threadPc = "post" => ti \notin expiring
    BY DEF HoldingId
  <2>2. expiring \subseteq TimerIds
    BY DEF TimerInv, Typed, TypeOK
  <2> QED
    BY <1>1, <1>7, <2>1, <2>2 DEF TimerInv, PostInv
<1>15. ExactInv'
  BY <1>7 DEF TimerInv, ExactInv
<1> QED
  BY <1>8, <1>9, <1>10, <1>11, <1>12, <1>13, <1>14, <1>15, <1>16 DEF TimerInv

\* TimerId::arm.
LEMMA ArmStep ==
    ASSUME TimerInv, NEW ti \in TimerIds, NEW timeout \in Timeouts, NEW m, Arm(ti, timeout, m)
    PROVE  TimerInv'
<1>1. now \in Nat /\ timeout \in Nat /\ now + timeout < MaxTime
  BY BoundsAssumption, SizeAssumption DEF TimerInv, Typed, TypeOK, Arm
<1>2. now + timeout \in 0..MaxTime
  BY <1>1, BoundsAssumption
<1>3. PlusMsec(CurrentTime(now), timeout) = CurrentTime(now + timeout)
  BY <1>1, PlusMsecExact
<1>4. timeOut_' \in [TimerIds -> Timeouts \cup {0}]
  BY DEF TimerInv, Typed, TypeOK, Arm
<1> QED
  BY <1>2, <1>3, <1>4, Arming DEF Arm

\* TimerId::reArm.
LEMMA ReArmStep ==
    ASSUME TimerInv, NEW ti \in TimerIds, NEW m, ReArm(ti, m)
    PROVE  TimerInv'
<1>1. dueAt[ti] \in Nat /\ timeOut_[ti] \in Nat /\ dueAt[ti] + timeOut_[ti] < MaxTime
  <2>1. dueAt[ti] \in 0..MaxTime /\ timeOut_[ti] \in Timeouts \cup {0}
    BY DEF TimerInv, Typed, TypeOK
  <2>2. timeOut_[ti] \in Nat
    BY <2>1, SizeAssumption
  <2> QED
    BY <2>1, <2>2, BoundsAssumption DEF ReArm
<1>2. dueAt[ti] + timeOut_[ti] \in 0..MaxTime
  BY <1>1, BoundsAssumption
<1>3. PlusMsec(armedTime_[ti], timeOut_[ti]) = CurrentTime(dueAt[ti] + timeOut_[ti])
  BY <1>1, PlusMsecExact DEF TimerInv, ExactInv
<1>4. timeOut_' \in [TimerIds -> Timeouts \cup {0}]
  BY DEF TimerInv, Typed, TypeOK, ReArm
<1>5. /\ armedTime_' = [armedTime_ EXCEPT ![ti] = CurrentTime(dueAt[ti] + timeOut_[ti])]
      /\ dueAt' = [dueAt EXCEPT ![ti] = dueAt[ti] + timeOut_[ti]]
  BY <1>3 DEF ReArm
<1> QED
  BY <1>2, <1>4, <1>5, Arming DEF ReArm

-----------------------------------------------------------------------------
(* The theorems *)

\* Every step preserves the invariant.
LEMMA NextTimer == TimerInv /\ [Next]_vars => TimerInv'
<1> SUFFICES ASSUME TimerInv, [Next]_vars
             PROVE  TimerInv'
  OBVIOUS
<1>1. CASE Owner
  <2>1. CASE \E ti \in TimerIds, timeout \in Timeouts, m \in 0..MaxArms : Arm(ti, timeout, m)
    BY <2>1, ArmStep
  <2>2. CASE \E ti \in TimerIds, m \in 0..MaxArms : ReArm(ti, m)
    BY <2>2, ReArmStep
  <2>3. CASE \E ti \in TimerIds, step \in {"disarm", "delete"} : DisArm(ti, step)
    BY <2>3, DisArmStep
  <2>4. CASE InCall
    BY <2>4, TimerArmStep, TimerArmSignalStep, TimerDisArmStep DEF InCall
  <2>5. CASE Receive
    BY <2>5, ReceiveStep
  <2> QED
    BY <1>1, <2>1, <2>2, <2>3, <2>4, <2>5 DEF Owner
<1>2. CASE TimerThread
  BY <1>2, RelockStep, WaitSteps, WaitForDeadlineStep, ExpireStep, SendTimerMsgStep,
     EraseExpiredStep DEF TimerThread
<1>3. CASE WakeSpuriously
  BY <1>3, WaitSteps
<1>4. CASE Tick
  BY <1>4, TickStep
<1>5. CASE UNCHANGED vars
  <2>1. UNCHANGED <<idVars, containerVars, threadVars, queue, ownerVars, fired>> /\ now' = now
    BY <1>5 DEF vars
  <2>2. Typed'
    BY <2>1, ThreadTyped DEF TimerInv, Typed, TypeOK, threadVars
  <2>3. EntryInv'
    BY <2>1 DEF TimerInv, EntryInv, DisArming, Inserting, threadVars, idVars, containerVars, ownerVars
  <2>4. PostInv'
    BY <2>1 DEF TimerInv, PostInv, threadVars, containerVars, ownerVars
  <2> QED
    BY <2>1, <2>2, <2>3, <2>4, TimersAlone DEF TimerInv
<1> QED
  BY <1>1, <1>2, <1>3, <1>4, <1>5 DEF Next

\* The owner's calls and Timer::run preserve the invariant, for any number of
\* timers, any queue size and any timeouts.
THEOREM TimerInvariance == Spec => []TimerInv
  BY InitTimer, NextTimer, PTL DEF Spec

\* Every variable of the timers has its type; in particular the owner waits for no
\* message of a timer it has deleted.
THEOREM TimerTypeCorrect == Spec => []TypeOK
<1>1. TimerInv => TypeOK
  BY DEF TimerInv, Typed
<1> QED
  BY <1>1, TimerInvariance, PTL

\* The container holds the entries of the armed timers, one each, and none of a
\* deleted timer, although arm() and disArm() give up the lock of the timer before
\* they take the one of the container.
THEOREM NoStrayEntry == Spec => []EntriesBelongToTimers
<1>1. TimerInv => EntriesBelongToTimers
  BY DEF TimerInv
<1> QED
  BY <1>1, TimerInvariance, PTL

\* A message is with its timer, in the queue or with the reader, never with two of
\* them: disArm() deletes no message that sendTimerMsg() has handed over.
THEOREM NoMessageDeletedTwice == Spec => []MessageHasOneOwner
<1>1. TimerInv => MessageHasOneOwner
  <2> SUFFICES ASSUME TimerInv, NEW ti \in TimerIds
               PROVE  /\ m_[ti] # NULL => fired[ti] = 0 /\ ~InQueue(<<ti, m_[ti]>>)
                      /\ \A j, k \in 1..Len(queue) :
                             queue[j] = queue[k] /\ queue[j][2] # NULL => j = k
    BY DEF MessageHasOneOwner
  <2>1. m_[ti] # NULL => m_[ti] = given[ti] /\ ti \in armed /\ fired[ti] = 0
    BY DEF TimerInv, MessageInv
  <2>2. m_[ti] # NULL => ~InQueue(<<ti, m_[ti]>>)
    BY <2>1 DEF TimerInv, QueueInv
  <2>3. \A j, k \in 1..Len(queue) : queue[j] = queue[k] /\ queue[j][2] # NULL => j = k
    BY DEF TimerInv, QueueInv
  <2> QED
    BY <2>1, <2>2, <2>3
<1> QED
  BY <1>1, TimerInvariance, PTL

\* The arithmetic of osapi::Time computes every expiry time exactly, operator< sorts
\* the container by the numbers, and operator-= says how long to wait.
THEOREM TimeArithmeticExact == Spec => []TimesExact
<1>1. TimerInv => TimesExact
  <2> SUFFICES ASSUME TimerInv
               PROVE  TimesExact
    OBVIOUS
  <2>1. ASSUME NEW ti \in TimerIds
        PROVE  Normalised(armedTime_[ti]) /\ Value(armedTime_[ti]) = dueAt[ti]
    <3>1. dueAt[ti] \in Nat /\ armedTime_[ti] = CurrentTime(dueAt[ti])
      BY BoundsAssumption DEF TimerInv, Typed, ExactInv
    <3> QED
      BY <3>1, CurrentTimeExact
  <2>2. \A e, f \in container_ : Less(e[1], f[1]) <=> Value(e[1]) < Value(f[1])
    BY EntriesSorted DEF TimerInv, Typed, TypeOK
  <2>3. container_ # {} => Normalised(Deadline) /\ TotalMSecs(Deadline) = Value(Begin[1]) - now
    BY DeadlineExact DEF TimerInv
  <2> QED
    BY <2>1, <2>2, <2>3 DEF TimesExact
<1> QED
  BY <1>1, TimerInvariance, PTL

\* The only step that posts is sendTimerMsg; arm() and reArm() start a new count.
LEMMA OnlySendPosts ==
    ASSUME TimerInv, [Next]_vars, ~SendTimerMsg
    PROVE  /\ \A ti \in TimerIds : ~(fired'[ti] > fired[ti])
           /\ queue' = queue \/ (queue # <<>> /\ queue' = Tail(queue))
<1>1. /\ \/ fired' = fired
         \/ \E ti \in TimerIds : fired' = [fired EXCEPT ![ti] = 0]
      /\ queue' = queue \/ (queue # <<>> /\ queue' = Tail(queue))
  <2>1. CASE Owner
    BY <2>1 DEF Owner, Arm, ReArm, DisArm, InCall, TimerArm, TimerArmSignal, TimerDisArm, Receive
  <2>2. CASE TimerThread
    BY <2>2 DEF TimerThread, Relock, WaitForTimer, WaitForDeadline, WaitTimedOut, Expire, EraseExpired
  <2>3. CASE WakeSpuriously \/ Tick \/ UNCHANGED vars
    BY <2>3 DEF WakeSpuriously, Tick, vars
  <2> QED
    BY <2>1, <2>2, <2>3 DEF Next
<1>2. fired \in [TimerIds -> Nat]
  BY DEF TimerInv, Typed
<1>3. \A ti \in TimerIds : fired[ti] \in Nat /\ fired'[ti] \in {fired[ti], 0}
  BY <1>1, <1>2
<1>4. \A ti \in TimerIds : ~(fired'[ti] > fired[ti])
  BY <1>3
<1> QED
  BY <1>1, <1>4

\* What a step appends to the queue comes from sendTimerMsg, and so with all that is
\* known of the timer it posts for.
LEMMA PostIsSend ==
    ASSUME TimerInv, [Next]_vars, Len(queue') > Len(queue)
    PROVE  SendTimerMsg
<1>1. queue \in Seq(TimerIds \X (0..MaxArms))
  BY DEF TimerInv, Typed, TypeOK
<1>2. Len(queue) \in Nat /\ (queue # <<>> => Len(Tail(queue)) = Len(queue) - 1)
  BY <1>1
<1>3. ASSUME queue # <<>>, queue' = Tail(queue)
      PROVE  FALSE
  BY <1>2, <1>3
<1>4. queue' # queue
  BY <1>2
<1> QED
  BY <1>3, <1>4, OnlySendPosts

\* A timer never posts early, and what it posts is its first post since it was armed,
\* whether it was armed with a message or without.
THEOREM PostsOnceAndInTime == Spec => NeverEarlyNeverTwice
<1>1. ASSUME TimerInv, [Next]_vars, NEW ti \in TimerIds, fired'[ti] > fired[ti]
      PROVE  fired[ti] = 0 /\ now >= dueAt[ti]
  <2>1. SendTimerMsg
    BY <1>1, OnlySendPosts
  <2>2. PICK i \in TimerIds :
              /\ dueAt[i] <= now /\ fired[i] = 0 /\ fired' = [fired EXCEPT ![i] = 1]
    BY <1>1, <2>1, PostedTimer
  <2>3. fired \in [TimerIds -> Nat]
    BY <1>1 DEF TimerInv, Typed
  <2>4. i = ti
    BY <1>1, <2>2, <2>3
  <2>5. now \in Nat /\ dueAt[ti] \in Nat
    BY <1>1, BoundsAssumption DEF TimerInv, Typed, TypeOK
  <2> QED
    BY <2>2, <2>4, <2>5
<1>2. TimerInv /\ [Next]_vars =>
        [\A ti \in TimerIds : fired'[ti] > fired[ti] => fired[ti] = 0 /\ now >= dueAt[ti]]_vars
  BY <1>1
<1> QED
  BY <1>2, TimerInvariance, PTL DEF Spec, NeverEarlyNeverTwice

\* A timer whose disArm() or destructor has returned posts nothing until it is armed
\* again.
THEOREM NothingAfterDisArm == Spec => QuietAfterDisArm
<1>1. ASSUME TimerInv, [Next]_vars, NEW ti \in TimerIds, Len(queue') > Len(queue),
             queue'[Len(queue')][1] = ti
      PROVE  ti \in armed
  <2>1. PICK i \in TimerIds : i \in armed /\ queue' = Append(queue, <<i, m_[i]>>)
    BY <1>1, PostIsSend, PostedTimer
  <2>2. queue \in Seq(TimerIds \X (0..MaxArms)) /\ <<i, m_[i]>> \in TimerIds \X (0..MaxArms)
    BY <1>1 DEF TimerInv, Typed, TypeOK
  <2>3. Len(queue') = Len(queue) + 1 /\ queue'[Len(queue) + 1] = <<i, m_[i]>>
    BY <2>1, <2>2
  <2>4. queue'[Len(queue')][1] = i
    BY <2>3
  <2> QED
    BY <1>1, <2>1, <2>4
<1>2. TimerInv /\ [Next]_vars =>
        [\A ti \in TimerIds :
            Len(queue') > Len(queue) /\ queue'[Len(queue')][1] = ti => ti \in armed]_vars
  BY <1>1
<1> QED
  BY <1>2, TimerInvariance, PTL DEF Spec, QuietAfterDisArm

\* A timer posts what it was last armed with, or NULL while its disArm() or destructor
\* is between its two critical sections.
THEOREM PostsAreWhatWasGiven == Spec => PostsWhatWasGiven
<1>1. ASSUME TimerInv, [Next]_vars, NEW ti \in TimerIds, NEW m \in 0..MaxArms,
             queue' = Append(queue, <<ti, m>>)
      PROVE  \/ m = given[ti]
             \/ m = NULL /\ call \in {<<"disarm", ti>>, <<"delete", ti>>}
  <2>1. queue \in Seq(TimerIds \X (0..MaxArms)) /\ <<ti, m>> \in TimerIds \X (0..MaxArms)
    BY <1>1 DEF TimerInv, Typed, TypeOK
  <2>2. /\ Len(queue) \in Nat /\ Len(queue') = Len(queue) + 1
        /\ queue'[Len(queue) + 1] = <<ti, m>>
    BY <1>1, <2>1
  <2>3. SendTimerMsg
    BY <1>1, <2>2, PostIsSend
  <2>4. PICK i \in TimerIds : /\ m_[i] = given[i] \/ DisArming(i)
                              /\ queue' = Append(queue, <<i, m_[i]>>)
    BY <1>1, <2>3, PostedTimer
  <2>5. <<i, m_[i]>> \in TimerIds \X (0..MaxArms)
    BY <1>1 DEF TimerInv, Typed, TypeOK
  <2>6. queue'[Len(queue) + 1] = <<i, m_[i]>>
    BY <2>1, <2>4, <2>5
  <2>7. i = ti /\ m_[ti] = m
    BY <2>2, <2>6
  <2>8. CASE DisArming(ti)
    <3>1. call[1] \in {"disarm", "delete"} /\ call[2] = ti
      BY <2>8 DEF DisArming
    <3>2. <<"idle">>[1] = "idle"
      OBVIOUS
    <3>3. call \in Steps \X alive /\ m_[ti] = NULL
      BY <1>1, <3>1, <3>2 DEF TimerInv, CallInv
    <3>4. call \in {<<"disarm", ti>>, <<"delete", ti>>}
      BY <3>1, <3>3 DEF Steps
    <3> QED
      BY <2>7, <3>3, <3>4
  <2> QED
    BY <2>4, <2>7, <2>8
<1>2. TimerInv /\ [Next]_vars =>
        [\A ti \in TimerIds, m \in 0..MaxArms :
            queue' = Append(queue, <<ti, m>>) =>
                \/ m = given[ti]
                \/ m = NULL /\ call \in {<<"disarm", ti>>, <<"delete", ti>>}]_vars
  BY <1>1
<1> QED
  BY <1>2, TimerInvariance, PTL DEF Spec, PostsWhatWasGiven
=============================================================================
