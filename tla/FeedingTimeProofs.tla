-------------------------- MODULE FeedingTimeProofs --------------------------
(***************************************************************************)
(* Proofs about FeedingTime: meals in a day, for any length of the day,    *)
(* any feeding time, any delay of a sleep up to the half minute the loop   *)
(* can bear, and any number of days, restarts and settings of the clock.   *)
(***************************************************************************)
EXTENDS FeedingTime, TLAPS

Typed ==
    /\ time \in 0..(Day - 1)
    /\ pc \in {"look", "send", "down"}
    /\ left \in 0..Minute /\ late \in 0..MaxLate
    /\ pc = "send" => left = 0
    /\ days \in Nat /\ meals \in Nat /\ faults \in Nat /\ again \in Nat

Flag == missable \in BOOLEAN

\* When the day has had its meals the thread is past the feeding minute, or will
\* be when it looks again.
MealsEaten ==
    /\ meals <= again + 1
    /\ meals = again + 1 =>
          \/ pc = "down"
          \/ pc = "send" /\ time >= Feeding
          \/ pc = "look" /\ time + left >= Feeding + Minute

\* On a day without faults that has had no meal the thread looks at the clock
\* before the feeding minute is over, even if each wait is as late as it may be.
MealAhead ==
    ~missable /\ meals = 0 =>
        \/ pc = "look" /\ time + left + MaxLate < Feeding + Minute + late
        \/ pc = "send" /\ time + MaxLate + MaxLate < Feeding + late

TimeInv ==
    /\ Typed
    /\ Flag
    /\ MealsEaten
    /\ MealAhead

-----------------------------------------------------------------------------
LEMMA TimeInit == Init => TimeInv
<1> SUFFICES ASSUME Init
             PROVE  TimeInv
  OBVIOUS
<1> USE SlotsAssumption, LateAssumption, BoundsAssumption
<1>1. Typed
  BY DEF Init, Typed
<1>2. Flag
  <2>1. missable = (time >= Feeding)
    BY DEF Init
  <2> QED
    BY <2>1 DEF Flag
<1>3. MealsEaten
  BY DEF Init, MealsEaten
<1>4. MealAhead
  <2>1. ~ missable => time < Feeding
    <3>1. missable = (time >= Feeding)
      BY DEF Init
    <3>2. ~ missable => ~ (time >= Feeding)
      BY <3>1
    <3> QED
      BY <1>1, <3>2 DEF Typed
  <2> QED
    BY <1>1, <2>1 DEF Init, MealAhead, Typed
<1> QED
  BY <1>1, <1>2, <1>3, <1>4 DEF TimeInv

LEMMA LookInv ==
  ASSUME TimeInv, Look
  PROVE  TimeInv'
<1> USE SlotsAssumption, LateAssumption DEF TimeInv
<1>1. Typed'
  BY DEF Look, Typed, BetweenLooks
<1>2. missable' = missable
  BY DEF Look
<1>3. MealsEaten'
  BY DEF Look, Typed, MealsEaten, IsFeedingTime, BetweenLooks
<1>4. MealAhead'
  <2> SUFFICES ASSUME ~ missable, meals' = 0
               PROVE  pc' = "look" /\ time' + left' + MaxLate < Feeding + Minute + late'
    BY <1>2 DEF MealAhead
  <2>1. ~ IsFeedingTime /\ meals = 0 /\ pc = "look" /\ pc' = "look" /\ left = 0 /\ late' = 0
        /\ left' = Poll /\ time' = time
    BY DEF Look, Typed, BetweenLooks
  <2>2. time < Feeding + Minute
    BY <2>1 DEF MealAhead, Typed
  <2>3. time < Feeding
    BY <2>1, <2>2 DEF IsFeedingTime, Typed
  <2> QED
    BY <2>1, <2>3 DEF Typed
<1>5. Flag'
  BY <1>2, Zenon DEF Flag
<1> QED
  BY <1>1, <1>3, <1>4, <1>5

LEMMA PassInv ==
  ASSUME TimeInv, PassToCommandController
  PROVE  TimeInv'
<1> USE SlotsAssumption, LateAssumption DEF TimeInv
<1>1. /\ pc = "send" /\ pc' = "look" /\ left' = Minute /\ late' = 0
      /\ UNCHANGED <<time, days, meals, faults, again>> /\ missable' = missable
  BY DEF PassToCommandController, AfterMeal, dayVars
<1>2. Typed' /\ MealsEaten'
  BY <1>1 DEF Typed, MealsEaten
<1>3. MealAhead'
  BY <1>1 DEF Typed, MealAhead
<1>4. Flag'
  BY <1>1, Zenon DEF Flag
<1> QED
  BY <1>2, <1>3, <1>4

\* What a slot does to the thread: it sleeps on, or is one slot later.
LEMMA ElapseSlot ==
  ASSUME Typed, Elapse
  PROVE  /\ pc' = pc /\ left' \in 0..Minute /\ late' \in 0..MaxLate
         /\ pc = "send" => left' = 0
         /\ pc # "down" => \/ left' + 1 = left /\ late' = late
                           \/ left = 0 /\ left' = 0 /\ late' = late + 1
BY SlotsAssumption, LateAssumption DEF Elapse, Typed

\* The sums of times of day and waits that a slot leaves alone, and those that a
\* day begins with.
LEMMA SlotSums ==
  /\ \A t, l, k, f, m \in Nat :
        (k + 1 = l \/ k = l) /\ t + l >= f + m => (t + 1) + k >= f + m
  /\ \A t, l, k, a, b \in Nat :
        /\ (k + 1 = l /\ b = a) \/ (l = 0 /\ k = 0 /\ b = a + 1)
        /\ t + l + MaxLate < Feeding + Minute + a
        => (t + 1) + k + MaxLate < Feeding + Minute + b
  /\ \A l, k, a, b \in Nat :
        /\ (k + 1 = l /\ b = a) \/ (k = 0 /\ b = a + 1)
        /\ l <= Minute /\ a <= MaxLate
        => 0 + k + MaxLate < Feeding + Minute + b
<1> USE SlotsAssumption, LateAssumption
<1>1. \A t, l, k, f, m \in Nat :
        (k + 1 = l \/ k = l) /\ t + l >= f + m => (t + 1) + k >= f + m
  OBVIOUS
<1>2. \A t, l, k, a, b \in Nat :
        /\ (k + 1 = l /\ b = a) \/ (l = 0 /\ k = 0 /\ b = a + 1)
        /\ t + l + MaxLate < Feeding + Minute + a
        => (t + 1) + k + MaxLate < Feeding + Minute + b
  OBVIOUS
<1>3. \A l, k, a, b \in Nat :
        /\ (k + 1 = l /\ b = a) \/ (k = 0 /\ b = a + 1)
        /\ l <= Minute /\ a <= MaxLate
        => 0 + k + MaxLate < Feeding + Minute + b
  OBVIOUS
<1> QED
  BY <1>1, <1>2, <1>3

LEMMA TickInv ==
  ASSUME TimeInv, Tick
  PROVE  TimeInv'
<1> USE SlotsAssumption, LateAssumption DEF TimeInv
<1>1. /\ Elapse /\ time < Day - 1 /\ time' = time + 1
      /\ UNCHANGED <<days, meals, faults, again>>
  BY DEF Tick
<1>2. /\ pc' = pc /\ left' \in 0..Minute /\ late' \in 0..MaxLate
      /\ pc = "send" => left' = 0
      /\ pc # "down" => \/ left' + 1 = left /\ late' = late
                        \/ left = 0 /\ left' = 0 /\ late' = late + 1
  BY <1>1, ElapseSlot
<1>9. /\ time \in Nat /\ left \in Nat /\ late \in Nat /\ left' \in Nat /\ late' \in Nat
      /\ MaxLate \in Nat /\ Feeding \in Nat /\ Minute \in Nat
  BY <1>2 DEF Typed
<1>3. Typed'
  BY <1>1, <1>2 DEF Typed
<1>4. MealsEaten'
  <2>1. meals' <= again' + 1
    BY <1>1 DEF MealsEaten
  <2>2. ASSUME meals = again + 1, pc = "look"
        PROVE  time' + left' >= Feeding + Minute
    <3>1. time + left >= Feeding + Minute
      BY <2>2 DEF MealsEaten
    <3>2. left' + 1 = left \/ left' = left
      BY <1>2, <2>2
    <3> QED
      BY <1>1, <1>9, <3>1, <3>2, SlotSums
  <2>3. ASSUME meals = again + 1, pc = "send"
        PROVE  time' >= Feeding
    BY <1>1, <2>3 DEF Typed, MealsEaten
  <2> QED
    BY <1>1, <1>2, <2>1, <2>2, <2>3 DEF Typed, MealsEaten
<1>5. missable' = (missable \/ (pc = "down" /\ IsFeedingTime))
  BY DEF Tick
<1>6. ~ missable' => ~ missable
  BY <1>5
<1>7. MealAhead'
  <2> SUFFICES ASSUME ~ missable, meals = 0
               PROVE  \/ pc' = "look" /\ time' + left' + MaxLate < Feeding + Minute + late'
                      \/ pc' = "send" /\ time' + MaxLate + MaxLate < Feeding + late'
    BY <1>1, <1>6 DEF MealAhead
  <2>1. \/ pc = "look" /\ time + left + MaxLate < Feeding + Minute + late
        \/ pc = "send" /\ time + MaxLate + MaxLate < Feeding + late
    BY DEF MealAhead
  <2>2. CASE pc = "look"
    <3>1. \/ left' + 1 = left /\ late' = late
          \/ left = 0 /\ left' = 0 /\ late' = late + 1
      BY <1>2, <2>2
    <3>2. time + left + MaxLate < Feeding + Minute + late
      BY <2>1, <2>2
    <3>3. (time + 1) + left' + MaxLate < Feeding + Minute + late'
      <4>1. \A a, b \in Nat :
              /\ (left' + 1 = left /\ b = a) \/ (left = 0 /\ left' = 0 /\ b = a + 1)
              /\ time + left + MaxLate < Feeding + Minute + a
              => (time + 1) + left' + MaxLate < Feeding + Minute + b
        BY <1>9, SlotSums
      <4> QED
        BY <1>9, <3>1, <3>2, <4>1
    <3> QED
      BY <1>1, <1>2, <2>2, <3>3
  <2>3. CASE pc = "send"
    <3>1. late' = late + 1
      BY <1>2, <2>3 DEF Typed
    <3> QED
      BY <1>1, <1>2, <1>9, <2>1, <2>3, <3>1
  <2> QED
    BY <2>1, <2>2, <2>3
<1>8. Flag'
  BY <1>5 DEF Flag
<1> QED
  BY <1>3, <1>4, <1>7, <1>8

LEMMA MidnightInv ==
  ASSUME TimeInv, Midnight
  PROVE  TimeInv'
<1> USE SlotsAssumption, LateAssumption DEF TimeInv
<1>1. /\ Elapse /\ time' = 0 /\ days' = days + 1 /\ meals' = 0 /\ faults' = 0 /\ again' = 0
  BY DEF Midnight
<1>2. /\ pc' = pc /\ left' \in 0..Minute /\ late' \in 0..MaxLate
      /\ pc = "send" => left' = 0
      /\ pc # "down" => \/ left' + 1 = left /\ late' = late
                        \/ left = 0 /\ left' = 0 /\ late' = late + 1
  BY <1>1, ElapseSlot
<1>9. /\ time \in Nat /\ left \in Nat /\ late \in Nat /\ left' \in Nat /\ late' \in Nat
      /\ MaxLate \in Nat /\ Feeding \in Nat /\ Minute \in Nat
  BY <1>2 DEF Typed
<1>3. Typed'
  BY <1>1, <1>2 DEF Typed
<1>4. MealsEaten'
  BY <1>1 DEF MealsEaten
<1>5. missable' = (pc = "down")
  BY DEF Midnight
<1>6. ~ missable' => pc # "down"
  BY <1>5
<1>7. MealAhead'
  <2> SUFFICES ASSUME pc # "down"
               PROVE  \/ pc' = "look" /\ time' + left' + MaxLate < Feeding + Minute + late'
                      \/ pc' = "send" /\ time' + MaxLate + MaxLate < Feeding + late'
    BY <1>6 DEF MealAhead
  <2>1. CASE pc = "look"
    <3>1. left <= Minute /\ late <= MaxLate
      BY DEF Typed
    <3>2. \/ left' + 1 = left /\ late' = late
          \/ left' = 0 /\ late' = late + 1
      BY <1>2, <2>1
    <3>3. 0 + left' + MaxLate < Feeding + Minute + late'
      BY <1>9, <3>1, <3>2, SlotSums
    <3> QED
      BY <1>1, <1>2, <2>1, <3>3
  <2>2. CASE pc = "send"
    <3>1. late' = late + 1
      BY <1>2, <2>2 DEF Typed
    <3> QED
      BY <1>1, <1>2, <1>9, <2>2, <3>1
  <2> QED
    BY <2>1, <2>2 DEF Typed
<1>8. Flag'
  BY <1>5 DEF Flag
<1> QED
  BY <1>3, <1>4, <1>7, <1>8

\* After a fault the day may miss its meal; one after which a meal can be repeated
\* is counted.
LEMMA FaultInv ==
  ASSUME TimeInv, Stop \/ Restart \/ \E to \in 0..(Day - 1) : SetClock(to)
  PROVE  TimeInv'
<1> USE SlotsAssumption, LateAssumption DEF TimeInv
<1>1. CASE Stop
  <2>1. Typed' /\ MealsEaten'
    BY <1>1 DEF Stop, Typed, MealsEaten
  <2>2. missable' = TRUE
    BY <1>1 DEF Stop
  <2> QED
    BY <2>1, <2>2 DEF MealAhead, Flag
<1>2. CASE Restart
  <2>1. Typed' /\ MealsEaten'
    BY <1>2 DEF Restart, Typed, MealsEaten
  <2>2. missable' = missable
    BY <1>2 DEF Restart
  <2>3. MealAhead'
    BY <1>2, <2>2 DEF Restart, Typed, MealAhead
  <2>4. Flag'
    BY <2>2, Zenon DEF Flag
  <2> QED
    BY <2>1, <2>3, <2>4
<1>3. ASSUME NEW to \in 0..(Day - 1), SetClock(to)
      PROVE  TimeInv'
  <2>1. Typed' /\ MealsEaten'
    BY <1>3 DEF SetClock, Typed, MealsEaten, threadVars
  <2>2. missable' = TRUE
    BY <1>3 DEF SetClock
  <2> QED
    BY <2>1, <2>2 DEF MealAhead, Flag
<1> QED
  BY <1>1, <1>2, <1>3

LEMMA TimeStep ==
  ASSUME TimeInv, [Next]_vars
  PROVE  TimeInv'
<1>1. CASE UNCHANGED vars
  <2>1. UNCHANGED <<time, pc, left, late, days, meals, faults, again, missable>>
    BY <1>1 DEF vars, threadVars, dayVars
  <2>2. Typed' /\ MealsEaten' /\ MealAhead'
    BY <2>1 DEF TimeInv, Typed, MealsEaten, MealAhead
  <2>3. Flag'
    BY <2>1, Zenon DEF TimeInv, Flag
  <2> QED
    BY <2>2, <2>3 DEF TimeInv
<1> QED
  BY <1>1, LookInv, PassInv, TickInv, MidnightInv, FaultInv DEF Next, TimeThread, Clock

-----------------------------------------------------------------------------
\* The invariant of the clock and the TimeThread.
THEOREM TimeInvariance == Spec => []TimeInv
<1> QED
  BY TimeInit, TimeStep, PTL DEF Spec

\* A day has at most one meal more than it has had restarts and settings of the
\* clock to an earlier time.
THEOREM NoSecondMeal == Spec => []OneMealADay
<1>1. TimeInv => OneMealADay
  BY DEF TimeInv, MealsEaten, OneMealADay
<1> QED
  BY <1>1, TimeInvariance, PTL

\* No day ends without a meal on which the program ran, nobody set the clock, and
\* no sleep or send was later than the half minute between two looks allows.
THEOREM EveryDayAMeal == Spec => NoDayWithoutMeal
<1> DEFINE A == days' # days /\ ~ missable => meals > 0
<1>1. TimeInv /\ [Next]_vars => [A]_vars
  <2> SUFFICES ASSUME TimeInv, Next, days' # days, ~ missable, ~ (meals > 0)
               PROVE  FALSE
    OBVIOUS
  <2> USE SlotsAssumption, LateAssumption DEF TimeInv
  <2>1. Midnight
    BY DEF Next, TimeThread, Clock, Look, PassToCommandController, Tick, Stop, Restart, SetClock,
           dayVars
  <2>2. Elapse /\ time = Day - 1 /\ meals = 0
    BY <2>1 DEF Midnight, Typed
  <2>3. CASE pc = "look" /\ time + left + MaxLate < Feeding + Minute + late
    BY <2>2, <2>3 DEF Elapse, Typed
  <2>4. CASE pc = "send" /\ time + MaxLate + MaxLate < Feeding + late
    BY <2>2, <2>4 DEF Typed
  <2> QED
    BY <2>2, <2>3, <2>4 DEF MealAhead
<1> QED
  BY <1>1, TimeInvariance, PTL DEF Spec, NoDayWithoutMeal
=============================================================================
