----------------------------- MODULE FeedingTime -----------------------------
(***************************************************************************)
(* How the TimeThread meets the feeding time (SystemManager.cpp,           *)
(* TimeThread::run).  It looks at the wall clock, sleeps 30 s, looks       *)
(* again, and in the feeding minute passes a meal to the command queue and *)
(* sleeps a minute, so that it does not feed twice.                        *)
(*                                                                         *)
(* time() is the wall clock, which somebody may set; usleep() goes by      *)
(* elapsed time and ends some time after it is due.  The program keeps no  *)
(* record of a meal: a restarted controller begins anew.                   *)
(*                                                                         *)
(* Time is counted in slots; Minute and Poll are the minute and the sleep  *)
(* between two looks in slots.                                             *)
(***************************************************************************)
EXTENDS Naturals

CONSTANTS
    Minute, Poll,   \* slots in a minute and in the 30 s between two looks
    Day,            \* slots in a day
    Feeding,        \* the slot in which the feeding minute begins
    MaxLate,        \* how many slots late a sleep or a send may end
    MaxDays,        \* bound: midnights
    MaxFaults       \* bound per day: restarts and settings of the clock

ASSUME SlotsAssumption ==
    /\ Minute \in Nat \ {0} /\ Poll \in Nat \ {0} /\ Poll <= Minute
    /\ Day \in Nat /\ Feeding \in Nat /\ Feeding + Minute <= Day
\* The feeding time is 12:42: a sleep that began before midnight is over by then.
ASSUME LateAssumption ==
    MaxLate \in Nat /\ Poll + MaxLate <= Minute /\ MaxLate + MaxLate <= Feeding
ASSUME BoundsAssumption == MaxDays \in Nat /\ MaxFaults \in Nat

VARIABLES
    time,        \* the wall clock's time of day
    pc,          \* the TimeThread: "look", "send", or "down" when the program is
    left,        \* what is left of its sleep
    late,        \* slots since it could have gone on
    days,        \* history: midnights
    meals,       \* history: meals since midnight, each counted when its minute is met
    faults,      \* history: restarts and settings of the clock since midnight
    again,       \* history: those of them after which a meal may be repeated
    missable     \* history: this day's feeding minute may have been missed

threadVars == <<pc, left, late>>
dayVars == <<days, meals, faults, again, missable>>
vars == <<time, threadVars, dayVars>>

\* feedingHour == currentHour, feedingMinute == currentMinute
IsFeedingTime == time \in Feeding..(Feeding + Minute - 1)

\* The program starts at any time of day.
Init ==
    /\ time \in 0..(Day - 1)
    /\ pc = "look" /\ left = 0 /\ late = 0
    /\ days = 0 /\ meals = 0 /\ faults = 0 /\ again = 0
    /\ missable = (time >= Feeding)

\* Mutant: the sleep after a meal is as short as the one between two looks.
AfterMealShort == Poll

\* osapi::sleep(60000) after a meal
AfterMeal == Minute

\* Mutant: a look every minute, not every half minute.
BetweenLooksLong == Minute

\* osapi::sleep(30000) between two looks
BetweenLooks == Poll

\* One look at the clock.
Look ==
    /\ pc = "look" /\ left = 0
    /\ late' = 0
    /\ \/ IsFeedingTime /\ pc' = "send" /\ meals' = meals + 1 /\ UNCHANGED left
       \/ ~IsFeedingTime /\ left' = BetweenLooks /\ UNCHANGED <<pc, meals>>
    /\ UNCHANGED <<time, days, faults, again, missable>>

\* passToCommandController(), which may wait for room in the queue; the next
\* round begins after the sleep.
PassToCommandController ==
    /\ pc = "send"
    /\ pc' = "look" /\ left' = AfterMeal /\ late' = 0
    /\ UNCHANGED <<time, dayVars>>

\* A slot passes.  The thread is no later than MaxLate.
Elapse ==
    /\ \/ left > 0 /\ left' = left - 1 /\ UNCHANGED late
       \/ left = 0 /\ pc # "down" /\ late < MaxLate /\ late' = late + 1 /\ UNCHANGED left
       \/ pc = "down" /\ UNCHANGED <<left, late>>
    /\ UNCHANGED pc

Tick ==
    /\ Elapse
    /\ time < Day - 1
    /\ time' = time + 1
    /\ missable' = (missable \/ (pc = "down" /\ IsFeedingTime))
    /\ UNCHANGED <<days, meals, faults, again>>

Midnight ==
    /\ Elapse
    /\ time = Day - 1 /\ days < MaxDays
    /\ time' = 0 /\ days' = days + 1
    /\ meals' = 0 /\ faults' = 0 /\ again' = 0
    /\ missable' = (pc = "down")

-----------------------------------------------------------------------------
(* Faults *)

\* The program ends, at any point.  A meal it was about to pass on is gone.
Stop ==
    /\ pc # "down" /\ faults < MaxFaults
    /\ pc' = "down" /\ left' = 0 /\ late' = 0
    /\ faults' = faults + 1
    /\ missable' = TRUE
    /\ UNCHANGED <<time, days, meals, again>>

Restart ==
    /\ pc = "down"
    /\ pc' = "look"
    /\ again' = again + 1
    /\ UNCHANGED <<time, left, late, days, meals, faults, missable>>

\* The wall clock is set, within the day.
SetClock(to) ==
    /\ faults < MaxFaults
    /\ time' = to
    /\ faults' = faults + 1
    /\ again' = IF to < time THEN again + 1 ELSE again
    /\ missable' = TRUE
    /\ UNCHANGED <<threadVars, days, meals>>

-----------------------------------------------------------------------------
TimeThread == Look \/ PassToCommandController
Clock == Tick \/ Midnight

Next == TimeThread \/ Clock \/ Stop \/ Restart \/ \E to \in 0..(Day - 1) : SetClock(to)

Spec == Init /\ [][Next]_vars

-----------------------------------------------------------------------------
(* Properties *)

\* A day has one meal, and at most one more for each restart and each time the
\* clock was set back: the minute's sleep keeps the thread from the same minute.
OneMealADay == meals <= again + 1

\* A day in which the program ran and nobody set the clock has its meal: two
\* looks are less than a minute apart, if no sleep ends more than 30 s late.
NoDayWithoutMeal ==
    [][days' # days /\ ~missable => meals > 0]_vars
=============================================================================
