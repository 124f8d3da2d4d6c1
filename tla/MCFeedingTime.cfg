CONSTANTS
    Minute = 6
    Poll = 3
    Day = 24
    Feeding = 10
    MaxLate = 3
    MaxDays = 2
    MaxFaults = 2
SPECIFICATION Spec
CHECK_DEADLOCK FALSE
INVARIANTS
    OneMealADay
PROPERTIES
    NoDayWithoutMeal
