------------------------------- MODULE OsTime -------------------------------
(***************************************************************************)
(* The arithmetic of osapi::Time (common/Time.cpp): seconds and            *)
(* milliseconds, with C's division, which rounds towards zero.  A          *)
(* difference may be negative: its seconds are, its milliseconds are not.  *)
(*                                                                         *)
(* Value says what a Time stands for; the module Timer, whose deadlines    *)
(* are computed with these operators, checks them against it.              *)
(***************************************************************************)
EXTENDS Integers

CONSTANT Second   \* milliseconds in a second, 1000 in the code

ASSUME SecondAssumption == Second \in Nat \ {0}

\* C's / and % with a positive divisor.
Quot(a, b) == IF a >= 0 THEN a \div b ELSE -((-a) \div b)
Rem(a, b) == a - b * Quot(a, b)

\* The constructors.
Time(sec, msec) == [sec_ |-> sec + Quot(msec, Second), msec_ |-> Rem(msec, Second)]
TimeOfMsec(msec) == Time(0, msec)

\* getCurrentMonotonicTime(), with the clock at so many milliseconds.
CurrentTime(clock) == Time(clock \div Second, clock % Second)

\* Mutant: the carry of the milliseconds is dropped.
PlusMsecNoCarry(t, msec) ==
    [sec_ |-> t.sec_ + Quot(msec, Second), msec_ |-> Rem(t.msec_ + msec, Second)]

\* operator+=(signed long long)
PlusMsec(t, msec) ==
    [sec_ |-> t.sec_ + Quot(t.msec_ + msec, Second), msec_ |-> Rem(t.msec_ + msec, Second)]

\* operator-=(const Time&): borrows a second
Minus(t, other) ==
    LET borrow == IF other.msec_ > t.msec_ THEN 1 ELSE 0
    IN  [sec_ |-> t.sec_ - borrow - other.sec_,
         msec_ |-> t.msec_ + borrow * Second - other.msec_]

\* operator<
Less(t, other) ==
    \/ t.sec_ < other.sec_
    \/ t.msec_ < other.msec_ /\ t.sec_ = other.sec_

\* totalMSecs(); the product is a signed long in the code, so that this holds for
\* fewer than 2^31 milliseconds on a 32-bit system.
TotalMSecs(t) == t.sec_ * Second + t.msec_

-----------------------------------------------------------------------------
Normalised(t) == t.sec_ \in Int /\ t.msec_ \in 0..(Second - 1)
Value(t) == t.sec_ * Second + t.msec_
=============================================================================
