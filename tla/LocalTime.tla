------------------------------ MODULE LocalTime ------------------------------
(***************************************************************************)
(* Instants and wall clocks of Europe/Zagreb as the queries of             *)
(* repository.go and the parser of hep_client.go use them. An instant is a *)
(* number of hours in UTC, a wall clock a number of hours since the local  *)
(* midnight that begins day 0; that midnight is instant -1, in winter      *)
(* time. A reading stands for the four quarter-hours of its hour: both     *)
(* changes of the clock and both ends of the tariff fall on whole hours.   *)
(***************************************************************************)
EXTENDS Integers

CONSTANTS
    SummerFrom,     \* the instant at which the clock goes forward (March)
    SummerTo,       \* the instant at which it goes back (October)
    DaysPerMonth,   \* every month has so many days
    MonthsPerYear,
    NMonths         \* the calendar ends after so many months

ASSUME LocalTimeAssumption ==
    /\ {SummerFrom, SummerTo} \subseteq Nat
    /\ SummerFrom + 2 < SummerTo
    /\ SummerFrom % 24 = 1 /\ SummerTo % 24 = 1
    /\ {DaysPerMonth, MonthsPerYear, NMonths} \subseteq Nat \ {0}

Offset(t) == IF SummerFrom <= t /\ t < SummerTo THEN 2 ELSE 1

Local(t) == t + Offset(t)
LocalDay(t) == Local(t) \div 24
LocalHour(t) == Local(t) % 24

\* The hour that the clock repeats in October, when it comes the first time.
FirstPass == SummerTo - 1

\* Go looks the offset up as if the wall clock were UTC, and once more with
\* the instant that gives when the two lie on different sides of a change.
Instant(w) == w - Offset(w - Offset(w))

MonthOf(t) == LocalDay(t) \div DaysPerMonth
DaysOf(m) == (m * DaysPerMonth) .. ((m + 1) * DaysPerMonth - 1)
MonthsOf(y) == (y * MonthsPerYear) .. ((y + 1) * MonthsPerYear - 1)

\* Half-open ranges of instants: from <= t < to.
FirstOfMonth(m) == Instant(24 * DaysPerMonth * m)
MonthRange(m) == FirstOfMonth(m) .. (FirstOfMonth(m + 1) - 1)
YearRange(y) == FirstOfMonth(MonthsPerYear * y) .. (FirstOfMonth(MonthsPerYear * (y + 1)) - 1)

\* Mutant: the winter window all year.
IsVTInWinter(t) == LocalHour(t) \in 7 .. 20

IsVT(t) ==
    IF Offset(t) = 2 THEN LocalHour(t) \in 8 .. 21 ELSE LocalHour(t) \in 7 .. 20

Calendar == FirstOfMonth(0) .. (FirstOfMonth(NMonths) - 1)
=============================================================================
