------------------------------- MODULE Dates -------------------------------
(***************************************************************************)
(* The system clock, and the date library that reads it.  The clock is a   *)
(* number of ticks from the midnight of a day, ahead of it or behind; it   *)
(* goes on by one of a few steps, none longer than a day.  What            *)
(* src/src/skal/date.h makes of it is a function of the time, so all there *)
(* is to check is what the library says as time passes.                    *)
(***************************************************************************)
EXTENDS Clock

CONSTANTS Base,     \* The days, from 1970-01-01, the clock counts from.
          Step,     \* The ticks it may go on by.
          Span,     \* How far it is from the base, at most.
          Shift     \* The months added to a date.

ASSUME DatesAssumption ==
  /\ Base \subseteq Int /\ Step \subseteq 1..Midnight /\ Span \in Nat
  /\ Shift \subseteq Int

VARIABLES base, now

vars == <<base, now>>

Init == base \in Base /\ now = -Span

\* Time passes.  The clock stands for std::chrono::system_clock.
Pass ==
  /\ now < Span
  /\ \E step \in Step : now' = now + step
  /\ UNCHANGED base

Next == Pass

Spec == Init /\ [][Next]_vars

\* The day and the time of it, as format() and operator<< split a time point.
Day == base + Floor(now, Midnight)

Time == now - Floor(now, Midnight) * Midnight

-----------------------------------------------------------------------------
\* Properties

\* The day after, by the rules of the calendar.
Successor(ymd) ==
  CASE YmdOk([ymd EXCEPT !.d = DayPlus(@, 1)]) -> [ymd EXCEPT !.d = DayPlus(@, 1)]
    [] ~YmdOk([ymd EXCEPT !.d = DayPlus(@, 1)]) /\ ymd.m # 12 ->
         Ymd(ymd.y, NextMonth(ymd.m), 1)
    [] ~YmdOk([ymd EXCEPT !.d = DayPlus(@, 1)]) /\ ymd.m = 12 ->
         Ymd(YearPlus(ymd.y, 1), NextMonth(ymd.m), 1)

\* As time passes midnight the date becomes the next one of the calendar and
\* the weekday the next one of the week, over month ends, leap days, century
\* years and year 0, as far as a short holds the year: from_days() and
\* weekday_from_days().
NextDayFollows ==
  [][\/ Day' = Day
     \/ /\ Day' = Day + 1
        /\ InRange(Day) /\ InRange(Day') =>
             /\ FromDays(Day') = Successor(FromDays(Day))
             /\ YmdLess(FromDays(Day), FromDays(Day'))
        /\ WeekdayFromDays(Day') = NextWeekday(WeekdayFromDays(Day))]_vars

\* to_days() gives back the day that from_days() split into fields.
DaysReadBack == InRange(Day) => ToDays(FromDays(Day)) = Day

\* The n-th weekday of its month that a day is, and the weekdays around it.
WeekdayAgrees(ymw) ==
  LET fifth == [ymw EXCEPT !.index = 5]
  IN  /\ YmwToDays(ymw) = Day /\ YmwOk(ymw)
      /\ YmwOk(fifth) <=> FromDays(YmwToDays(fifth)).m = ymw.m
      /\ YmwLastToDays(ymw.y, ymw.m, ymw.wd) =
           YmwToDays([ymw EXCEPT !.index = IF YmwOk(fifth) THEN 5 ELSE 4])
      /\ \A n \in Shift : WeekdayFromDays(Day + n) = WeekdayPlus(ymw.wd, n)

\* n months later by the year and month, by the date, and by the weekday.
MonthsAdd(ymd, ymw, n) ==
  LET ym    == YearMonth(ymd.y, ymd.m)
      later == YearMonthPlus(ym, n)
      after == YearMonthPlus(later, 1)
      there == YmwToDays(YmwPlusMonths(ymw, n))
  IN  /\ MonthOk(later.m)
      /\ YearMonthMinus(later, ym) = n /\ YearMonthPlus(later, -n) = ym
      /\ YearMonthLess(ym, later) <=> n > 0
      /\ later.m = MonthPlus(ym.m, n) /\ MonthMinus(later.m, ym.m) = n % 12
      /\ YmdPlusMonths(ymd, n) = Ymd(later.y, later.m, ymd.d)
      /\ YmdOk(YmdPlusMonths(ymd, n)) => MonthDayOk(later.m, ymd.d)
      /\ YmdLastToDays(later.y, later.m) + 1 = ToDays(Ymd(after.y, after.m, 1))
      /\ WeekdayFromDays(there) = ymw.wd
      /\ ymw.index <= 4 => FromDays(there).m = later.m
      /\ n % 12 = 0 =>
           /\ YearMonthPlusYears(ym, n \div 12) = later
           /\ YmdPlusYears(ymd, n \div 12) = YmdPlusMonths(ymd, n)
           /\ YmwPlusYears(ymw, n \div 12) = YmwPlusMonths(ymw, n)

\* The arithmetic of the calendar agrees with the days, either way across the
\* years and through year 0.  The n-th weekday of a month converts back to its
\* day; a fifth one that a month has not got is refused, and the last one is
\* the fifth or else the fourth.  Months added are the months between, twelve
\* of them a year; the day of a date is kept, valid or not, and the n-th
\* weekday stays one.  The last day of a month is the one before the next.
CalendarAdds ==
  InRange(Day) =>
    /\ WeekdayAgrees(YmwFromDays(Day))
    /\ \A n \in Shift : MonthsAdd(FromDays(Day), YmwFromDays(Day), n)

\* The clock's fields add up to the time again, also before midnight of the
\* base, where the duration is negative; the twelve hour clock loses nothing;
\* and a time is between its floor and its ceiling, its rounding the nearest.
ClockAgrees ==
  InRange(Day) =>
  LET tod == TimeOfDay(Time)
  IN  /\ ToDuration(TimeOfDay(now)) = now
      /\ InConventionalRange(tod)
      /\ Make12(tod).h \in 1..12 /\ Make24(Make12(tod)) = tod
      /\ \A unit \in {Minute, Hour, Midnight} :
           /\ Floor(now, unit) * unit <= now /\ now <= Ceil(now, unit) * unit
           /\ Ceil(now, unit) - Floor(now, unit) \in {0, 1}
           /\ 2 * Magnitude(now - Round(now, unit) * unit) <= unit
=============================================================================
