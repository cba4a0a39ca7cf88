------------------------------ MODULE Calendar ------------------------------
(***************************************************************************)
(* The calendar types of src/src/skal/date.h, the vendored date library    *)
(* the log uses for its time stamps: days, months, years and weekdays kept *)
(* in narrow integers, the field types built from them, and the conversion *)
(* of a day count since 1970-01-01 to fields and back.                     *)
(*                                                                         *)
(* A day, a month, a year and a weekday is the number it stores.  They are *)
(* compared as numbers.  unsigned differences are written as the small     *)
(* signed numbers they convert to.                                         *)
(***************************************************************************)
EXTENDS Integers

\* The conversions to unsigned char and short that the constructors make.
UChar(n) == n % 256

Short(n) == ((n + 32768) % 65536) - 32768

\* Division as C++ does it, towards zero.
Quot(a, b) == IF a >= 0 THEN a \div b ELSE -((-a) \div b)

\* And as the library rounds it down, (a >= 0 ? a : a - (b - 1)) / b.
QuotDown(a, b) == Quot(IF a >= 0 THEN a ELSE a - (b - 1), b)

-----------------------------------------------------------------------------
\* day, month, year and weekday

DayPlus(d, n) == UChar(d + n)

MonthOk(m) == m \in 1..12

\* ++ and -- wrap from December to January and back.
NextMonth(m) == IF UChar(m + 1) = 13 THEN 1 ELSE UChar(m + 1)

MonthMinus(x, y) == IF x - y \in 0..11 THEN x - y ELSE x - y + 12

MonthPlus(m, n) ==
  LET mu == m - 1 + n
      yr == QuotDown(mu, 12)
  IN  UChar(mu - yr * 12 + 1)

IsLeap_NoCenturies(y) == y % 4 = 0 /\ y % 100 # 0

IsLeap(y) == y % 4 = 0 /\ (y % 100 # 0 \/ y % 400 = 0)

YearOk(y) == y # -32768

YearPlus(y, n) == Short(y + n)

WeekdayFromDays(z) ==
  UChar(IF z >= -4 THEN (z + 4) % 7 ELSE -((-(z + 5)) % 7) + 6)

WeekdayOk(wd) == wd <= 6

NextWeekday(wd) == IF UChar(wd + 1) = 7 THEN 0 ELSE UChar(wd + 1)

WeekdayMinus(x, y) == IF x - y \in 0..6 THEN x - y ELSE x - y + 7

WeekdayPlus(wd, n) ==
  LET wdu == wd + n
      wk  == QuotDown(wdu, 7)
  IN  UChar(wdu - wk * 7)

-----------------------------------------------------------------------------
\* year_month

YearMonth(y, m) == [y |-> Short(y), m |-> UChar(m)]

YearMonthPlus_Truncated(ym, n) ==
  LET dmi == ym.m - 1 + n
      dy  == Quot(dmi, 12)
  IN  YearMonth(YearPlus(ym.y, dy), dmi - dy * 12 + 1)

YearMonthPlus(ym, n) ==
  LET dmi == ym.m - 1 + n
      dy  == QuotDown(dmi, 12)
  IN  YearMonth(YearPlus(ym.y, dy), dmi - dy * 12 + 1)

\* years convert to months when the two differences are added.
YearMonthMinus(x, y) == (x.y - y.y) * 12 + (x.m - y.m)

YearMonthPlusYears(ym, n) == YearMonth(YearPlus(ym.y, n), ym.m)

YearMonthLess(a, b) == a.y < b.y \/ (a.y = b.y /\ a.m < b.m)

-----------------------------------------------------------------------------
\* year_month_day and its last day of the month

Ymd(y, m, d) == [y |-> Short(y), m |-> UChar(m), d |-> UChar(d)]

MonthDayOk(m, d) ==
  /\ MonthOk(m)
  /\ d \in 1..(<<31, 29, 31, 30, 31, 30, 31, 31, 30, 31, 30, 31>>[m])

LastDay(y, m) ==
  IF m # 2 \/ ~IsLeap(y)
    THEN <<31, 28, 31, 30, 31, 30, 31, 31, 30, 31, 30, 31>>[m]
    ELSE 29

YmdOk(ymd) ==
  YearOk(ymd.y) /\ MonthOk(ymd.m) /\ ymd.d \in 1..LastDay(ymd.y, ymd.m)

YmdLess(a, b) ==
  \/ a.y < b.y
  \/ a.y = b.y /\ a.m < b.m
  \/ a.y = b.y /\ a.m = b.m /\ a.d < b.d

\* Years run from March, so that the leap day is the last of its year, and mp
\* counts the months from March.
DaysBefore(mp) == (153 * mp + 2) \div 5

DayCount(era, yoe, doy) ==
  era * 146097 + (yoe * 365 + yoe \div 4 - yoe \div 100 + doy) - 719468

ToDays(ymd) ==
  LET y   == ymd.y - (IF ymd.m <= 2 THEN 1 ELSE 0)
      era == QuotDown(y, 400)
      mp  == IF ymd.m > 2 THEN ymd.m - 3 ELSE ymd.m + 9
  IN  DayCount(era, y - era * 400, DaysBefore(mp) + ymd.d - 1)

\* The same without the correction for the last day of the 400 years.
YearOfEra_NoLastDay(doe) == (doe - doe \div 1460 + doe \div 36524) \div 365

YearOfEra(doe) ==
  (doe - doe \div 1460 + doe \div 36524 - doe \div 146096) \div 365

FromDayOfYear(y, doy) ==
  LET mp == (5 * doy + 2) \div 153
      m  == IF mp < 10 THEN mp + 3 ELSE mp - 9
  IN  Ymd(y + (IF m <= 2 THEN 1 ELSE 0), m, doy - DaysBefore(mp) + 1)

FromDays(z) ==
  LET s   == z + 719468
      era == QuotDown(s, 146097)
      doe == s - era * 146097
      yoe == YearOfEra(doe)
  IN  FromDayOfYear(yoe + era * 400,
                    doe - (365 * yoe + yoe \div 4 - yoe \div 100))

\* Months and years are added, and the day is kept, valid or not.
YmdPlusMonths(ymd, n) ==
  LET ym == YearMonthPlus([y |-> ymd.y, m |-> ymd.m], n)
  IN  Ymd(ym.y, ym.m, ymd.d)

YmdPlusYears(ymd, n) == Ymd(YearPlus(ymd.y, n), ymd.m, ymd.d)

YmdLastToDays(y, m) == ToDays(Ymd(y, m, LastDay(y, m)))

-----------------------------------------------------------------------------
\* year_month_weekday: the n-th, or the last, given weekday of a month.  The
\* weekday and the index share a byte.

Ymw(y, m, wd, index) ==
  [y |-> Short(y), m |-> UChar(m), wd |-> wd % 16, index |-> index % 16]

YmwToDays(ymw) ==
  LET d == ToDays(Ymd(ymw.y, ymw.m, 1))
  IN  d + WeekdayMinus(ymw.wd, WeekdayFromDays(d)) + (ymw.index - 1) * 7

YmwFromDays(z) ==
  LET ymd == FromDays(z)
  IN  Ymw(ymd.y, ymd.m, WeekdayFromDays(z), (ymd.d - 1) \div 7 + 1)

\* An index above 4 is checked against the length of the month.
YmwOk(ymw) ==
  /\ YearOk(ymw.y) /\ MonthOk(ymw.m) /\ WeekdayOk(ymw.wd) /\ ymw.index >= 1
  /\ \/ ymw.index <= 4
     \/ LET first == WeekdayFromDays(ToDays(Ymd(ymw.y, ymw.m, 1)))
        IN  WeekdayMinus(ymw.wd, first) + (ymw.index - 1) * 7 + 1
              <= LastDay(ymw.y, ymw.m)

YmwPlusMonths(ymw, n) ==
  LET ym == YearMonthPlus([y |-> ymw.y, m |-> ymw.m], n)
  IN  Ymw(ym.y, ym.m, ymw.wd, ymw.index)

YmwPlusYears(ymw, n) == Ymw(YearPlus(ymw.y, n), ymw.m, ymw.wd, ymw.index)

YmwLastToDays(y, m, wd) ==
  LET d == YmdLastToDays(y, m)
  IN  d - WeekdayMinus(WeekdayFromDays(d), wd)

-----------------------------------------------------------------------------
\* The days that the properties are about: 81 eras of 400 years before March of
\* year 0, and as many after it.  A year is a short.
InRange(z) == -81 * 146097 - 719468 <= z /\ z < 81 * 146097 - 719468
=============================================================================
