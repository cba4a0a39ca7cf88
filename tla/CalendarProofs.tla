--------------------------- MODULE CalendarProofs ---------------------------
(***************************************************************************)
(* The day count and its fields: from_days() and to_days() of              *)
(* src/src/skal/date.h are inverse to each other, and from_days() gives a  *)
(* date of the calendar, for every day of 162 eras of 400 years.  The      *)
(* argument follows the code: the day of the era, its year, the day of     *)
(* that year, the month.  Each division is replaced by the two             *)
(* inequalities that define it, after which all is linear arithmetic.      *)
(* From the two follows that the day after is the next date of the         *)
(* calendar.  The fields and the rounding of the clock are proved for any  *)
(* unit, from what a division that truncates gives.                        *)
(***************************************************************************)
EXTENDS Dates, TLAPS

USE SMTT(60)

\* The divisions of from_days() and to_days(): what a quotient is.
LEMMA Quotients ==
  \A x \in Int :
    /\ x \div 4 \in Int /\ 4 * (x \div 4) <= x /\ x <= 4 * (x \div 4) + 3
    /\ x \div 100 \in Int /\ 100 * (x \div 100) <= x /\ x <= 100 * (x \div 100) + 99
    /\ x \div 365 \in Int /\ 365 * (x \div 365) <= x /\ x <= 365 * (x \div 365) + 364
    /\ x \div 1460 \in Int /\ 1460 * (x \div 1460) <= x
    /\ x <= 1460 * (x \div 1460) + 1459
    /\ x \div 36524 \in Int /\ 36524 * (x \div 36524) <= x
    /\ x <= 36524 * (x \div 36524) + 36523
    /\ x \div 146096 \in Int /\ 146096 * (x \div 146096) <= x
    /\ x <= 146096 * (x \div 146096) + 146095
  OBVIOUS

\* The era of a day: the code rounds down by subtracting before a
\* division that truncates.
LEMMA EraOfDay == \A s \in Int : QuotDown(s, 146097) = s \div 146097
  BY DEF QuotDown, Quot

\* The same of years.
LEMMA EraOfYear == \A y \in Int : QuotDown(y, 400) = y \div 400
  BY DEF QuotDown, Quot

\* from_days(): the year of a day of the era is one of 400 and the day is in it;
\* the last of 366 days is in a year before a leap year, as years end in
\* February.  The proof turns the divisions into inequalities, <1>2 to <1>4.
LEMMA DayOfEra ==
  \A doe, yoe, doy \in Int :
    /\ 0 <= doe /\ doe <= 146096
    /\ yoe = YearOfEra(doe)
    /\ doy = doe - (365 * yoe + yoe \div 4 - yoe \div 100)
    => /\ 0 <= yoe /\ yoe <= 399
       /\ 0 <= doy /\ doy <= 365
       /\ doy = 365 => (yoe + 1) % 4 = 0 /\ ((yoe + 1) % 100 # 0 \/ yoe = 399)
  <1>1. SUFFICES
          ASSUME NEW doe \in Int, NEW yoe \in Int, NEW doy \in Int,
                 0 <= doe, doe <= 146096,
                 yoe = YearOfEra(doe),
                 doy = doe - (365 * yoe + yoe \div 4 - yoe \div 100)
          PROVE  /\ 0 <= yoe /\ yoe <= 399
                 /\ 0 <= doy /\ doy <= 365
                 /\ doy = 365 =>
                      (yoe + 1) % 4 = 0 /\ ((yoe + 1) % 100 # 0 \/ yoe = 399)
    OBVIOUS
  <1> DEFINE a == doe \div 1460
             b == doe \div 36524
             c == doe \div 146096
             q == yoe \div 4
             r == yoe \div 100
  <1>2. /\ doe \in Int /\ 0 <= doe /\ doe <= 146096
        /\ a \in Int /\ 1460 * a <= doe /\ doe <= 1460 * a + 1459
        /\ b \in Int /\ 36524 * b <= doe /\ doe <= 36524 * b + 36523
        /\ c \in Int /\ 146096 * c <= doe /\ doe <= 146096 * c + 146095
    BY <1>1, Quotients
  <1>3. /\ yoe \in Int
        /\ q \in Int /\ 4 * q <= yoe /\ yoe <= 4 * q + 3
        /\ r \in Int /\ 100 * r <= yoe /\ yoe <= 100 * r + 99
    BY <1>1, Quotients
  <1>4. 365 * yoe <= doe - a + b - c /\ doe - a + b - c <= 365 * yoe + 364
    <2>1. doe - a + b - c \in Int
      BY <1>2
    <2> QED BY <1>1, <2>1, Quotients DEF YearOfEra
  <1>5. doy \in Int /\ doy = doe - (365 * yoe + q - r)
    BY <1>1
  <1> HIDE DEF a, b, c, q, r
  <1>6. c >= 0 /\ c <= 1 /\ a >= 0 /\ a <= 100 /\ b >= 0 /\ b <= 4
    BY <1>2
  <1>7. yoe >= 0 /\ yoe <= 399
    BY <1>2, <1>3, <1>4, <1>6
  <1>8. 0 <= doy
    BY <1>2, <1>3, <1>4, <1>5, <1>6, <1>7
  <1>9. doy <= 365
    BY <1>2, <1>3, <1>4, <1>5, <1>6, <1>7
  <1>10. doy = 365 => yoe = 4 * q + 3
    BY <1>2, <1>3, <1>4, <1>5, <1>6, <1>7
  <1>11. doy = 365 => yoe # 100 * r + 99 \/ yoe = 399
    BY <1>2, <1>3, <1>4, <1>5, <1>6, <1>7
  <1>12. doy = 365 => (yoe + 1) % 4 = 0
    BY <1>3, <1>7, <1>10
  <1>13. doy = 365 => (yoe + 1) % 100 # 0 \/ yoe = 399
    BY <1>3, <1>7, <1>11
  <1> QED BY <1>7, <1>8, <1>9, <1>12, <1>13

\* from_days() and to_days(): a day of a year that begins in March is in one of
\* twelve months, and the month and its day give it back.
LEMMA MonthOfYear ==
  ASSUME NEW doy \in Int, 0 <= doy, doy <= 365,
         NEW mp \in Int, NEW d \in Int,
         mp = (5 * doy + 2) \div 153,
         d = doy - DaysBefore(mp) + 1
  PROVE  /\ 0 <= mp /\ mp <= 11 /\ 1 <= d /\ d <= 31
         /\ mp \in {1, 3, 6, 8} => d <= 30
         /\ mp = 11 => d <= 29 /\ (d = 29 => doy = 365)
  BY DEF DaysBefore

\* A day is split into an era, a year of it, a day of the year and a month of
\* years that begin in March, and the fields are those of from_days().
SplitDay(z, era, yoe, doy, mp, d) ==
  /\ -81 <= era /\ era <= 80
  /\ 0 <= yoe /\ yoe <= 399
  /\ 0 <= doy /\ doy <= 365
  /\ doy = 365 => (yoe + 1) % 4 = 0 /\ ((yoe + 1) % 100 # 0 \/ yoe = 399)
  /\ mp = (5 * doy + 2) \div 153
  /\ d = doy - DaysBefore(mp) + 1
  /\ z + 719468 =
       era * 146097 + yoe * 365 + yoe \div 4 - yoe \div 100 + doy
  /\ FromDays(z) =
       [y |-> yoe + era * 400 + (IF mp < 10 THEN 0 ELSE 1),
        m |-> IF mp < 10 THEN mp + 3 ELSE mp - 9,
        d |-> d]

\* from_days(), as a whole: its fields are those of a day of a year of an era,
\* and the narrow integers that keep them lose nothing.
LEMMA FieldsOfDay ==
  ASSUME NEW z \in Int, InRange(z)
  PROVE  \E era, yoe, doy, mp, d \in Int : SplitDay(z, era, yoe, doy, mp, d)
  <1> DEFINE s   == z + 719468
             era == s \div 146097
             doe == s - era * 146097
             yoe == YearOfEra(doe)
             doy == doe - (365 * yoe + yoe \div 4 - yoe \div 100)
             mp  == (5 * doy + 2) \div 153
             d   == doy - DaysBefore(mp) + 1
             m   == IF mp < 10 THEN mp + 3 ELSE mp - 9
             y   == yoe + era * 400 + (IF m <= 2 THEN 1 ELSE 0)
  <1>1. s \in Int /\ -81 * 146097 <= s /\ s < 81 * 146097
    BY DEF InRange
  <1>2. FromDays(z) = Ymd(y, m, d)
    <2>1. QuotDown(s, 146097) = era
      BY <1>1, EraOfDay
    <2>2. FromDays(z) = FromDayOfYear(yoe + era * 400, doy)
      BY <2>1 DEF FromDays
    <2> QED BY <2>2 DEF FromDayOfYear
  <1>3. /\ era \in Int /\ -81 <= era /\ era <= 80
        /\ doe \in Int /\ 0 <= doe /\ doe <= 146096
    <2> HIDE DEF s
    <2> QED BY <1>1
  <1> HIDE DEF era
  <1>4. doe \div 1460 \in Int /\ doe \div 36524 \in Int /\ doe \div 146096 \in Int
    <2> HIDE DEF doe
    <2> QED BY <1>3, Quotients
  <1> HIDE DEF doe
  <1>5. yoe \in Int
    BY <1>3, <1>4, Quotients DEF YearOfEra
  <1>6. doy \in Int
    <2> HIDE DEF yoe
    <2> QED BY <1>3, <1>5, Quotients
  <1>7. /\ 0 <= yoe /\ yoe <= 399
        /\ 0 <= doy /\ doy <= 365
        /\ doy = 365 => (yoe + 1) % 4 = 0 /\ ((yoe + 1) % 100 # 0 \/ yoe = 399)
    BY <1>3, <1>5, <1>6, DayOfEra
  <1>8. s = era * 146097 + yoe * 365 + yoe \div 4 - yoe \div 100 + doy
    <2>1. yoe \div 4 \in Int /\ yoe \div 100 \in Int
      <3> HIDE DEF yoe
      <3> QED BY <1>5, Quotients
    <2>2. s = era * 146097 + doe
      BY <1>1, <1>3 DEF doe
    <2> HIDE DEF yoe, s
    <2> QED BY <1>3, <1>5, <2>1, <2>2
  <1> HIDE DEF yoe, doy
  <1>9. mp \in Int /\ d \in Int
    BY <1>6 DEF DaysBefore
  <1>10. 0 <= mp /\ mp <= 11 /\ 1 <= d /\ d <= 31
    BY <1>6, <1>7, <1>9, MonthOfYear
  <1>11. mp = (5 * doy + 2) \div 153 /\ d = doy - DaysBefore(mp) + 1
    OBVIOUS
  <1> HIDE DEF mp, d
  <1>12. m \in Int /\ 1 <= m /\ m <= 12 /\ (m <= 2 <=> ~(mp < 10))
    BY <1>9, <1>10
  <1>13. y = yoe + era * 400 + (IF mp < 10 THEN 0 ELSE 1)
    BY <1>12
  <1>14. y \in Int /\ -32768 <= y /\ y <= 32767
    BY <1>3, <1>5, <1>7, <1>12
  <1>15. Short(y) = y /\ UChar(m) = m /\ UChar(d) = d
    <2> HIDE DEF y, m
    <2>1. Short(y) = y
      BY <1>14 DEF Short
    <2>2. UChar(m) = m /\ UChar(d) = d
      BY <1>9, <1>10, <1>12 DEF UChar
    <2> QED BY <2>1, <2>2
  <1>16. FromDays(z) = [y |-> yoe + era * 400 + (IF mp < 10 THEN 0 ELSE 1),
                        m |-> IF mp < 10 THEN mp + 3 ELSE mp - 9,
                        d |-> d]
    BY <1>2, <1>13, <1>15 DEF Ymd
  <1>17. SplitDay(z, era, yoe, doy, mp, d)
    BY <1>3, <1>7, <1>8, <1>11, <1>16 DEF SplitDay
  <1> HIDE DEF s, m, y
  <1>18. era \in Int /\ yoe \in Int /\ doy \in Int /\ mp \in Int /\ d \in Int
    BY <1>3, <1>5, <1>6, <1>9
  <1> QED BY ZenonT(60), <1>17, <1>18

\* to_days() gives back the day that from_days() split into fields, for every
\* day of the 162 eras.
THEOREM DayRoundTrip == \A z \in Int : InRange(z) => ToDays(FromDays(z)) = z
  <1> SUFFICES ASSUME NEW z \in Int, InRange(z)
               PROVE  ToDays(FromDays(z)) = z
    OBVIOUS
  <1>1. PICK era, yoe, doy, mp, d \in Int : SplitDay(z, era, yoe, doy, mp, d)
    BY FieldsOfDay
  <1>0. /\ 0 <= yoe /\ yoe <= 399 /\ 0 <= doy /\ doy <= 365
        /\ mp = (5 * doy + 2) \div 153 /\ d = doy - DaysBefore(mp) + 1
        /\ z + 719468 = era * 146097 + yoe * 365 + yoe \div 4 - yoe \div 100 + doy
        /\ FromDays(z) = [y |-> yoe + era * 400 + (IF mp < 10 THEN 0 ELSE 1),
                          m |-> IF mp < 10 THEN mp + 3 ELSE mp - 9, d |-> d]
    BY <1>1 DEF SplitDay
  <1> DEFINE ymd == FromDays(z)
             y   == ymd.y - (IF ymd.m <= 2 THEN 1 ELSE 0)
             e   == QuotDown(y, 400)
             mm  == IF ymd.m > 2 THEN ymd.m - 3 ELSE ymd.m + 9
  <1>2. 0 <= mp /\ mp <= 11
    BY <1>0, MonthOfYear
  <1>3. y = yoe + era * 400 /\ mm = mp /\ ymd.d = d
    BY <1>0, <1>2
  <1>4. e = era
    <2>1. y \in Int
      BY <1>3
    <2>2. e = y \div 400
      <3> HIDE DEF y
      <3> QED BY <2>1, EraOfYear
    <2>3. y \div 400 = era
      <3> HIDE DEF y
      <3>1. 0 <= yoe /\ yoe <= 399
        BY <1>0
      <3> QED BY <1>3, <3>1
    <2> QED BY <2>2, <2>3
  <1>5. ToDays(ymd) = DayCount(e, y - e * 400, DaysBefore(mm) + ymd.d - 1)
    BY DEF ToDays
  <1>6. y - e * 400 = yoe
    <2> HIDE DEF y, e
    <2> QED BY <1>3, <1>4
  <1>7. DaysBefore(mm) + ymd.d - 1 = doy
    <2>1. DaysBefore(mp) \in Int
      BY <1>2 DEF DaysBefore
    <2> HIDE DEF mm, ymd
    <2> QED BY <1>0, <1>3, <2>1
  <1>8. ToDays(ymd) = DayCount(era, yoe, doy)
    <2> HIDE DEF y, e, mm, ymd
    <2> QED BY <1>4, <1>5, <1>6, <1>7
  <1>9. DayCount(era, yoe, doy) = z
    <2>1. yoe \div 4 \in Int /\ yoe \div 100 \in Int
      BY Quotients
    <2>2. z + 719468 = era * 146097 + yoe * 365 + yoe \div 4 - yoe \div 100 + doy
      BY <1>0
    <2> QED BY <2>1, <2>2 DEF DayCount
  <1> QED BY <1>8, <1>9

\* The dates from_days() gives are dates of the calendar, the 29th of February
\* only in leap years.
THEOREM DatesAreValid == \A z \in Int : InRange(z) => YmdOk(FromDays(z))
  <1> SUFFICES ASSUME NEW z \in Int, InRange(z)
               PROVE  YmdOk(FromDays(z))
    OBVIOUS
  <1>1. PICK era, yoe, doy, mp, d \in Int : SplitDay(z, era, yoe, doy, mp, d)
    BY FieldsOfDay
  <1>2. /\ -81 <= era /\ era <= 80 /\ 0 <= yoe /\ yoe <= 399
        /\ doy = 365 => (yoe + 1) % 4 = 0 /\ ((yoe + 1) % 100 # 0 \/ yoe = 399)
    BY <1>1 DEF SplitDay
  <1>3. /\ 0 <= mp /\ mp <= 11 /\ 1 <= d /\ d <= 31
        /\ mp \in {1, 3, 6, 8} => d <= 30
        /\ mp = 11 => d <= 29 /\ (d = 29 => doy = 365)
    BY <1>1, MonthOfYear DEF SplitDay
  <1> DEFINE y == yoe + era * 400 + (IF mp < 10 THEN 0 ELSE 1)
             m == IF mp < 10 THEN mp + 3 ELSE mp - 9
  <1>4. FromDays(z) = [y |-> y, m |-> m, d |-> d]
    BY <1>1 DEF SplitDay
  <1>5. y \in Int /\ y # -32768 /\ m \in 1..12
    BY <1>2, <1>3
  <1>6. mp = 11 /\ d = 29 => IsLeap(y)
    <2> SUFFICES ASSUME mp = 11, d = 29 PROVE IsLeap(y)
      OBVIOUS
    <2>1. y = yoe + 1 + era * 400 /\ (yoe + 1) % 4 = 0
      BY <1>2, <1>3
    <2>2. (yoe + 1) % 100 # 0 \/ yoe = 399
      BY <1>2, <1>3
    <2> HIDE DEF y
    <2>3. y % 4 = 0
      BY <2>1
    <2>4. y % 100 # 0 \/ y % 400 = 0
      BY <2>1, <2>2
    <2> QED BY <2>3, <2>4 DEF IsLeap
  <1>7. d \in 1..LastDay(y, m)
    <2> HIDE DEF y
    <2>1. CASE mp = 11
      BY <1>3, <1>6, <2>1 DEF LastDay
    <2>2. CASE mp \in {1, 3, 6, 8}
      BY <1>3, <2>2 DEF LastDay
    <2>3. CASE mp \in {0, 2, 4, 5, 7, 9, 10}
      BY <1>3, <2>3 DEF LastDay
    <2> QED BY <1>3, <2>1, <2>2, <2>3
  <1> QED BY <1>4, <1>5, <1>7 DEF YmdOk, YearOk, MonthOk

\* A day is in one year of its era only.  q and r are the leap years before.
LEMMA OneYear ==
  ASSUME NEW y1 \in Int, 0 <= y1, y1 <= 399, NEW y2 \in Int, 0 <= y2, y2 <= 399,
         NEW q1 \in Int, 4 * q1 <= y1, y1 <= 4 * q1 + 3,
         NEW q2 \in Int, 4 * q2 <= y2, y2 <= 4 * q2 + 3,
         NEW r1 \in Int, 100 * r1 <= y1, y1 <= 100 * r1 + 99,
         NEW r2 \in Int, 100 * r2 <= y2, y2 <= 100 * r2 + 99,
         NEW n1 \in Int, 0 <= n1, n1 <= 365,
         NEW n2 \in Int, 0 <= n2, n2 <= 365,
         n1 = 365 => y1 = 4 * q1 + 3 /\ (y1 # 100 * r1 + 99 \/ y1 = 399),
         365 * y1 + q1 - r1 + n1 = 365 * y2 + q2 - r2 + n2
  PROVE  ~(y1 < y2)
  <1> SUFFICES ASSUME y1 < y2 PROVE FALSE
    OBVIOUS
  <1>1. q2 - r2 >= q1 - r1
    OBVIOUS
  <1>2. 365 * (y2 - y1) = q1 - r1 - q2 + r2 + n1 - n2
    OBVIOUS
  <1>3. n1 = 365 /\ y2 = y1 + 1 /\ q2 - r2 = q1 - r1
    BY <1>1, <1>2
  <1> QED BY <1>3

\* A day of a year that begins in March is the day of one month only.
LEMMA OneMonth ==
  ASSUME NEW mp \in 0..11, NEW d \in Int, 1 <= d, d <= 31,
         mp \in {1, 3, 6, 8} => d <= 30, mp = 11 => d <= 29,
         NEW doy \in Int, doy = DaysBefore(mp) + d - 1
  PROVE  /\ mp = (5 * doy + 2) \div 153
         /\ 0 <= doy /\ doy <= 365 /\ (doy = 365 => mp = 11 /\ d = 29)
  BY DEF DaysBefore

\* A day count is in one era only.
LEMMA OneEra ==
  ASSUME NEW e1 \in Int, NEW y1 \in Int, 0 <= y1, y1 <= 399,
         NEW e2 \in Int, NEW y2 \in Int, 0 <= y2, y2 <= 399,
         NEW q1 \in Int, 4 * q1 <= y1, y1 <= 4 * q1 + 3,
         NEW q2 \in Int, 4 * q2 <= y2, y2 <= 4 * q2 + 3,
         NEW r1 \in Int, 100 * r1 <= y1, y1 <= 100 * r1 + 99,
         NEW r2 \in Int, 100 * r2 <= y2, y2 <= 100 * r2 + 99,
         NEW n1 \in Int, 0 <= n1, n1 <= 365,
         NEW n2 \in Int, 0 <= n2, n2 <= 365,
         e1 * 146097 + 365 * y1 + q1 - r1 + n1 = e2 * 146097 + 365 * y2 + q2 - r2 + n2
  PROVE  e1 = e2
  <1>1. 0 <= 365 * y1 + q1 - r1 + n1 /\ 365 * y1 + q1 - r1 + n1 <= 146096
    OBVIOUS
  <1>2. 0 <= 365 * y2 + q2 - r2 + n2 /\ 365 * y2 + q2 - r2 + n2 <= 146096
    OBVIOUS
  <1> QED BY <1>1, <1>2

\* A split of a day into an era, a year and a day of the year.
Splits(e, y, n) ==
  /\ e \in Int /\ y \in Int /\ n \in Int
  /\ 0 <= y /\ y <= 399 /\ 0 <= n /\ n <= 365
  /\ n = 365 => y = 4 * (y \div 4) + 3 /\ (y # 100 * (y \div 100) + 99 \/ y = 399)

\* A day count has one split.
LEMMA OneSplit ==
  ASSUME NEW e1, NEW y1, NEW n1, Splits(e1, y1, n1),
         NEW e2, NEW y2, NEW n2, Splits(e2, y2, n2),
         DayCount(e1, y1, n1) = DayCount(e2, y2, n2)
  PROVE  e1 = e2 /\ y1 = y2 /\ n1 = n2
  <1> DEFINE q1 == y1 \div 4
             q2 == y2 \div 4
             r1 == y1 \div 100
             r2 == y2 \div 100
  <1>1. /\ e1 \in Int /\ y1 \in Int /\ n1 \in Int
        /\ 0 <= y1 /\ y1 <= 399 /\ 0 <= n1 /\ n1 <= 365
        /\ n1 = 365 => y1 = 4 * q1 + 3 /\ (y1 # 100 * r1 + 99 \/ y1 = 399)
    BY DEF Splits
  <1>2. /\ e2 \in Int /\ y2 \in Int /\ n2 \in Int
        /\ 0 <= y2 /\ y2 <= 399 /\ 0 <= n2 /\ n2 <= 365
        /\ n2 = 365 => y2 = 4 * q2 + 3 /\ (y2 # 100 * r2 + 99 \/ y2 = 399)
    BY DEF Splits
  <1>3. /\ q1 \in Int /\ 4 * q1 <= y1 /\ y1 <= 4 * q1 + 3
        /\ r1 \in Int /\ 100 * r1 <= y1 /\ y1 <= 100 * r1 + 99
    BY <1>1, Quotients
  <1>4. /\ q2 \in Int /\ 4 * q2 <= y2 /\ y2 <= 4 * q2 + 3
        /\ r2 \in Int /\ 100 * r2 <= y2 /\ y2 <= 100 * r2 + 99
    BY <1>2, Quotients
  <1>5. e1 * 146097 + 365 * y1 + q1 - r1 + n1 = e2 * 146097 + 365 * y2 + q2 - r2 + n2
    BY <1>1, <1>2, <1>3, <1>4 DEF DayCount
  <1> HIDE DEF q1, q2, r1, r2
  <1>6. e1 = e2
    BY <1>1, <1>2, <1>3, <1>4, <1>5, OneEra
  <1>7. 365 * y1 + q1 - r1 + n1 = 365 * y2 + q2 - r2 + n2
    BY <1>1, <1>2, <1>3, <1>4, <1>5, <1>6
  <1>8. ~(y1 < y2)
    BY <1>1, <1>2, <1>3, <1>4, <1>7, OneYear
  <1>9. ~(y2 < y1)
    BY <1>1, <1>2, <1>3, <1>4, <1>7, OneYear
  <1>10. y1 = y2
    BY <1>1, <1>2, <1>8, <1>9
  <1>11. q1 = q2 /\ r1 = r2
    BY <1>10 DEF q1, q2, r1, r2
  <1> QED BY <1>1, <1>2, <1>3, <1>6, <1>7, <1>10, <1>11

\* What a valid date is made of: its year from March, its month and its day.
LEMMA ValidFields ==
  ASSUME NEW ymd \in [y : Int, m : Int, d : Int], YmdOk(ymd),
         NEW y, y = ymd.y - (IF ymd.m <= 2 THEN 1 ELSE 0),
         NEW mp, mp = IF ymd.m > 2 THEN ymd.m - 3 ELSE ymd.m + 9,
         NEW d, d = ymd.d
  PROVE  /\ y \in Int /\ mp \in 0..11 /\ d \in Int /\ 1 <= d /\ d <= 31
         /\ mp \in {1, 3, 6, 8} => d <= 30
         /\ mp = 11 => d <= 29
         /\ mp = 11 /\ d = 29 =>
              (y + 1) % 4 = 0 /\ ((y + 1) % 100 # 0 \/ (y + 1) % 400 = 0)
         /\ ymd = [y |-> y + (IF mp < 10 THEN 0 ELSE 1),
                   m |-> IF mp < 10 THEN mp + 3 ELSE mp - 9, d |-> d]
  <1>1. ymd.m \in 1..12 /\ ymd.y \in Int /\ ymd.d \in 1..LastDay(ymd.y, ymd.m)
    BY DEF YmdOk, MonthOk
  <1>2. y \in Int /\ mp \in 0..11
    BY <1>1
  <1>3. /\ d \in Int /\ 1 <= d /\ d <= 31
        /\ mp \in {1, 3, 6, 8} => d <= 30
        /\ mp = 11 => d <= 29
        /\ mp = 11 /\ d = 29 => IsLeap(ymd.y)
    BY <1>1 DEF LastDay
  <1>4. mp = 11 /\ d = 29 =>
          (y + 1) % 4 = 0 /\ ((y + 1) % 100 # 0 \/ (y + 1) % 400 = 0)
    <2> SUFFICES ASSUME mp = 11, d = 29
                 PROVE  (y + 1) % 4 = 0 /\ ((y + 1) % 100 # 0 \/ (y + 1) % 400 = 0)
      OBVIOUS
    <2>1. y + 1 = ymd.y
      BY <1>1
    <2> QED BY <1>3, <2>1 DEF IsLeap
  <1>5. ymd = [y |-> y + (IF mp < 10 THEN 0 ELSE 1),
               m |-> IF mp < 10 THEN mp + 3 ELSE mp - 9, d |-> d]
    BY <1>1, <1>2
  <1> QED BY <1>2, <1>3, <1>4, <1>5

\* from_days() gives back the date that to_days() counted, for every valid date
\* of the 162 eras: with DayRoundTrip, the two are inverse to each other.
THEOREM DateRoundTrip ==
  \A ymd \in [y : Int, m : Int, d : Int] :
    YmdOk(ymd) /\ InRange(ToDays(ymd)) => FromDays(ToDays(ymd)) = ymd
  <1> SUFFICES ASSUME NEW ymd \in [y : Int, m : Int, d : Int],
                      YmdOk(ymd), InRange(ToDays(ymd))
               PROVE  FromDays(ToDays(ymd)) = ymd
    OBVIOUS
  <1> DEFINE y  == ymd.y - (IF ymd.m <= 2 THEN 1 ELSE 0)
             mp == IF ymd.m > 2 THEN ymd.m - 3 ELSE ymd.m + 9
             d  == ymd.d
             e  == y \div 400
             k  == y - e * 400
             n  == DaysBefore(mp) + d - 1
             z  == ToDays(ymd)
  <1>1. /\ y \in Int /\ mp \in 0..11 /\ d \in Int /\ 1 <= d /\ d <= 31
        /\ mp \in {1, 3, 6, 8} => d <= 30
        /\ mp = 11 => d <= 29
        /\ mp = 11 /\ d = 29 =>
             (y + 1) % 4 = 0 /\ ((y + 1) % 100 # 0 \/ (y + 1) % 400 = 0)
        /\ ymd = [y |-> y + (IF mp < 10 THEN 0 ELSE 1),
                  m |-> IF mp < 10 THEN mp + 3 ELSE mp - 9, d |-> d]
    BY ValidFields
  <1>2. z = DayCount(e, k, n)
    <2>1. z = DayCount(QuotDown(y, 400), y - QuotDown(y, 400) * 400, n)
      BY DEF ToDays
    <2>2. QuotDown(y, 400) = e
      <3> HIDE DEF y
      <3> QED BY <1>1, EraOfYear
    <2> QED BY <2>1, <2>2
  <1> HIDE DEF y, mp, d, z
  <1>3. e \in Int /\ k \in Int /\ 0 <= k /\ k <= 399 /\ y = k + e * 400
    BY <1>1
  <1>4. n \in Int
    BY <1>1 DEF DaysBefore
  <1>5. /\ mp = (5 * n + 2) \div 153
        /\ 0 <= n /\ n <= 365 /\ (n = 365 => mp = 11 /\ d = 29)
    <2>1. n = DaysBefore(mp) + d - 1
      OBVIOUS
    <2> HIDE DEF n
    <2> QED BY <1>1, <1>4, <2>1, OneMonth
  <1> HIDE DEF e, k, n
  <1>6. n = 365 => k = 4 * (k \div 4) + 3 /\ (k # 100 * (k \div 100) + 99 \/ k = 399)
    <2> SUFFICES ASSUME n = 365
                 PROVE  k = 4 * (k \div 4) + 3 /\ (k # 100 * (k \div 100) + 99 \/ k = 399)
      OBVIOUS
    <2>1. (y + 1) % 4 = 0 /\ ((y + 1) % 100 # 0 \/ (y + 1) % 400 = 0)
      BY <1>1, <1>5
    <2>2. k = 4 * (k \div 4) + 3
      BY <1>3, <2>1
    <2>3. k # 100 * (k \div 100) + 99 \/ k = 399
      BY <1>3, <2>1
    <2> QED BY <2>2, <2>3
  <1>7. Splits(e, k, n)
    BY <1>3, <1>4, <1>5, <1>6 DEF Splits
  <1>8. z \in Int
    <2>1. k \div 4 \in Int /\ k \div 100 \in Int
      BY <1>3, Quotients
    <2> QED BY <1>2, <1>3, <1>4, <2>1 DEF DayCount
  <1>9. PICK era, yoe, doy, mp2, d2 \in Int : SplitDay(z, era, yoe, doy, mp2, d2)
    BY <1>8, FieldsOfDay DEF z
  <1>10. Splits(era, yoe, doy)
    <2>1. /\ 0 <= yoe /\ yoe <= 399 /\ 0 <= doy /\ doy <= 365
          /\ doy = 365 => (yoe + 1) % 4 = 0 /\ ((yoe + 1) % 100 # 0 \/ yoe = 399)
      BY <1>9 DEF SplitDay
    <2>2. doy = 365 => yoe = 4 * (yoe \div 4) + 3
      BY <2>1
    <2>3. doy = 365 => yoe # 100 * (yoe \div 100) + 99 \/ yoe = 399
      BY <2>1
    <2> QED BY <2>1, <2>2, <2>3 DEF Splits
  <1>11. DayCount(era, yoe, doy) = z
    <2>1. yoe \div 4 \in Int /\ yoe \div 100 \in Int
      BY Quotients
    <2>2. z + 719468 = era * 146097 + yoe * 365 + yoe \div 4 - yoe \div 100 + doy
      BY <1>9 DEF SplitDay
    <2> QED BY <1>8, <2>1, <2>2 DEF DayCount
  <1>12. era = e /\ yoe = k /\ doy = n
    BY <1>2, <1>7, <1>10, <1>11, OneSplit
  <1>13. /\ mp2 = (5 * doy + 2) \div 153 /\ d2 = doy - DaysBefore(mp2) + 1
         /\ FromDays(z) = [y |-> yoe + era * 400 + (IF mp2 < 10 THEN 0 ELSE 1),
                           m |-> IF mp2 < 10 THEN mp2 + 3 ELSE mp2 - 9, d |-> d2]
    BY <1>9 DEF SplitDay
  <1>14. mp2 = mp
    BY <1>5, <1>12, <1>13
  <1>15. d2 = d
    <2>1. DaysBefore(mp) \in Int
      BY <1>1 DEF DaysBefore
    <2> QED BY <1>1, <1>12, <1>13, <1>14, <2>1 DEF n
  <1>16. FromDays(z) = ymd
    BY <1>1, <1>3, <1>12, <1>13, <1>14, <1>15
  <1> QED BY <1>16 DEF z

-----------------------------------------------------------------------------
\* The system clock, whatever its ticks and its steps are, shows days that read
\* back.

\* The ticks of a day are a positive number.
LEMMA MidnightPositive == Midnight \in Int /\ Midnight > 0
  BY ClockAssumption DEF Midnight, Hour, Minute

\* A duration rounded down to days is a whole number of them.
LEMMA FloorInt == \A n \in Int : Floor(n, Midnight) \in Int
  <1> SUFFICES ASSUME NEW n \in Int PROVE Floor(n, Midnight) \in Int
    OBVIOUS
  <1>1. Quot(n, Midnight) \in Int
    BY MidnightPositive DEF Quot
  <1> QED BY <1>1 DEF Floor, Trunc

\* The clock counts from whole days in whole ticks.
ClockInt == base \in Int /\ now \in Int

\* They stay whole.
LEMMA ClockStaysInt == Spec => []ClockInt
  <1>1. Init => ClockInt
    BY DatesAssumption DEF Init, ClockInt
  <1>2. ClockInt /\ [Next]_vars => ClockInt'
    <2> SUFFICES ASSUME ClockInt, [Next]_vars PROVE ClockInt'
      OBVIOUS
    <2>1. CASE Pass
      <3>1. PICK step \in Step : now' = now + step
        BY <2>1 DEF Pass
      <3>2. step \in Int
        BY DatesAssumption, MidnightPositive
      <3> QED BY <2>1, <3>1, <3>2 DEF ClockInt, Pass
    <2>2. CASE UNCHANGED vars
      BY <2>2 DEF ClockInt, vars
    <2> QED BY <2>1, <2>2 DEF Next
  <1> QED BY <1>1, <1>2, PTL DEF Spec

\* At any time the day the log writes reads back: format() and from_stream()
\* lose no day between from_days() and to_days().
THEOREM ClockDaysReadBack == Spec => []DaysReadBack
  <1>1. ClockInt => DaysReadBack
    <2> SUFFICES ASSUME ClockInt PROVE DaysReadBack
      OBVIOUS
    <2>1. Day \in Int
      BY FloorInt DEF ClockInt, Day
    <2> QED BY <2>1, DayRoundTrip DEF DaysReadBack
  <1> QED BY <1>1, ClockStaysInt, PTL
-----------------------------------------------------------------------------
\* The day after

\* The day count of the first of March of year y.
MarchFirst(y) == 365 * y + y \div 4 - y \div 100 + y \div 400 - 719468

\* The day count of the n-th day of a year that begins in March, by its era.
CountFrom(y, n) == DayCount(QuotDown(y, 400), y - QuotDown(y, 400) * 400, n)

\* to_days(): the era of a year drops out, as leap years repeat with eras.
LEMMA ClosedCount ==
  ASSUME NEW y \in Int, NEW n \in Int
  PROVE  /\ MarchFirst(y) \in Int
         /\ CountFrom(y, n) = MarchFirst(y) + n
  <1> DEFINE e == y \div 400
             k == y - e * 400
  <1>1. QuotDown(y, 400) = e
    BY EraOfYear
  <1>2. e \in Int /\ 400 * e <= y /\ y <= 400 * e + 399
    OBVIOUS
  <1> HIDE DEF e
  <1>3. k \div 4 = y \div 4 - 100 * e /\ k \div 100 = y \div 100 - 4 * e
    BY <1>2
  <1>4. y \div 4 \in Int /\ y \div 100 \in Int
    BY Quotients
  <1>5. DayCount(e, k, n) = 365 * y + y \div 4 - y \div 100 + e + n - 719468
    BY <1>2, <1>3, <1>4 DEF DayCount
  <1> QED BY <1>1, <1>2, <1>4, <1>5 DEF e, MarchFirst, CountFrom

\* The fields of a date as to_days() reads them.
MarchYear(ymd) == ymd.y - (IF ymd.m <= 2 THEN 1 ELSE 0)
MarchMonth(ymd) == IF ymd.m > 2 THEN ymd.m - 3 ELSE ymd.m + 9

\* to_days() counts from the first of March on.
LEMMA ToDaysClosed ==
  ASSUME NEW ymd \in [y : Int, m : 1..12, d : Int]
  PROVE  /\ MarchYear(ymd) \in Int /\ MarchFirst(MarchYear(ymd)) \in Int
         /\ DaysBefore(MarchMonth(ymd)) \in Int
         /\ ToDays(ymd) = MarchFirst(MarchYear(ymd))
                            + (DaysBefore(MarchMonth(ymd)) + ymd.d - 1)
  <1>1. MarchYear(ymd) \in Int /\ MarchMonth(ymd) \in 0..11 /\ ymd.d \in Int
    BY DEF MarchYear, MarchMonth
  <1>2. DaysBefore(MarchMonth(ymd)) \in Int
    BY <1>1 DEF DaysBefore
  <1>3. ToDays(ymd) = CountFrom(MarchYear(ymd), DaysBefore(MarchMonth(ymd)) + ymd.d - 1)
    BY DEF ToDays, CountFrom, MarchYear, MarchMonth
  <1>4. DaysBefore(MarchMonth(ymd)) + ymd.d - 1 \in Int
    BY <1>1, <1>2
  <1>5. PICK y \in Int, n \in Int :
          y = MarchYear(ymd) /\ n = DaysBefore(MarchMonth(ymd)) + ymd.d - 1
    BY <1>1, <1>4
  <1>6. ToDays(ymd) = CountFrom(y, n)
    BY <1>3, <1>5, Zenon
  <1>7. MarchFirst(y) \in Int /\ ToDays(ymd) = MarchFirst(y) + n
    BY <1>6, ClosedCount, Zenon
  <1> QED BY <1>1, <1>2, <1>5, <1>7, Zenon

\* A month is as long as the next one is later, but for February, the last month
\* of a year that begins in March.
LEMMA MonthLengths ==
  ASSUME NEW y \in Int, NEW m \in 1..12
  PROVE  /\ LastDay(y, m) \in 28..31
         /\ m # 2 /\ m # 12 =>
              LET a == [y |-> y, m |-> m, d |-> LastDay(y, m)]
                  b == [y |-> y, m |-> m + 1, d |-> 1]
              IN  /\ MarchYear(b) = MarchYear(a)
                  /\ DaysBefore(MarchMonth(b)) = DaysBefore(MarchMonth(a)) + LastDay(y, m)
  BY DEF LastDay, MarchYear, MarchMonth, DaysBefore

\* That year is 365 days, or 366 if it ends in a leap year.
LEMMA LeapLength ==
  ASSUME NEW y \in Int
  PROVE  MarchFirst(y + 1) = MarchFirst(y) + (IF IsLeap(y + 1) THEN 366 ELSE 365)
  <1>1. (y + 1) \div 4 - (y + 1) \div 100 + (y + 1) \div 400 =
           y \div 4 - y \div 100 + y \div 400 + (IF IsLeap(y + 1) THEN 1 ELSE 0)
    BY DEF IsLeap
  <1>2. /\ (y + 1) \div 4 \in Int /\ (y + 1) \div 100 \in Int /\ (y + 1) \div 400 \in Int
        /\ y \div 4 \in Int /\ y \div 100 \in Int /\ y \div 400 \in Int
    OBVIOUS
  <1>3. CASE IsLeap(y + 1)
    BY <1>1, <1>2, <1>3 DEF MarchFirst
  <1>4. CASE ~IsLeap(y + 1)
    BY <1>1, <1>2, <1>4 DEF MarchFirst
  <1> QED BY <1>3, <1>4

\* A year that is a short, and the next one too.
YearFits(y) == -32768 < y /\ y < 32767

\* The rules of the calendar give a date for every date but the last of the last
\* year, one day later by to_days().
LEMMA SuccessorCounts ==
  ASSUME NEW ymd \in [y : Int, m : Int, d : Int], YmdOk(ymd),
         YearFits(ymd.y)
  PROVE  /\ Successor(ymd) \in [y : Int, m : Int, d : Int]
         /\ YmdOk(Successor(ymd)) /\ YmdLess(ymd, Successor(ymd))
         /\ ToDays(Successor(ymd)) = ToDays(ymd) + 1
  <1> DEFINE y == ymd.y
             m == ymd.m
             d == ymd.d
             next == [ymd EXCEPT !.d = DayPlus(@, 1)]
             S(s) == /\ s \in [y : Int, m : Int, d : Int]
                     /\ YmdOk(s) /\ YmdLess(ymd, s) /\ ToDays(s) = ToDays(ymd) + 1
  <1>1. /\ y \in Int /\ m \in 1..12 /\ d \in Int /\ 1 <= d /\ d <= LastDay(y, m)
        /\ LastDay(y, m) \in 28..31 /\ ymd = [y |-> y, m |-> m, d |-> d]
        /\ ymd \in [y : Int, m : 1..12, d : Int]
    <2>1. y \in Int /\ m \in 1..12 /\ d \in 1..LastDay(y, m)
      BY DEF YmdOk, MonthOk
    <2>2. LastDay(y, m) \in 28..31
      BY <2>1, MonthLengths, Zenon
    <2> QED BY <2>1, <2>2
  <1>2. next = [y |-> y, m |-> m, d |-> d + 1]
    BY <1>1 DEF DayPlus, UChar
  <1>3. YmdOk(next) <=> d < LastDay(y, m)
    <2>1. YearOk(y) /\ MonthOk(m)
      BY DEF YmdOk
    <2>2. YmdOk(next) <=> d + 1 \in 1..LastDay(y, m)
      BY <1>2, <2>1 DEF YmdOk
    <2> QED BY <1>1, <2>2
  <1>4. CASE d < LastDay(y, m)
    <2>1. Successor(ymd) = next
      BY <1>3, <1>4 DEF Successor
    <2>2. next \in [y : Int, m : 1..12, d : Int]
      BY <1>1, <1>2
    <2>3. MarchYear(next) = MarchYear(ymd) /\ MarchMonth(next) = MarchMonth(ymd)
      BY <1>1, <1>2 DEF MarchYear, MarchMonth
    <2>4. ToDays(next) = ToDays(ymd) + 1
      <3>1. /\ ToDays(next) = MarchFirst(MarchYear(ymd)) + (DaysBefore(MarchMonth(ymd)) + (d + 1) - 1)
            /\ ToDays(ymd) = MarchFirst(MarchYear(ymd)) + (DaysBefore(MarchMonth(ymd)) + d - 1)
            /\ MarchFirst(MarchYear(ymd)) \in Int /\ DaysBefore(MarchMonth(ymd)) \in Int
        <4>1. next.d = d + 1
          BY <1>2
        <4> QED BY <1>1, <2>2, <2>3, <4>1, ToDaysClosed, Zenon
      <3> HIDE DEF next
      <3> QED BY <1>1, <3>1
    <2>5. YmdLess(ymd, next)
      BY <1>1, <1>2 DEF YmdLess
    <2>6. S(next)
      BY <1>1, <1>2, <1>3, <1>4, <2>4, <2>5
    <2> QED BY <2>1, <2>6, Zenon
  <1>5. CASE d = LastDay(y, m) /\ m # 12
    <2> DEFINE b == [y |-> y, m |-> m + 1, d |-> 1]
    <2>1. Successor(ymd) = b
      <3>1. ~YmdOk(next)
        BY <1>1, <1>3, <1>5
      <3>2. Successor(ymd) = Ymd(y, NextMonth(m), 1)
        BY <1>5, <3>1, Zenon DEF Successor
      <3>3. Short(y) = y /\ UChar(NextMonth(m)) = m + 1 /\ UChar(1) = 1
        BY <1>1, <1>5 DEF YearFits, Short, UChar, NextMonth
      <3> QED BY <3>2, <3>3, Zenon DEF Ymd
    <2>2. /\ b \in [y : Int, m : 1..12, d : Int]
          /\ b.d = 1
      BY <1>1, <1>5
    <2>3. /\ ToDays(b) = MarchFirst(MarchYear(b)) + (DaysBefore(MarchMonth(b)) + 1 - 1)
          /\ ToDays(ymd) = MarchFirst(MarchYear(ymd)) + (DaysBefore(MarchMonth(ymd)) + LastDay(y, m) - 1)
          /\ MarchFirst(MarchYear(ymd)) \in Int /\ DaysBefore(MarchMonth(ymd)) \in Int
          /\ MarchFirst(MarchYear(b)) \in Int /\ DaysBefore(MarchMonth(b)) \in Int
      BY <1>1, <1>5, <2>2, ToDaysClosed, Zenon
    <2>4. MarchFirst(MarchYear(b)) + DaysBefore(MarchMonth(b)) =
            MarchFirst(MarchYear(ymd)) + DaysBefore(MarchMonth(ymd)) + LastDay(y, m)
      <3>1. CASE m # 2
        <4>1. /\ MarchYear(b) = MarchYear(ymd)
              /\ DaysBefore(MarchMonth(b)) = DaysBefore(MarchMonth(ymd)) + LastDay(y, m)
          BY <1>1, <1>5, <3>1, MonthLengths, Zenon
        <4> HIDE DEF b
        <4> QED BY <1>1, <2>3, <4>1
      <3>2. CASE m = 2
        <4>1. /\ MarchYear(ymd) = y - 1 /\ MarchYear(b) = y
              /\ DaysBefore(MarchMonth(ymd)) = 337 /\ DaysBefore(MarchMonth(b)) = 0
          BY <1>1, <3>2 DEF MarchYear, MarchMonth, DaysBefore
        <4>2. LastDay(y, m) = (IF IsLeap(y) THEN 29 ELSE 28)
          BY <3>2 DEF LastDay
        <4>3. MarchFirst(y) = MarchFirst(y - 1) + (IF IsLeap(y) THEN 366 ELSE 365)
          <5>1. PICK x \in Int : x = y - 1 /\ x + 1 = y
            BY <1>1
          <5>2. MarchFirst(x + 1) = MarchFirst(x) + (IF IsLeap(x + 1) THEN 366 ELSE 365)
            BY LeapLength
          <5>3. CASE IsLeap(x + 1)
            BY <5>1, <5>2, <5>3
          <5>4. CASE ~IsLeap(x + 1)
            BY <5>1, <5>2, <5>4
          <5> QED BY <5>3, <5>4, Zenon
        <4>4. MarchFirst(y - 1) \in Int /\ MarchFirst(y) \in Int
          BY <2>3, <4>1, Zenon
        <4>5. CASE IsLeap(y)
          BY <4>1, <4>2, <4>3, <4>4, <4>5
        <4>6. CASE ~IsLeap(y)
          BY <4>1, <4>2, <4>3, <4>4, <4>6
        <4> QED BY <4>5, <4>6, Zenon
      <3> QED BY <3>1, <3>2, Zenon
    <2>5. ToDays(b) = ToDays(ymd) + 1
      <3> HIDE DEF b
      <3> QED BY <1>1, <2>3, <2>4
    <2>6. YmdLess(ymd, b)
      BY <1>1 DEF YmdLess
    <2>7. YmdOk(b)
      <3>1. LastDay(y, m + 1) \in 28..31 /\ m + 1 \in 1..12
        <4>1. PICK n \in 1..12 : n = m + 1
          BY <1>1, <1>5
        <4> QED BY <1>1, <4>1, MonthLengths, Zenon
      <3> QED BY <1>1, <3>1 DEF YearFits, YmdOk, MonthOk, YearOk
    <2>8. S(b)
      BY <2>2, <2>5, <2>6, <2>7
    <2> QED BY <2>1, <2>8, Zenon
  <1>6. CASE d = LastDay(y, m) /\ m = 12
    <2> DEFINE b == [y |-> y + 1, m |-> 1, d |-> 1]
    <2>1. Successor(ymd) = b
      <3>1. ~YmdOk(next)
        BY <1>1, <1>3, <1>6
      <3>2. Successor(ymd) = Ymd(YearPlus(y, 1), NextMonth(m), 1)
        BY <1>6, <3>1, Zenon DEF Successor
      <3>3. Short(YearPlus(y, 1)) = y + 1 /\ UChar(NextMonth(m)) = 1 /\ UChar(1) = 1
        BY <1>1, <1>6 DEF YearFits, Short, UChar, NextMonth, YearPlus
      <3> QED BY <3>2, <3>3, Zenon DEF Ymd
    <2>2. /\ b \in [y : Int, m : 1..12, d : Int]
          /\ b.d = 1
      BY <1>1
    <2>3. /\ ToDays(b) = MarchFirst(MarchYear(b)) + (DaysBefore(MarchMonth(b)) + 1 - 1)
          /\ ToDays(ymd) = MarchFirst(MarchYear(ymd)) + (DaysBefore(MarchMonth(ymd)) + d - 1)
          /\ MarchFirst(MarchYear(ymd)) \in Int
      BY <1>1, <2>2, ToDaysClosed, Zenon
    <2>4. /\ MarchYear(ymd) = y /\ MarchYear(b) = y /\ d = 31
          /\ DaysBefore(MarchMonth(ymd)) = 275 /\ DaysBefore(MarchMonth(b)) = 306
      BY <1>1, <1>6 DEF MarchYear, MarchMonth, DaysBefore, LastDay
    <2>5. ToDays(b) = ToDays(ymd) + 1
      <3> HIDE DEF b
      <3> QED BY <2>3, <2>4
    <2>6. YmdLess(ymd, b)
      BY <1>1 DEF YmdLess
    <2>7. YmdOk(b)
      BY <1>1 DEF YearFits, YmdOk, MonthOk, YearOk, LastDay
    <2>8. S(b)
      BY <2>2, <2>5, <2>6, <2>7
    <2> QED BY <2>1, <2>8, Zenon
  <1> QED BY <1>1, <1>4, <1>5, <1>6

\* from_days() gives a year that a short can hold, and the year after it too.
LEMMA YearsFit ==
  ASSUME NEW z \in Int, InRange(z)
  PROVE  /\ FromDays(z) \in [y : Int, m : Int, d : Int]
         /\ YearFits(FromDays(z).y)
  <1>1. PICK era, yoe, doy, mp, d \in Int : SplitDay(z, era, yoe, doy, mp, d)
    BY FieldsOfDay
  <1>2. /\ -81 <= era /\ era <= 80 /\ 0 <= yoe /\ yoe <= 399
        /\ FromDays(z) = [y |-> yoe + era * 400 + (IF mp < 10 THEN 0 ELSE 1),
                          m |-> IF mp < 10 THEN mp + 3 ELSE mp - 9, d |-> d]
    BY <1>1 DEF SplitDay
  <1>3. PICK y \in Int : y = yoe + era * 400 + (IF mp < 10 THEN 0 ELSE 1)
    OBVIOUS
  <1>4. YearFits(y)
    BY <1>2, <1>3 DEF YearFits
  <1> QED BY <1>2, <1>3, <1>4

\* The day after, by from_days(): the date is the next one of the calendar.
THEOREM NextDate ==
  ASSUME NEW z \in Int, InRange(z), InRange(z + 1)
  PROVE  /\ FromDays(z + 1) = Successor(FromDays(z))
         /\ YmdLess(FromDays(z), FromDays(z + 1))
  <1>1. PICK ymd : ymd = FromDays(z)
    OBVIOUS
  <1>2. ymd \in [y : Int, m : Int, d : Int] /\ YearFits(ymd.y)
    BY <1>1, YearsFit, Zenon
  <1>3. YmdOk(ymd) /\ ToDays(ymd) = z
    BY <1>1, DatesAreValid, DayRoundTrip, Zenon
  <1>4. PICK s : s = Successor(ymd)
    OBVIOUS
  <1>5. /\ s \in [y : Int, m : Int, d : Int] /\ YmdOk(s)
        /\ YmdLess(ymd, s) /\ ToDays(s) = z + 1
    BY <1>2, <1>3, <1>4, SuccessorCounts, Zenon
  <1>6. FromDays(z + 1) = s
    BY <1>5, DateRoundTrip, Zenon
  <1> QED BY <1>1, <1>4, <1>5, <1>6, Zenon

\* And by weekday_from_days(), whose two cases meet at day -4.
THEOREM NextWeekdayFollows ==
  \A z \in Int : WeekdayFromDays(z + 1) = NextWeekday(WeekdayFromDays(z))
  <1> SUFFICES ASSUME NEW z \in Int
               PROVE  WeekdayFromDays(z + 1) = NextWeekday(WeekdayFromDays(z))
    OBVIOUS
  <1>1. \A x \in Int : WeekdayFromDays(x) = (x + 4) % 7 /\ WeekdayFromDays(x) \in 0..6
    BY DEF WeekdayFromDays, UChar
  <1> QED BY <1>1 DEF NextWeekday, UChar

-----------------------------------------------------------------------------
\* The clock

\* What a division that truncates gives, for any unit.
LEMMA TruncBounds ==
  ASSUME NEW d \in Int, NEW unit \in Int, unit > 0
  PROVE  \E t \in Int :
           /\ Trunc(d, unit) = t
           /\ d >= 0 => 0 <= t /\ t * unit <= d /\ d < t * unit + unit
           /\ d < 0 => t <= 0 /\ t * unit - unit < d /\ d <= t * unit
  <1>1. \A x \in Nat : \E q \in Nat : x \div unit = q /\ q * unit <= x /\ x < q * unit + unit
    OBVIOUS
  <1>2. CASE d >= 0
    <2>1. PICK q \in Nat : d \div unit = q /\ q * unit <= d /\ d < q * unit + unit
      BY <1>1, <1>2
    <2> QED BY <1>2, <2>1 DEF Trunc, Quot
  <1>3. CASE d < 0
    <2>1. PICK q \in Nat : (-d) \div unit = q /\ q * unit <= -d /\ -d < q * unit + unit
      BY <1>1, <1>3
    <2>2. Trunc(d, unit) = -q
      BY <1>3, <2>1 DEF Trunc, Quot
    <2>3. (-q) * unit = -(q * unit)
      OBVIOUS
    <2> QED BY <1>3, <2>1, <2>2, <2>3
  <1> QED BY <1>2, <1>3

\* floor(): the unit a duration is in.
LEMMA FloorBounds ==
  ASSUME NEW d \in Int, NEW unit \in Int, unit > 0
  PROVE  \E f \in Int : /\ Floor(d, unit) = f
                        /\ f * unit <= d /\ d < f * unit + unit
  <1>1. PICK t \in Int :
           /\ Trunc(d, unit) = t
           /\ d >= 0 => 0 <= t /\ t * unit <= d /\ d < t * unit + unit
           /\ d < 0 => t <= 0 /\ t * unit - unit < d /\ d <= t * unit
    BY TruncBounds
  <1>2. (t - 1) * unit = t * unit - unit
    OBVIOUS
  <1> QED BY <1>1, <1>2 DEF Floor

\* And it is the only one.
LEMMA UnitOrder ==
  ASSUME NEW a \in Int, NEW b \in Int, NEW unit \in Int, unit > 0,
         a * unit < b * unit + unit
  PROVE  a <= b
  <1> SUFFICES ASSUME a >= b + 1 PROVE FALSE
    OBVIOUS
  <1>1. a * unit >= (b + 1) * unit
    OBVIOUS
  <1>2. (b + 1) * unit = b * unit + unit
    OBVIOUS
  <1> QED BY <1>1, <1>2

\* A step of a day or less passes one midnight at most.
LEMMA FloorStep ==
  ASSUME NEW d \in Int, NEW unit \in Int, unit > 0, NEW step \in 1..unit
  PROVE  Floor(d + step, unit) \in {Floor(d, unit), Floor(d, unit) + 1}
  <1>1. PICK f \in Int : /\ Floor(d, unit) = f
                         /\ f * unit <= d /\ d < f * unit + unit
    BY FloorBounds, Zenon
  <1>2. PICK x \in Int : x = d + step
    OBVIOUS
  <1>3. PICK g \in Int : /\ Floor(x, unit) = g
                         /\ g * unit <= x /\ x < g * unit + unit
    BY FloorBounds, Zenon
  <1>4. f * unit < g * unit + unit
    BY <1>1, <1>2, <1>3
  <1>5. (f + 1) * unit = f * unit + unit
    OBVIOUS
  <1>6. g * unit < (f + 1) * unit + unit
    BY <1>1, <1>2, <1>3, <1>5
  <1>7. f <= g
    BY <1>4, UnitOrder
  <1>8. g <= f + 1
    BY <1>6, UnitOrder
  <1> QED BY <1>1, <1>2, <1>3, <1>7, <1>8

\* As time passes midnight the log's date becomes the next one of the calendar
\* and its weekday the next one of the week: from_days(), weekday_from_days().
THEOREM DaysFollow == Spec => NextDayFollows
  <1>1. Spec => []ClockInt
    BY ClockStaysInt
  <1>2. ClockInt /\ [Next]_vars =>
          [\/ Day' = Day
           \/ /\ Day' = Day + 1
              /\ InRange(Day) /\ InRange(Day') =>
                   /\ FromDays(Day') = Successor(FromDays(Day))
                   /\ YmdLess(FromDays(Day), FromDays(Day'))
              /\ WeekdayFromDays(Day') = NextWeekday(WeekdayFromDays(Day))]_vars
    <2> SUFFICES ASSUME ClockInt, Pass
                 PROVE  \/ Day' = Day
                        \/ /\ Day' = Day + 1
                           /\ InRange(Day) /\ InRange(Day') =>
                                /\ FromDays(Day') = Successor(FromDays(Day))
                                /\ YmdLess(FromDays(Day), FromDays(Day'))
                           /\ WeekdayFromDays(Day') = NextWeekday(WeekdayFromDays(Day))
      BY DEF Next
    <2>1. PICK step \in Step : now' = now + step
      BY DEF Pass
    <2>2. step \in 1..Midnight /\ now \in Int /\ base \in Int /\ base' = base
      BY DatesAssumption DEF ClockInt, Pass
    <2>3. PICK f \in Int : f = Floor(now, Midnight)
      BY <2>2, FloorInt
    <2>4. Floor(now', Midnight) \in {f, f + 1}
      BY <2>1, <2>2, <2>3, MidnightPositive, FloorStep, Zenon
    <2>5. PICK z \in Int : z = Day /\ z = base + f
      BY <2>2, <2>3 DEF Day
    <2>6. Day' \in {z, z + 1}
      BY <2>2, <2>4, <2>5 DEF Day
    <2>7. /\ InRange(z) /\ InRange(z + 1) =>
               /\ FromDays(z + 1) = Successor(FromDays(z))
               /\ YmdLess(FromDays(z), FromDays(z + 1))
          /\ WeekdayFromDays(z + 1) = NextWeekday(WeekdayFromDays(z))
      BY NextDate, NextWeekdayFollows, Zenon
    <2>8. CASE Day' = z
      BY <2>5, <2>8
    <2>9. CASE Day' = z + 1
      BY <2>5, <2>7, <2>9, Zenon
    <2> QED BY <2>6, <2>8, <2>9, Zenon
  <1> QED BY <1>1, <1>2, PTL DEF Spec, NextDayFollows

\* ceil(): no more than a unit above the floor, and not below the duration.
LEMMA CeilBounds ==
  ASSUME NEW d \in Int, NEW unit \in Int, unit > 0
  PROVE  /\ Floor(d, unit) \in Int /\ Ceil(d, unit) \in Int
         /\ Floor(d, unit) * unit <= d /\ d <= Ceil(d, unit) * unit
         /\ Ceil(d, unit) - Floor(d, unit) \in {0, 1}
  <1>1. PICK t \in Int :
           /\ Trunc(d, unit) = t
           /\ d >= 0 => 0 <= t /\ t * unit <= d /\ d < t * unit + unit
           /\ d < 0 => t <= 0 /\ t * unit - unit < d /\ d <= t * unit
    BY TruncBounds, Zenon
  <1>2. /\ (t - 1) * unit = t * unit - unit /\ (t + 1) * unit = t * unit + unit
        /\ t * unit \in Int
    OBVIOUS
  <1>3. Floor(d, unit) = IF t * unit > d THEN t - 1 ELSE t
    BY <1>1, Zenon DEF Floor
  <1>4. Ceil(d, unit) = IF t * unit < d THEN t + 1 ELSE t
    BY <1>1, Zenon DEF Ceil
  <1>5. CASE t * unit > d
    BY <1>1, <1>2, <1>3, <1>4, <1>5
  <1>6. CASE t * unit < d
    BY <1>1, <1>2, <1>3, <1>4, <1>6
  <1>7. CASE t * unit = d
    BY <1>2, <1>3, <1>4, <1>7
  <1> QED BY <1>2, <1>5, <1>6, <1>7

\* round(): half a unit away at most.
LEMMA RoundBounds ==
  ASSUME NEW d \in Int, NEW unit \in Int, unit > 0
  PROVE  2 * Magnitude(d - Round(d, unit) * unit) <= unit
  <1>1. PICK f \in Int : /\ Floor(d, unit) = f
                         /\ f * unit <= d /\ d < f * unit + unit
    BY FloorBounds, Zenon
  <1>2. (f + 1) * unit = f * unit + unit /\ f * unit \in Int
    OBVIOUS
  <1>3. PICK lo \in Int : lo = d - f * unit /\ 0 <= lo /\ lo < unit
    BY <1>1, <1>2
  <1>4. (f + 1) * unit - d = unit - lo
    BY <1>2, <1>3
  <1>5. /\ lo < unit - lo => Round(d, unit) = f
        /\ lo > unit - lo => Round(d, unit) = f + 1
        /\ lo = unit - lo => Round(d, unit) \in {f, f + 1}
    <2>1. Round(d, unit) =
            CASE lo < unit - lo -> f
              [] lo > unit - lo -> f + 1
              [] lo = unit - lo -> IF f - Quot(f, 2) * 2 = 0 THEN f ELSE f + 1
      BY <1>1, <1>3, <1>4, Zenon DEF Round
    <2> QED BY <1>3, <2>1
  <1>6. CASE Round(d, unit) = f /\ lo <= unit - lo
    <2>1. d - Round(d, unit) * unit = lo
      BY <1>3, <1>6, Zenon
    <2> QED BY <1>3, <1>6, <2>1 DEF Magnitude
  <1>7. CASE Round(d, unit) = f + 1 /\ lo >= unit - lo
    <2>1. d - Round(d, unit) * unit = lo - unit
      BY <1>2, <1>3, <1>7
    <2> QED BY <1>3, <1>7, <2>1 DEF Magnitude
  <1> QED BY <1>3, <1>5, <1>6, <1>7

\* The units of a clock.
LEMMA UnitsPositive ==
  /\ Second \in Int /\ Second > 0 /\ Minute \in Int /\ Minute > 0
  /\ Hour \in Int /\ Hour > 0 /\ Midnight \in Int /\ Midnight > 0
  BY ClockAssumption DEF Midnight, Hour, Minute

\* A part of a duration that is left under a unit of n smaller ones has less
\* than n of them, and leaves less than one.
LEMMA PartOf ==
  ASSUME NEW r \in Nat, NEW unit \in Int, unit > 0, NEW n \in Nat, r < n * unit
  PROVE  /\ Trunc(r, unit) \in 0..(n - 1)
         /\ r - Trunc(r, unit) * unit \in 0..(unit - 1)
  <1>1. PICK t \in Int :
           Trunc(r, unit) = t /\ 0 <= t /\ t * unit <= r /\ r < t * unit + unit
    <2>1. r \in Int /\ r >= 0
      OBVIOUS
    <2> QED BY <2>1, TruncBounds, Zenon
  <1>2. PICK k \in Int : k = n - 1 /\ k * unit + unit = n * unit
    OBVIOUS
  <1>3. t * unit < k * unit + unit
    BY <1>1, <1>2
  <1>4. t <= k
    BY <1>3, UnitOrder, Zenon
  <1> QED BY <1>1, <1>2, <1>4

\* time_of_day: the fields of a duration, of either sign.
LEMMA ClockFields ==
  ASSUME NEW t \in Int
  PROVE  \E h \in Nat, m \in 0..59, s \in 0..59, sub \in 0..(Second - 1) :
           /\ TimeOfDay(t) = [neg |-> t < 0, mode |-> "24", h |-> h, m |-> m,
                              s |-> s, sub |-> sub]
           /\ Magnitude(t) = h * Hour + m * Minute + s * Second + sub
  <1>1. PICK a \in Nat : a = Magnitude(t) /\ (t < 0 => t = -a) /\ (t >= 0 => t = a)
    BY DEF Magnitude
  <1>2. PICK h \in Nat : /\ Magnitude(Trunc(t, Hour)) = h
                         /\ h * Hour <= a /\ a < h * Hour + Hour
    <2>1. PICK q \in Int :
            /\ Trunc(t, Hour) = q
            /\ t >= 0 => 0 <= q /\ q * Hour <= t /\ t < q * Hour + Hour
            /\ t < 0 => q <= 0 /\ q * Hour - Hour < t /\ t <= q * Hour
      BY UnitsPositive, TruncBounds, Zenon
    <2>2. (-q) * Hour = -(q * Hour) /\ q * Hour \in Int /\ Hour \in Int
      BY UnitsPositive
    <2>3. CASE t >= 0
      BY <1>1, <2>1, <2>2, <2>3 DEF Magnitude
    <2>4. CASE t < 0
      <3>1. Magnitude(q) = -q /\ -q \in Nat
        BY <2>1, <2>4 DEF Magnitude
      <3>2. (-q) * Hour <= a /\ a < (-q) * Hour + Hour
        BY <1>1, <2>1, <2>2, <2>4
      <3> QED BY <2>1, <3>1, <3>2, Zenon
    <2> QED BY <2>3, <2>4
  <1>3. PICK r \in Nat : r = a - h * Hour /\ r < 60 * Minute
    <2>1. h * Hour \in Int /\ Hour \in Int
      BY UnitsPositive
    <2>2. Hour = 60 * Minute
      BY DEF Hour
    <2> QED BY <1>2, <2>1, <2>2
  <1>4. PICK m \in 0..59 : m = Trunc(r, Minute) /\ r - m * Minute \in 0..(Minute - 1)
    <2>1. PICK n \in Nat : n = 60 /\ 0..(n - 1) = 0..59 /\ r < n * Minute
      BY <1>3
    <2>2. Trunc(r, Minute) \in 0..(n - 1) /\ r - Trunc(r, Minute) * Minute \in 0..(Minute - 1)
      BY <2>1, UnitsPositive, PartOf, Zenon
    <2> QED BY <2>1, <2>2, Zenon
  <1>5. PICK v \in Nat : v = r - m * Minute /\ v < 60 * Second
    <2>1. Minute = 60 * Second /\ Minute \in Int
      BY UnitsPositive DEF Minute
    <2> QED BY <1>4, <2>1
  <1>6. PICK s \in 0..59 : s = Trunc(v, Second) /\ v - s * Second \in 0..(Second - 1)
    <2>1. PICK n \in Nat : n = 60 /\ 0..(n - 1) = 0..59 /\ v < n * Second
      BY <1>5
    <2>2. Trunc(v, Second) \in 0..(n - 1) /\ v - Trunc(v, Second) * Second \in 0..(Second - 1)
      BY <2>1, UnitsPositive, PartOf, Zenon
    <2> QED BY <2>1, <2>2, Zenon
  <1>7. PICK sub \in 0..(Second - 1) : sub = v - s * Second
    BY <1>6, Zenon
  <1>8. TimeOfDay(t) = [neg |-> t < 0, mode |-> "24", h |-> h, m |-> m,
                        s |-> s, sub |-> sub]
    <2>1. Magnitude(t) - h * Hour = r /\ Magnitude(t) - h * Hour - m * Minute = v
      BY <1>1, <1>3, <1>5, Zenon
    <2>2. DecimalSeconds(v).s = s /\ DecimalSeconds(v).sub = sub
      BY <1>6, <1>7 DEF DecimalSeconds
    <2> QED BY <1>2, <1>4, <2>1, <2>2, Zenon DEF TimeOfDay
  <1>9. a = h * Hour + m * Minute + s * Second + sub
    <2>1. h * Hour \in Int /\ m * Minute \in Int /\ s * Second \in Int
      BY UnitsPositive
    <2> QED BY <1>3, <1>5, <1>7, <2>1
  <1> QED BY <1>1, <1>8, <1>9, Zenon

\* make12() and make24() set the hour and the mode.
LEMMA HourSet ==
  ASSUME NEW neg, NEW mode, NEW h, NEW m, NEW s, NEW sub, NEW k, NEW new,
         NEW tod, NEW out,
         tod = [neg |-> neg, mode |-> mode, h |-> h, m |-> m, s |-> s, sub |-> sub],
         out = [tod EXCEPT !.h = k, !.mode = new]
  PROVE  out = [neg |-> neg, mode |-> new, h |-> k, m |-> m, s |-> s, sub |-> sub]
  BY Zenon

\* The log's clock: its fields add up to the time again, negative times
\* included; the twelve hour clock loses nothing; floor(), ceil() and round()
\* bound the time from below, from above and on both sides.
THEOREM ClockFieldsAgree == Spec => []ClockAgrees
  <1>1. ClockInt => ClockAgrees
    <2> SUFFICES ASSUME ClockInt PROVE ClockAgrees
      OBVIOUS
    <2>1. now \in Int
      BY DEF ClockInt
    <2>2. ToDuration(TimeOfDay(now)) = now
      <3>1. PICK h \in Nat, m \in 0..59, s \in 0..59, sub \in 0..(Second - 1) :
              /\ TimeOfDay(now) = [neg |-> now < 0, mode |-> "24", h |-> h, m |-> m,
                                   s |-> s, sub |-> sub]
              /\ Magnitude(now) = h * Hour + m * Minute + s * Second + sub
        BY <2>1, ClockFields, Zenon
      <3>2. PICK tod : tod = TimeOfDay(now)
        OBVIOUS
      <3>3. /\ tod.neg = (now < 0) /\ tod.m = m /\ tod.s = s /\ tod.sub = sub
            /\ To24hr(tod) = h
        BY <3>1, <3>2 DEF To24hr
      <3>4. ToDuration(tod) = IF now < 0 THEN -Magnitude(now) ELSE Magnitude(now)
        BY <3>1, <3>3, Zenon DEF ToDuration
      <3> QED BY <2>1, <3>2, <3>4 DEF Magnitude
    <2>3. PICK t \in Nat : t = Time /\ t < 24 * Hour
      <3>1. PICK f \in Int : /\ Floor(now, Midnight) = f
                             /\ f * Midnight <= now /\ now < f * Midnight + Midnight
        BY <2>1, UnitsPositive, FloorBounds, Zenon
      <3>2. f * Midnight \in Int /\ Midnight \in Int
        BY UnitsPositive
      <3>3. Midnight = 24 * Hour
        BY DEF Midnight
      <3> QED BY <2>1, <3>1, <3>2, <3>3 DEF Time
    <2>4. /\ InConventionalRange(TimeOfDay(Time))
          /\ Make12(TimeOfDay(Time)).h \in 1..12
          /\ Make24(Make12(TimeOfDay(Time))) = TimeOfDay(Time)
      <3>1. PICK h \in Nat, m \in 0..59, s \in 0..59, sub \in 0..(Second - 1) :
              /\ TimeOfDay(t) = [neg |-> t < 0, mode |-> "24", h |-> h, m |-> m,
                                 s |-> s, sub |-> sub]
              /\ Magnitude(t) = h * Hour + m * Minute + s * Second + sub
        <4>1. t \in Int
          OBVIOUS
        <4> QED BY <4>1, ClockFields, Zenon
      <3>2. h <= 23
        <4>1. h * Hour <= t
          <5>1. h * Hour \in Int /\ m * Minute \in Nat /\ s * Second \in Nat /\ sub \in Nat
            BY UnitsPositive
          <5> QED BY <3>1, <5>1 DEF Magnitude
        <4>2. 23 * Hour + Hour = 24 * Hour /\ h * Hour \in Int /\ Hour \in Int
          BY UnitsPositive
        <4>3. h * Hour < 23 * Hour + Hour
          BY <2>3, <4>1, <4>2
        <4>4. h \in Int /\ 23 \in Int
          OBVIOUS
        <4> QED BY <4>3, <4>4, UnitsPositive, UnitOrder, Zenon
      <3>3. sub < Second
        BY UnitsPositive
      <3>4. PICK tod : tod = TimeOfDay(t)
        OBVIOUS
      <3>5. PICK b : /\ b = FALSE
                     /\ tod = [neg |-> b, mode |-> "24", h |-> h, m |-> m,
                               s |-> s, sub |-> sub]
        <4>1. (t < 0) = FALSE
          OBVIOUS
        <4> QED BY <3>1, <3>4, <4>1, Zenon
      <3>6. InConventionalRange(tod)
        <4>1. ~tod.neg
          BY <3>5, Zenon
        <4>2. tod.h = h /\ tod.m = m /\ tod.s = s /\ tod.sub = sub
          BY <3>5
        <4> QED BY <3>2, <3>3, <4>1, <4>2 DEF InConventionalRange
      <3>9. tod = [neg |-> b, mode |-> "24", h |-> h, m |-> m, s |-> s, sub |-> sub]
        BY <3>5, Zenon
      <3>7. CASE h >= 12
        <4>1. PICK k \in 1..12 : k = IF h > 12 THEN h - 12 ELSE h
          BY <3>2, <3>7
        <4>2. tod.mode = "24" /\ tod.h = h /\ ~(h < 12)
          BY <3>9, <3>7
        <4>3. Make12(tod) = [tod EXCEPT !.h = k, !.mode = "pm"]
          BY <3>7, <4>1, <4>2, Zenon DEF Make12
        <4>4. Make12(tod) = [neg |-> b, mode |-> "pm", h |-> k, m |-> m,
                             s |-> s, sub |-> sub]
          BY <3>9, <4>3, HourSet, Zenon
        <4>5. To24hr(Make12(tod)) = h
          BY <3>2, <3>7, <4>1, <4>4 DEF To24hr
        <4>6. Make24(Make12(tod)) = [Make12(tod) EXCEPT !.h = h, !.mode = "24"]
          BY <4>5, Zenon DEF Make24
        <4>7. Make12(tod).h = k
          BY <4>4
        <4>8. Make24(Make12(tod)) = [neg |-> b, mode |-> "24", h |-> h, m |-> m,
                                     s |-> s, sub |-> sub]
          <5>1. PICK v : v = Make12(tod)
            OBVIOUS
          <5>2. PICK w : w = Make24(Make12(tod))
            OBVIOUS
          <5>3. w = [v EXCEPT !.h = h, !.mode = "24"]
            BY <4>6, <5>1, <5>2, Zenon
          <5>4. v = [neg |-> b, mode |-> "pm", h |-> k, m |-> m, s |-> s, sub |-> sub]
            BY <4>4, <5>1, Zenon
          <5> QED BY <5>2, <5>3, <5>4, HourSet, Zenon
        <4> QED BY <2>3, <3>4, <3>6, <3>9, <4>1, <4>7, <4>8, Zenon
      <3>8. CASE h < 12
        <4>1. PICK k \in 1..12 : k = IF h = 0 THEN 12 ELSE h
          BY <3>2, <3>8
        <4>2. tod.mode = "24" /\ tod.h = h /\ ~(h >= 12)
          BY <3>9, <3>8
        <4>3. Make12(tod) = [tod EXCEPT !.h = k, !.mode = "am"]
          BY <3>8, <4>1, <4>2, Zenon DEF Make12
        <4>4. Make12(tod) = [neg |-> b, mode |-> "am", h |-> k, m |-> m,
                             s |-> s, sub |-> sub]
          BY <3>9, <4>3, HourSet, Zenon
        <4>5. To24hr(Make12(tod)) = h
          BY <3>2, <3>8, <4>1, <4>4 DEF To24hr
        <4>6. Make24(Make12(tod)) = [Make12(tod) EXCEPT !.h = h, !.mode = "24"]
          BY <4>5, Zenon DEF Make24
        <4>7. Make12(tod).h = k
          BY <4>4
        <4>8. Make24(Make12(tod)) = [neg |-> b, mode |-> "24", h |-> h, m |-> m,
                                     s |-> s, sub |-> sub]
          <5>1. PICK v : v = Make12(tod)
            OBVIOUS
          <5>2. PICK w : w = Make24(Make12(tod))
            OBVIOUS
          <5>3. w = [v EXCEPT !.h = h, !.mode = "24"]
            BY <4>6, <5>1, <5>2, Zenon
          <5>4. v = [neg |-> b, mode |-> "am", h |-> k, m |-> m, s |-> s, sub |-> sub]
            BY <4>4, <5>1, Zenon
          <5> QED BY <5>2, <5>3, <5>4, HourSet, Zenon
        <4> QED BY <2>3, <3>4, <3>6, <3>9, <4>1, <4>7, <4>8, Zenon
      <3> QED BY <3>7, <3>8
    <2>5. ASSUME NEW unit \in {Minute, Hour, Midnight}
          PROVE  /\ Floor(now, unit) * unit <= now /\ now <= Ceil(now, unit) * unit
                 /\ Ceil(now, unit) - Floor(now, unit) \in {0, 1}
                 /\ 2 * Magnitude(now - Round(now, unit) * unit) <= unit
      <3>1. unit \in Int /\ unit > 0
        BY UnitsPositive
      <3> QED BY <2>1, <3>1, CeilBounds, RoundBounds, Zenon
    <2> QED BY <2>2, <2>4, <2>5, Zenon DEF ClockAgrees
  <1> QED BY <1>1, ClockStaysInt, PTL
=============================================================================
