---------------------------- MODULE DateFormats ----------------------------
(***************************************************************************)
(* What the date library writes of the system clock and reads back: the    *)
(* properties of the text of src/src/skal/date.h as time passes.           *)
(***************************************************************************)
EXTENDS Dates, DateText

CONSTANTS Format,   \* The formats a time is written in and read back.
          Offset    \* The minutes that local time may be ahead of UTC.

Has(fmt, letters) == \E i \in DOMAIN fmt : fmt[i].conv \in letters

\* The years that a format can tell.  Two digit years are of 1969..2068, a year
\* has four digits, and %F fills a short negative year with zeros before its
\* sign.
TellsYear(fmt, y) ==
  /\ y \in -9999..9999
  /\ Has(fmt, {"F"}) => y \notin -99..-1
  /\ Has(fmt, {"C"}) => y \in -9900..9999
  /\ Has(fmt, {"y", "g", "D"}) /\ ~Has(fmt, {"C", "Y", "G"}) => y \in 1969..2068

\* And the dates: week 0 is looked for in the wrong December, and the minutes of
\* an offset behind UTC are added to its hours, not subtracted.
Tells(fmt, z, offset) ==
  /\ TellsYear(fmt, IF Has(fmt, {"G", "g"}) THEN IsoYear(z) ELSE FromDays(z).y)
  /\ Has(fmt, {"U"}) => WeekOfYear(FromDays(z), Sun) # 0
  /\ Has(fmt, {"W"}) => WeekOfYear(FromDays(z), Mon) # 0
  /\ offset >= 0 \/ offset % 60 = 0

\* A time written by to_stream() reads back with from_stream() and the same
\* format: by year, month and day, by day of the year, by week and weekday, by
\* ISO week, by century and two digit year, with blanks, and in the local time
\* of a zone east or west of the meridian.
TextReadsBack ==
  \A fmt \in Format :
    \A offset \in (IF Has(fmt, {"z", "Ez"}) THEN Offset ELSE {0}) :
      LET local == now + offset * Minute
      IN  InRange(Day) /\ Tells(fmt, base + Floor(local, Midnight), offset) =>
            FromStream(fmt, ToStream(fmt, base, local, offset)) =
              [fail |-> FALSE, day |-> Day, time |-> Time]

\* The stamp of a log line, its T and Z left out.
Stamp(z, t) == ToStream(<<Conv("F"), Conv("T")>>, z, t, 0)

\* As texts of one length.
Before(s, t) ==
  /\ Len(s) = Len(t)
  /\ \E i \in DOMAIN s : s[i] < t[i] /\ \A j \in 1..(i - 1) : s[j] = t[j]

\* The stamps process() writes sort as text the way they do as times.
StampsSort ==
  [][InRange(Day) /\ FromDays(Day).y \in 0..9998 =>
       Before(Stamp(base, now), Stamp(base, now'))]_vars
=============================================================================
