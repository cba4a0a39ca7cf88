------------------------------- MODULE Clock -------------------------------
(***************************************************************************)
(* The durations of src/src/skal/date.h: rounding one to a coarser unit,   *)
(* and time_of_day, a duration since midnight split into the fields of a   *)
(* clock.  A duration is a number of ticks; the log's ticks are            *)
(* microseconds.  A unit is the number of ticks it stands for.             *)
(***************************************************************************)
EXTENDS Calendar

CONSTANTS Width,    \* The decimals of a second that a tick is: 6 in the log.
          Second    \* The ticks of a second.

ASSUME ClockAssumption ==
  Width \in Nat /\ Second \in Nat \ {0} /\ Second = 10 ^ Width

Minute == 60 * Second
Hour   == 60 * Minute
Midnight == 24 * Hour    \* one day

-----------------------------------------------------------------------------
\* trunc, floor, ceil and round, to a count of units

Trunc(d, unit) == Quot(d, unit)

Floor_Trunc(d, unit) == Trunc(d, unit)

Floor(d, unit) ==
  LET t == Trunc(d, unit) IN IF t * unit > d THEN t - 1 ELSE t

Ceil(d, unit) ==
  LET t == Trunc(d, unit) IN IF t * unit < d THEN t + 1 ELSE t

\* To the nearest, to the even one on a tie.
Round(d, unit) ==
  LET t0 == Floor(d, unit)
      t1 == t0 + 1
      diff0 == d - t0 * unit
      diff1 == t1 * unit - d
  IN  CASE diff0 < diff1 -> t0
        [] diff0 > diff1 -> t1
        [] diff0 = diff1 -> IF t0 - Quot(t0, 2) * 2 = 0 THEN t0 ELSE t1

Magnitude(d) == IF d >= 0 THEN d ELSE -d

-----------------------------------------------------------------------------
\* decimal_format_seconds and time_of_day

DecimalSeconds(d) ==
  [s |-> Trunc(d, Second), sub |-> d - Trunc(d, Second) * Second]

TimeOfDay(t) ==
  LET h    == Magnitude(Trunc(t, Hour))
      m    == Trunc(Magnitude(t) - h * Hour, Minute)
      rest == DecimalSeconds(Magnitude(t) - h * Hour - m * Minute)
  IN  [neg |-> t < 0, mode |-> "24", h |-> h, m |-> m, s |-> rest.s, sub |-> rest.sub]

To24hr(tod) ==
  CASE tod.mode = "pm" /\ tod.h # 12 -> tod.h + 12
    [] tod.mode = "am" /\ tod.h = 12 -> 0
    [] OTHER -> tod.h

Make24(tod) == [tod EXCEPT !.h = To24hr(tod), !.mode = "24"]

\* Noon read as a morning hour.
Make12_NoonIsAm(tod) ==
  CASE tod.mode # "24" -> tod
    [] tod.mode = "24" /\ tod.h > 12 -> [tod EXCEPT !.h = @ - 12, !.mode = "pm"]
    [] tod.mode = "24" /\ tod.h <= 12 ->
         [tod EXCEPT !.h = IF @ = 0 THEN 12 ELSE @, !.mode = "am"]

Make12(tod) ==
  CASE tod.mode # "24" -> tod
    [] tod.mode = "24" /\ tod.h >= 12 ->
         [tod EXCEPT !.h = IF @ > 12 THEN @ - 12 ELSE @, !.mode = "pm"]
    [] tod.mode = "24" /\ tod.h < 12 ->
         [tod EXCEPT !.h = IF @ = 0 THEN 12 ELSE @, !.mode = "am"]

ToDuration(tod) ==
  LET p == To24hr(tod) * Hour + tod.m * Minute + tod.s * Second + tod.sub
  IN  IF tod.neg THEN -p ELSE p

InConventionalRange(tod) ==
  ~tod.neg /\ tod.h < 24 /\ tod.m < 60 /\ tod.s < 60 /\ tod.sub < Second
=============================================================================
